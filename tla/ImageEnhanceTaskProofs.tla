----------------------- MODULE ImageEnhanceTaskProofs -----------------------
(***************************************************************************)
(* Proofs about the tasks that work on pages.  ImageEnhanceTask: the       *)
(* status a client sees, the place of the task's worker, the files on the  *)
(* disk and the units charged belong together, for any number of tasks,    *)
(* pages and pipelines.  ScanTasks, the last part: how the provider's and  *)
(* the service's snapshot of a scan, the events that carry a snapshot from *)
(* one to the other and the two locks belong together, for any scans.      *)
(***************************************************************************)
EXTENDS ImageEnhanceTask, ScanTasks, TLAPS

\* What the place of a task's worker says about its status.
StatusPhase(t) ==
  /\ pc[t] = "none" => status[t] \in Ended \cup {"none"}
  /\ pc[t] = "start" => status[t] = "queued" \/ (status[t] = "cancelled" /\ t \in cancelled)
  /\ pc[t] \in {"next", "run", "convert"} => status[t] = "running"
  /\ pc[t] \in {"confirm", "store"} => status[t] = "completed" /\ final[t] # "none"
  /\ pc[t] = "confirm" => final[t] = "completed"
  /\ pc[t] = "exit" => status[t] \in Ended
  /\ pc[t] = "run" => step[t] <= Len(pipeline[t])

\* A worker is registered until it has exited, and a task that has been
\* converted keeps its files as long as its worker is there, and then until a cleanup.
Registered(t) ==
  /\ pc[t] # "none" <=> t \in active
  /\ pc[t] \in {"confirm", "store"} => t \in outputs
  /\ status[t] = "completed" => t \in outputs \cup lost \/ cleaning

\* What has been charged so far.
Paid(t) ==
  /\ pc[t] = "confirm" =>
       \A c \in Online : charged[t][c] = IF c \in unpaid[t] THEN 0 ELSE usage[t][c]
  /\ pc[t] = "store" /\ final[t] = "completed" => charged[t] = usage[t]
  /\ pc[t] \in {"exit", "none"} /\ status[t] = "completed" => charged[t] = usage[t]
  /\ t \notin outputs /\ pc[t] # "none" => charged[t] = NoUnits
  /\ pc[t] \in {"start", "next", "run", "convert"} => charged[t] = NoUnits

\* A task that has not been started has left no trace.
Unused(t) ==
  t >= nextTask =>
    pc[t] = "none" /\ status[t] = "none" /\ step[t] = 1 /\ charged[t] = NoUnits

TaskInv == \A t \in Tasks : StatusPhase(t) /\ Registered(t) /\ Paid(t) /\ Unused(t)

Inv == TypeOK /\ TaskInv /\ (cleaning => active = {})

-----------------------------------------------------------------------------
LEMMA UnitsType ==
  ASSUME NEW before \in 0..MaxPages, NEW after \in 0..MaxPages
  PROVE  Units(before, after) \in Nat
BY ImageEnhanceAssumption DEF Units

LEMMA UsedType ==
  ASSUME TypeOK, NEW t \in Tasks, NEW n \in 0..MaxPages
  PROVE  Used(t, n) \in [Online -> Nat]
<1>1. Units(pages[t], n) \in Nat
  BY UnitsType DEF TypeOK
<1>2. usage[t] \in [Online -> Nat]
  BY DEF TypeOK
<1> QED BY <1>1, <1>2 DEF Used

LEMMA InitInv == Init => Inv
<1> SUFFICES ASSUME Init PROVE Inv
  OBVIOUS
<1>1. TypeOK
  <2>1. nextTask \in 1..(MaxTasks + 1) /\ 0 \in 0..MaxPages
    BY ImageEnhanceAssumption DEF Init
  <2>4. cleaning \in BOOLEAN
    BY DEF Init
  <2>2. usage \in [Tasks -> [Online -> Nat]] /\ charged \in [Tasks -> [Online -> Nat]]
    BY DEF Init, NoUnits
  <2>3. \A t \in Tasks : step[t] \in 1..(Len(pipeline[t]) + 1)
    BY DEF Init
  <2> QED BY <2>1, <2>2, <2>3, <2>4 DEF Init, TypeOK
<1>2. TaskInv
  BY DEF Init, TaskInv, StatusPhase, Registered, Paid, Unused, Ended
<1> QED BY <1>1, <1>2 DEF Init, Inv

LEMMA PipelineLength ==
  ASSUME TypeOK, NEW t \in Tasks
  PROVE  Len(pipeline[t]) \in Nat
<1>1. pipeline[t] \in Pipelines \cup {<<>>}
  BY DEF TypeOK
<1> QED BY <1>1, ImageEnhanceAssumption

LEMMA WorkerType ==
  ASSUME Inv, NEW t \in Tasks, Worker(t)
  PROVE  TypeOK'
<1> USE DEF Goto, SetStatus, local, Ended, Inv
<1>1. CASE Begin(t) \/ NextStep(t) \/ ConvertFails(t) \/ Throw(t) \/ Exit(t)
  BY <1>1 DEF Begin, NextStep, ConvertFails, Throw, Exit, TypeOK
<1>2. CASE StoreFinalTask(t)
  BY <1>2 DEF StoreFinalTask, TypeOK, TaskInv, StatusPhase
<1>a. pc[t] = "run" => /\ step[t] \in Nat /\ step[t] + 1 \in Nat
                       /\ step[t] + 1 \in 1..(Len(pipeline[t]) + 1)
  BY PipelineLength DEF TypeOK, TaskInv, StatusPhase
<1>3. CASE StepSucceeds(t)
  <2>1. step' \in [Tasks -> Nat] /\ \A u \in Tasks : step'[u] \in 1..(Len(pipeline'[u]) + 1)
    BY <1>3, <1>a DEF StepSucceeds, TypeOK
  <2>2. usage' \in [Tasks -> [Online -> Nat]] /\ pages' \in [Tasks -> 0..MaxPages]
    BY <1>3, UsedType DEF StepSucceeds, TypeOK
  <2> QED BY <1>3, <2>1, <2>2 DEF StepSucceeds, TypeOK
<1>4. CASE StepFails(t)
  <2>1. step' \in [Tasks -> Nat] /\ \A u \in Tasks : step'[u] \in 1..(Len(pipeline'[u]) + 1)
    BY <1>4, <1>a DEF StepFails, TypeOK
  <2> QED BY <1>4, <2>1 DEF StepFails, TypeOK
<1>5. CASE Convert(t)
  BY <1>5 DEF Convert, TypeOK
<1>6. CASE ConfirmQuota(t)
  <2>1. charged' \in [Tasks -> [Online -> Nat]]
    <3>1. CASE charged' = charged
      BY <3>1 DEF TypeOK
    <3>2. ASSUME NEW c \in unpaid[t], charged' = [charged EXCEPT ![t][c] = @ + usage[t][c]]
          PROVE  charged' \in [Tasks -> [Online -> Nat]]
      <4>1. c \in Online /\ charged[t] \in [Online -> Nat] /\ charged[t][c] + usage[t][c] \in Nat
        BY DEF TypeOK
      <4>2. [charged[t] EXCEPT ![c] = @ + usage[t][c]] \in [Online -> Nat]
        BY <4>1
      <4> QED BY <3>2, <4>2 DEF TypeOK
    <3> QED BY <1>6, <3>1, <3>2 DEF ConfirmQuota
  <2>a. \/ pc' = [pc EXCEPT ![t] = "store"] /\ UNCHANGED unpaid
                  /\ (final' = final \/ final' = [final EXCEPT ![t] = "failed"])
        \/ (\E c \in unpaid[t] : unpaid' = [unpaid EXCEPT ![t] = @ \ {c}]) /\ UNCHANGED <<pc, final>>
    BY <1>6 DEF ConfirmQuota
  <2>b. /\ unpaid \in [Tasks -> SUBSET Online] /\ final \in [Tasks -> {"none", "completed", "failed"}]
        /\ pc \in [Tasks -> {"none", "start", "next", "run", "convert", "confirm", "store", "exit"}]
    BY DEF TypeOK
  <2>2. unpaid' \in [Tasks -> SUBSET Online]
    BY <2>a, <2>b
  <2>3. /\ final' \in [Tasks -> {"none", "completed", "failed"}]
        /\ pc' \in [Tasks -> {"none", "start", "next", "run", "convert", "confirm", "store", "exit"}]
    BY <2>a, <2>b
  <2>4. UNCHANGED <<nextTask, status, cancelled, active, pipeline, step, pages, usage, outputs, lost, cleaning>>
    BY <1>6 DEF ConfirmQuota
  <2> QED BY <2>1, <2>2, <2>3, <2>4 DEF TypeOK
<1> QED BY <1>1, <1>2, <1>3, <1>4, <1>5, <1>6 DEF Worker

LEMMA WorkerKeepsTasks ==
  ASSUME Inv, TypeOK', NEW t \in Tasks, Worker(t)
  PROVE  TaskInv'
<1> USE DEF Goto, SetStatus, local, Ended
<1>a. TypeOK /\ TaskInv /\ (cleaning => active = {})
  BY DEF Inv
<1>b. t < nextTask
  BY <1>a DEF TaskInv, Unused, Worker, Begin, NextStep, StepSucceeds, StepFails, Convert,
     ConvertFails, ConfirmQuota, StoreFinalTask, Throw, Exit, TypeOK, Tasks
<1> SUFFICES ASSUME NEW u \in Tasks
             PROVE  StatusPhase(u)' /\ Registered(u)' /\ Paid(u)' /\ Unused(u)'
  BY DEF TaskInv
<1>c. StatusPhase(u) /\ Registered(u) /\ Paid(u) /\ Unused(u)
  BY <1>a DEF TaskInv
<1>1. CASE Begin(t)
  BY <1>1, <1>a, <1>b, <1>c DEF Begin, TypeOK, StatusPhase, Registered, Paid, Unused
<1>2. CASE NextStep(t)
  <2>1. /\ pc[t] = "next"
        /\ \/ pc'[t] = "convert" /\ status'[t] = status[t]
           \/ pc'[t] = "run" /\ status'[t] = status[t] /\ step[t] <= Len(pipeline[t])
           \/ pc'[t] = "exit" /\ status'[t] = "cancelled"
        /\ t # u => pc'[u] = pc[u] /\ status'[u] = status[u]
        /\ UNCHANGED <<nextTask, cancelled, active, local, charged, outputs, lost, cleaning>>
    BY <1>2, <1>a DEF NextStep, TypeOK
  <2>2. CASE t # u
    BY <1>c, <2>1, <2>2 DEF StatusPhase, Registered, Paid, Unused
  <2>3. CASE t = u
    BY <1>a, <1>b, <1>c, <2>1, <2>3 DEF StatusPhase, Registered, Paid, Unused, TypeOK, Tasks
  <2> QED BY <2>2, <2>3
<1>3. CASE StepSucceeds(t)
  <2>1. /\ pc[t] = "run" /\ pc'[t] = "next"
        /\ t # u => pc'[u] = pc[u] /\ usage'[u] = usage[u] /\ step'[u] = step[u]
        /\ UNCHANGED <<nextTask, status, cancelled, active, pipeline, unpaid, final, charged, outputs, lost, cleaning>>
    BY <1>3, <1>a DEF StepSucceeds, TypeOK
  <2>2. CASE t # u
    BY <1>c, <2>1, <2>2 DEF StatusPhase, Registered, Paid, Unused
  <2>3. CASE t = u
    BY <1>a, <1>b, <1>c, <2>1, <2>3 DEF StatusPhase, Registered, Paid, Unused, TypeOK, Tasks
  <2> QED BY <2>2, <2>3
<1>4. CASE StepFails(t)
  <2>1. /\ pc[t] = "run"
        /\ \/ pc'[t] = "next" /\ status'[t] = status[t]
           \/ pc'[t] = "exit" /\ status'[t] = "failed"
        /\ t # u => pc'[u] = pc[u] /\ status'[u] = status[u] /\ step'[u] = step[u]
        /\ UNCHANGED <<nextTask, cancelled, active, pipeline, pages, usage, unpaid, final, charged, outputs, lost, cleaning>>
    BY <1>4, <1>a DEF StepFails, TypeOK
  <2>2. CASE t # u
    BY <1>c, <2>1, <2>2 DEF StatusPhase, Registered, Paid, Unused
  <2>3. CASE t = u
    BY <1>a, <1>b, <1>c, <2>1, <2>3 DEF StatusPhase, Registered, Paid, Unused, TypeOK, Tasks
  <2> QED BY <2>2, <2>3
<1>5. CASE Convert(t)
  <2>1. /\ pc[t] = "convert" /\ outputs' = outputs \cup {t}
        /\ pc'[t] = "confirm" /\ status'[t] = "completed" /\ final'[t] = "completed"
        /\ unpaid'[t] = {c \in Online : usage[t][c] > 0}
        /\ t # u => /\ pc'[u] = pc[u] /\ status'[u] = status[u]
                    /\ final'[u] = final[u] /\ unpaid'[u] = unpaid[u]
        /\ UNCHANGED <<nextTask, cancelled, active, pipeline, step, pages, usage, charged, lost, cleaning>>
    BY <1>5, <1>a DEF Convert, TypeOK
  <2>2. CASE t # u
    BY <1>c, <2>1, <2>2 DEF StatusPhase, Registered, Paid, Unused
  <2>3. CASE t = u
    <3>1. charged[t] = NoUnits /\ usage[t] \in [Online -> Nat]
      BY <1>a, <1>c, <2>1, <2>3 DEF Paid, TypeOK
    <3>2. \A c \in Online : charged[t][c] = 0 /\ (c \notin unpaid'[t] => usage[t][c] = 0)
      BY <2>1, <3>1 DEF NoUnits
    <3> QED BY <1>a, <1>b, <1>c, <2>1, <2>3, <3>2
        DEF StatusPhase, Registered, Paid, Unused, TypeOK, Tasks
  <2> QED BY <2>2, <2>3
<1>6. CASE ConvertFails(t) \/ Throw(t)
  <2>1. /\ pc[t] \in {"run", "convert", "confirm"}
        /\ pc'[t] = "exit" /\ status'[t] = "failed"
        /\ t # u => pc'[u] = pc[u] /\ status'[u] = status[u]
        /\ UNCHANGED <<nextTask, cancelled, active, local, charged, outputs, lost, cleaning>>
    BY <1>6, <1>a DEF ConvertFails, Throw, TypeOK
  <2>2. CASE t # u
    BY <1>c, <2>1, <2>2 DEF StatusPhase, Registered, Paid, Unused
  <2>3. CASE t = u
    BY <1>a, <1>b, <1>c, <2>1, <2>3 DEF StatusPhase, Registered, Paid, Unused, TypeOK, Tasks
  <2> QED BY <2>2, <2>3
<1>7. CASE ConfirmQuota(t)
  <2>1. /\ pc[t] = "confirm"
        /\ t # u => /\ pc'[u] = pc[u] /\ charged'[u] = charged[u]
                    /\ unpaid'[u] = unpaid[u] /\ final'[u] = final[u]
        /\ UNCHANGED <<nextTask, status, cancelled, active, pipeline, step, usage, outputs, lost, cleaning>>
    <3>1. /\ pc' = pc \/ pc' = [pc EXCEPT ![t] = "store"]
          /\ final' = final \/ final' = [final EXCEPT ![t] = "failed"]
          /\ unpaid' = unpaid \/ \E c \in unpaid[t] : unpaid' = [unpaid EXCEPT ![t] = @ \ {c}]
      BY <1>7 DEF ConfirmQuota
    <3>2. t # u => charged'[u] = charged[u]
      BY <1>7, <1>a DEF ConfirmQuota, TypeOK
    <3>3. t # u => pc'[u] = pc[u] /\ final'[u] = final[u] /\ unpaid'[u] = unpaid[u]
      <4>1. t # u => pc'[u] = pc[u]
        BY <3>1, <1>a DEF TypeOK
      <4>2. t # u => final'[u] = final[u]
        BY <3>1, <1>a DEF TypeOK
      <4>3. t # u => unpaid'[u] = unpaid[u]
        BY <3>1, <1>a DEF TypeOK
      <4> QED BY <4>1, <4>2, <4>3
    <3> QED BY <1>7, <3>2, <3>3 DEF ConfirmQuota
  <2>2. CASE t # u
    BY <1>c, <2>1, <2>2 DEF StatusPhase, Registered, Paid, Unused
  <2>3. CASE t = u /\ unpaid[t] = {}
    <3>1. pc' = [pc EXCEPT ![t] = "store"] /\ UNCHANGED <<unpaid, final, charged>>
      BY <1>7, <2>3 DEF ConfirmQuota
    <3>2. charged[t] = usage[t]
      BY <1>a, <1>c, <2>1, <2>3 DEF Paid, TypeOK
    <3> QED BY <1>a, <1>b, <1>c, <2>1, <2>3, <3>1, <3>2
        DEF TypeOK, StatusPhase, Registered, Paid, Unused
  <2>4. ASSUME NEW c \in unpaid[t], t = u,
               charged' = [charged EXCEPT ![t][c] = @ + usage[t][c]],
               unpaid' = [unpaid EXCEPT ![t] = @ \ {c}], UNCHANGED <<pc, final>>
        PROVE  StatusPhase(u)' /\ Registered(u)' /\ Paid(u)' /\ Unused(u)'
    <3>1. /\ charged[t] \in [Online -> Nat] /\ usage[t] \in [Online -> Nat] /\ c \in Online
          /\ charged[t][c] = 0 /\ unpaid[t] \subseteq Online /\ t \in outputs
      BY <1>a, <1>c, <2>1, <2>4 DEF TypeOK, Paid, Registered
    <3>2. \A e \in Online : charged'[t][e] = IF e = c THEN usage[t][c] ELSE charged[t][e]
      BY <1>a, <2>4, <3>1 DEF TypeOK
    <3>3. \A e \in Online : charged'[t][e] = IF e \in unpaid'[t] THEN 0 ELSE usage[t][e]
      BY <1>a, <1>c, <2>1, <2>4, <3>1, <3>2 DEF TypeOK, Paid
    <3> QED BY <1>b, <1>c, <2>1, <2>4, <3>1, <3>3, <1>a
        DEF StatusPhase, Registered, Paid, Unused, TypeOK
  <2>5. CASE t = u /\ final' = [final EXCEPT ![t] = "failed"] /\ pc' = [pc EXCEPT ![t] = "store"]
             /\ UNCHANGED <<unpaid, charged>>
    BY <1>a, <1>b, <1>c, <2>1, <2>5 DEF TypeOK, StatusPhase, Registered, Paid, Unused
  <2> QED BY <1>7, <2>2, <2>3, <2>4, <2>5 DEF ConfirmQuota
<1>8. CASE StoreFinalTask(t)
  BY <1>8, <1>a, <1>b, <1>c DEF StoreFinalTask, TypeOK, StatusPhase, Registered, Paid, Unused
<1>9. CASE Exit(t)
  BY <1>9, <1>a, <1>b, <1>c DEF Exit, TypeOK, StatusPhase, Registered, Paid, Unused
<1> QED BY <1>1, <1>2, <1>3, <1>4, <1>5, <1>6, <1>7, <1>8, <1>9 DEF Worker

LEMMA RequestKeepsInv ==
  ASSUME Inv, \/ \E p \in Pipelines, n \in 1..MaxPages : StartTask(p, n)
              \/ \E t \in Tasks : CancelTask(t)
              \/ CleanupTemp \/ CleanupTempFails \/ ClearFinishedTasks
  PROVE  Inv'
<1> USE DEF Goto, SetStatus, local, Ended
<1>a. TypeOK /\ TaskInv /\ (cleaning => active = {})
  BY DEF Inv
<1>1. ASSUME NEW p \in Pipelines, NEW n \in 1..MaxPages, StartTask(p, n) PROVE Inv'
  <2>1. nextTask \in Tasks /\ nextTask' = nextTask + 1 /\ 1 \in 1..(Len(p) + 1)
    BY <1>a, <1>1, ImageEnhanceAssumption DEF StartTask, TypeOK, Tasks
  <2>a. nextTask' \in 1..(MaxTasks + 1) /\ step[nextTask] = 1
    BY <1>a, <1>1, <2>1, ImageEnhanceAssumption DEF StartTask, TypeOK, TaskInv, Unused, Tasks
  <2>b. \A u \in Tasks : step'[u] \in 1..(Len(pipeline'[u]) + 1)
    BY <1>a, <1>1, <2>1, <2>a DEF StartTask, TypeOK
  <2>c. /\ status' \in [Tasks -> {"none", "queued", "running"} \cup Ended] /\ active' \subseteq Tasks
        /\ pipeline' \in [Tasks -> Pipelines \cup {<<>>}] /\ pages' \in [Tasks -> 0..MaxPages]
    BY <1>a, <1>1, <2>1, ImageEnhanceAssumption DEF StartTask, TypeOK
  <2>d. pc' \in [Tasks -> {"none", "start", "next", "run", "convert", "confirm", "store", "exit"}]
    BY <1>a, <1>1, <2>1 DEF StartTask, TypeOK
  <2>e. cleaning' \in BOOLEAN
    BY <1>a, <1>1 DEF StartTask, TypeOK
  <2>f. UNCHANGED <<cancelled, step, usage, unpaid, final, charged, outputs, lost>>
    BY <1>1 DEF StartTask
  <2>2. TypeOK'
    BY <1>a, <2>1, <2>a, <2>b, <2>c, <2>d, <2>e, <2>f DEF TypeOK
  <2>3. TaskInv'
    BY <1>a, <1>1, <2>1 DEF StartTask, TypeOK, TaskInv, StatusPhase, Registered, Paid, Unused, Tasks
  <2> QED BY <1>1, <2>2, <2>3 DEF Inv, StartTask
<1>2. ASSUME NEW t \in Tasks, CancelTask(t) PROVE Inv'
  <2>1. TypeOK'
    BY <1>a, <1>2 DEF CancelTask, TypeOK
  <2>2. TaskInv'
    BY <1>a, <1>2 DEF CancelTask, TypeOK, TaskInv, StatusPhase, Registered, Paid, Unused
  <2> QED BY <1>a, <1>2, <2>1, <2>2 DEF Inv, CancelTask
<1>3. CASE CleanupTemp
  <2>1. TypeOK'
    BY <1>a, <1>3 DEF CleanupTemp, TypeOK
  <2>2. TaskInv'
    BY <1>a, <1>3 DEF CleanupTemp, TypeOK, TaskInv, StatusPhase, Registered, Paid, Unused
  <2> QED BY <1>a, <1>3, <2>1, <2>2 DEF Inv, CleanupTemp
<1>4. CASE CleanupTempFails
  <2>1. outputs' \subseteq outputs /\ outputs' \cup lost' = outputs \cup lost
    BY <1>4 DEF CleanupTempFails
  <2>2. TypeOK'
    BY <1>a, <1>4, <2>1 DEF CleanupTempFails, TypeOK
  <2>3. TaskInv'
    BY <1>a, <1>4, <2>1 DEF CleanupTempFails, TypeOK, TaskInv, StatusPhase, Registered, Paid, Unused
  <2> QED BY <1>a, <1>4, <2>2, <2>3 DEF Inv, CleanupTempFails
<1>5. CASE ClearFinishedTasks
  <2>1. TypeOK'
    BY <1>a, <1>5 DEF ClearFinishedTasks, TypeOK
  <2>2. TaskInv'
    BY <1>a, <1>5 DEF ClearFinishedTasks, TypeOK, TaskInv, StatusPhase, Registered, Paid, Unused
  <2> QED BY <1>a, <1>5, <2>1, <2>2 DEF Inv, ClearFinishedTasks
<1> QED BY <1>1, <1>2, <1>3, <1>4, <1>5

LEMMA WorkerKeepsInv ==
  ASSUME Inv, NEW t \in Tasks, Worker(t)
  PROVE  Inv'
<1>1. cleaning' = cleaning /\ active' \subseteq active
  BY DEF Worker, Begin, NextStep, StepSucceeds, StepFails, Convert, ConvertFails, ConfirmQuota,
     StoreFinalTask, Throw, Exit
<1> QED BY <1>1, WorkerType, WorkerKeepsTasks DEF Inv

LEMMA StepKeepsInv == Inv /\ [Next]_vars => Inv'
<1>1. Inv /\ UNCHANGED vars => Inv'
  BY DEF Inv, TypeOK, TaskInv, StatusPhase, Registered, Paid, Unused, vars, local
<1> QED BY <1>1, RequestKeepsInv, WorkerKeepsInv DEF Next

LEMMA Invariant == Spec => []Inv
BY InitInv, StepKeepsInv, PTL DEF Spec

\* Every variable keeps its type: no worker leaves the places of RunTask, the loop
\* counter never runs past the pipeline, and nothing is charged in fractions.
THEOREM TypeCorrect == Spec => []TypeOK
<1>1. Inv => TypeOK
  BY DEF Inv
<1> QED BY <1>1, Invariant, PTL

\* A task that shows as completed has its files: StorageCleanup asks for the active
\* workers, and a worker stays active until its final task is stored, so it can never
\* delete what a confirmation in progress still delivers.  Only a cleanup that fails half-way
\* leaves completed tasks without the files it did remove.
THEOREM CompletedKeepsOutput == Spec => []CompletedHasOutput
<1>1. Inv => CompletedHasOutput
  BY DEF Inv, TaskInv, Registered, CompletedHasOutput
<1> QED BY <1>1, Invariant, PTL

\* A task that stays completed has been charged for exactly the units its online steps
\* used, each capability once, in whatever order ConfirmOnlineEnhanceQuota meets them;
\* a task that has not converted its pages has been charged for nothing.
THEOREM CompletedPaysExactly == Spec => []CompletedIsPaid
<1>1. Inv => CompletedIsPaid
  BY DEF Inv, TaskInv, Paid, CompletedIsPaid
<1> QED BY <1>1, Invariant, PTL

\* An outcome is final: no late step of a worker, cancellation or cleanup changes the
\* status of an ended task, except that a completed one may fail in its confirmation.
THEOREM OutcomesStay == Spec => OutcomeIsFinal
<1>1. Inv /\ [Next]_vars =>
        [\A t \in Tasks : status[t] \in Ended =>
           \/ status'[t] \in {status[t], "none"}
           \/ status[t] = "completed" /\ pc[t] # "none" /\ status'[t] = "failed"]_vars
  <2> SUFFICES ASSUME Inv, Next, NEW t \in Tasks, status[t] \in Ended
               PROVE  \/ status'[t] \in {status[t], "none"}
                      \/ status[t] = "completed" /\ pc[t] # "none" /\ status'[t] = "failed"
    OBVIOUS
  <2> USE DEF Goto, SetStatus, Ended
  <2>a. TypeOK /\ StatusPhase(t) /\ Unused(t)
    BY DEF Inv, TaskInv
  <2>1. ASSUME NEW p \in Pipelines, NEW n \in 1..MaxPages, StartTask(p, n)
        PROVE  status'[t] = status[t]
    BY <2>a, <2>1 DEF StartTask, TypeOK, Unused, Tasks
  <2>2. CASE (\E u \in Tasks : CancelTask(u)) \/ CleanupTemp \/ CleanupTempFails
             \/ ClearFinishedTasks
    BY <2>a, <2>2 DEF CancelTask, CleanupTemp, CleanupTempFails, ClearFinishedTasks, TypeOK
  <2>3. ASSUME NEW u \in Tasks, Worker(u), u # t
        PROVE  status'[t] = status[t]
    BY <2>a, <2>3 DEF Worker, Begin, NextStep, StepSucceeds, StepFails, Convert, ConvertFails,
       ConfirmQuota, StoreFinalTask, Throw, Exit, TypeOK
  <2>4. CASE Worker(t)
    BY <2>a, <2>4 DEF Worker, Begin, NextStep, StepSucceeds, StepFails, Convert, ConvertFails,
       ConfirmQuota, StoreFinalTask, Throw, Exit, TypeOK, StatusPhase
  <2> QED BY <2>1, <2>2, <2>3, <2>4 DEF Next
<1> QED BY <1>1, Invariant, PTL DEF Spec, OutcomeIsFinal

-----------------------------------------------------------------------------
(* SANE and TWAIN scans (ScanTasks).                                       *)

\* The places of the routine an event goes through.  Inside it the lifecycle lock is held,
\* except by twain.scan_get and by a poll.
Inside == {"pages", "enhancing", "finalize", "publish", "converting", "store"}
Event == {"dispatch"} \cup Inside
Cancelling == actor["io"].then \in {"mark", "keep"}

\* Where a scan thread can be, and where its events return to.
ThreadPlace ==
  \A t \in Scans :
    /\ actor[t].task = t /\ actor[t].op \in {"none", "thread"}
    /\ actor[t].at \in {"idle", "started", "scanning", "ended"} \cup Event
    /\ actor[t].at \in Event => actor[t].then \in {"scanning", "ended"}

\* The same of the io thread, for each command.
IoPlace ==
  /\ actor["io"].op \in {"none", "scan", "get", "cancel", "close"}
  /\ actor["io"].op = "none" => actor["io"].at = "idle"
  /\ actor["io"].at = "idle" => actor["io"].op = "none"
  /\ actor["io"].at \notin {"idle", "cancelNext", "pollNext"} => actor["io"].task \in Scans
  /\ actor["io"].op = "scan" =>
       /\ actor["io"].at \in {"lock", "insert", "reply"} \cup Event
       /\ actor["io"].at \in Event => actor["io"].then = "reply"
  /\ actor["io"].op = "get" =>
       /\ actor["io"].at \in {"get", "finalize", "publish", "converting", "store"}
       /\ actor["io"].task \in TwainTasks /\ actor["io"].then = "idle"
  /\ actor["io"].op = "cancel" =>
       /\ actor["io"].at \in {"cancel", "mark"} \cup Event
       /\ actor["io"].at \in Event => actor["io"].then = "mark"
  /\ actor["io"].op = "close" =>
       /\ ~present
       /\ actor["io"].at \in {"cancelNext", "cancel", "keep", "pollNext"} \cup Event
       /\ actor["io"].task \in TwainTasks \cup {Nobody}
       /\ actor["io"].at \in Event =>
            \/ actor["io"].then = "keep"
            \/ actor["io"].then = "pollNext" /\ actor["io"].at = "store"
  /\ Cancelling => actor["io"].at \in Event

KindPlace ==
  \A a \in Actors :
    /\ actor[a].at \in {"pages", "enhancing"} => actor[a].task \in SaneTasks
    /\ actor[a].at \in {"finalize", "publish"} => actor[a].task \in TwainTasks

StorageInv ==
  /\ \A t \in Scans : storage = t <=> actor[t].at \in Inside
  /\ storage = "io" <=> \/ actor["io"].op = "scan" /\ actor["io"].at # "lock"
                        \/ Cancelling /\ actor["io"].at \in Inside

\* CancelScan's event is sent with the provider's mutex held.
ProvMuInv == Cancelling => provMu[Kind(actor["io"].task)] = "io"

\* A scan the provider does not know has left no trace.
NewInv ==
  /\ \A t \in Scans : prov[t].status = "none" =>
       /\ prov[t] = NoTask /\ table[t] = NoTask /\ actor[t].at = "idle"
       /\ actor["io"].task = t => actor["io"].at \in {"lock", "insert"}
  /\ \A t \in todo \cup waitFor : prov[t].status # "none"
  /\ actor["io"].at \in {"lock", "insert"} => prov[actor["io"].task].status = "none"
  /\ actor["io"].op = "scan" => actor[actor["io"].task].at = "idle"

\* How far the provider's snapshot is while the thread is somewhere.
ThreadInv ==
  \A t \in Scans :
    /\ actor[t].at = "idle" => prov[t].status \in {"none", "queued"}
    /\ actor[t].at = "started" => prov[t].status = "queued"
    /\ actor[t].at = "scanning" => prov[t].status = "running"
    /\ actor[t].at = "ended" => prov[t].status \in {"completed", "cancelled"}
    /\ actor[t].at \in Event =>
         IF actor[t].then = "scanning" THEN prov[t].status = "running"
         ELSE prov[t].status \in {"completed", "cancelled"}

\* No snapshot of a scan is ahead of the provider's.
Begun == {"queued", "running"}
SnapInv ==
  \A a \in Actors :
    /\ actor[a].at \in Event \cup {"keep"} /\ prov[actor[a].task].status \in Begun =>
         actor[a].snap.status \in Begun
    /\ actor[a].at \in {"enhancing", "publish"} => actor[a].snap.status = "completed"
    /\ actor[a].at = "converting" => actor[a].snap.status \in {"completed", "converting"}
    /\ actor[a].at \in {"dispatch", "pages"} =>
         actor[a].snap.status \in {"queued", "running", "completed", "cancelled"}

TwainInv ==
  \A t \in TwainTasks : prov[t].status \in Begun =>
    /\ table[t].status \in Begun \cup {"none"}
    /\ table[t].status = "none" => actor[t].at = "idle"

\* The end of a SANE scan is not overtaken.
SettleInv ==
  \A t \in SaneTasks :
    /\ IsTwainTaskTerminal(prov[t]) /\ actor["io"].task = t /\ actor["io"].at \in Event =>
         IsTwainTaskTerminal(actor["io"].snap)
    /\ actor[t].at \in Event /\ actor[t].then = "ended" => IsTwainTaskTerminal(actor[t].snap)
    /\ actor[t].at = "ended" =>
         \/ IsTwainTaskTerminal(table[t])
         \/ /\ storage = "io" /\ actor["io"].task = t
            /\ actor["io"].at \in {"enhancing", "converting", "store"}

OutInv ==
  /\ \A t \in Scans : prov[t].status = "completed" => prov[t].out # "none"
  /\ \A t \in Scans : table[t].status = "completed" => table[t].out # "none"
  /\ \A a \in Actors : actor[a].snap.status = "completed" => actor[a].snap.out # "none"

\* What a document scan stores as completed is its document, while its connection is there.
Delivered ==
  /\ \A t \in document : table[t].status = "completed" => table[t].out = "final"
  /\ \A a \in Actors : actor[a].at = "store" /\ actor[a].task \in document =>
       (actor[a].snap.status = "completed" => actor[a].snap.out = "final")

ConvertedInv == present => Delivered

ScanInv ==
  /\ ScanTypeOK /\ ThreadPlace /\ IoPlace /\ KindPlace /\ StorageInv /\ ProvMuInv
  /\ NewInv /\ ThreadInv /\ SnapInv /\ TwainInv /\ SettleInv /\ OutInv /\ ConvertedInv

-----------------------------------------------------------------------------
(* How the actors and the snapshots change.                                *)

Alone(a) == \A b \in Actors : b # a => actor'[b] = actor[b]
SameCall(a) ==
  /\ actor'[a].op = actor[a].op /\ actor'[a].task = actor[a].task
  /\ actor'[a].then = actor[a].then

\* What Proceed does to the actors.
LEMMA Proceeds ==
  ASSUME actor \in [Actors -> ActorSet], NEW a \in Actors, NEW place, NEW snap,
         Proceed(a, place, snap)
  PROVE  /\ \A b \in Actors : b # a => actor'[b] = actor[b]
         /\ actor'[a].at = place /\ actor'[a].snap = snap
         /\ actor'[a].op = actor[a].op /\ actor'[a].task = actor[a].task
         /\ actor'[a].then = actor[a].then
         /\ place \in Places /\ snap \in Snapshot => actor' \in [Actors -> ActorSet]
BY DEF Proceed, ActorSet

\* What Call does to them.
LEMMA CallGoes ==
  ASSUME actor \in [Actors -> ActorSet], NEW a \in Actors, NEW place, NEW snap, NEW then,
         Call(a, place, snap, then)
  PROVE  /\ \A b \in Actors : b # a => actor'[b] = actor[b]
         /\ actor'[a].at = place /\ actor'[a].snap = snap /\ actor'[a].then = then
         /\ actor'[a].op = actor[a].op /\ actor'[a].task = actor[a].task
         /\ place \in Places /\ snap \in Snapshot /\ then \in Places =>
              actor' \in [Actors -> ActorSet]
<1>1. actor[a] \in ActorSet
  OBVIOUS
<1>2. actor' = [actor EXCEPT ![a] = [actor[a] EXCEPT !.at = place, !.snap = snap, !.then = then]]
  BY DEF Call
<1>3. ASSUME place \in Places, snap \in Snapshot, then \in Places
      PROVE  [actor[a] EXCEPT !.at = place, !.snap = snap, !.then = then] \in ActorSet
  BY <1>1, <1>3 DEF ActorSet
<1>4. actor'[a] = [actor[a] EXCEPT !.at = place, !.snap = snap, !.then = then]
  BY <1>2
<1>5. /\ actor'[a].at = place /\ actor'[a].snap = snap /\ actor'[a].then = then
      /\ actor'[a].op = actor[a].op /\ actor'[a].task = actor[a].task
  BY <1>1, <1>4 DEF ActorSet
<1> QED BY <1>2, <1>3, <1>5

\* What Accept does to them.
LEMMA IoGoesOn ==
  ASSUME actor \in [Actors -> ActorSet], NEW op, NEW t, NEW place,
         Accept(op, t, place)
  PROVE  /\ \A b \in Actors : b # "io" => actor'[b] = actor[b]
         /\ actor'["io"].at = place /\ actor'["io"].snap = NoTask /\ actor'["io"].then = "idle"
         /\ actor'["io"].op = op /\ actor'["io"].task = t
         /\ (/\ op \in {"none", "scan", "get", "cancel", "close"} /\ place \in Places
             /\ t \in Scans \cup {Nobody}) => actor' \in [Actors -> ActorSet]
BY DEF Accept, ActorSet, Actors, NoTask, Snapshot, Places

\* The io thread rests.
LEMMA IoIsIdle ==
  ASSUME actor \in [Actors -> ActorSet], IoRests
  PROVE  /\ \A b \in Actors : b # "io" => actor'[b] = actor[b]
         /\ actor'["io"].at = "idle" /\ actor'["io"].snap = NoTask /\ actor'["io"].then = "idle"
         /\ actor'["io"].op = "none" /\ actor'["io"].task = Nobody
         /\ actor' \in [Actors -> ActorSet]
BY DEF IoRests, Idle, ActorSet, Actors, NoTask, Snapshot, Places

\* A snapshot with a new status is still a snapshot.
LEMMA StatusUpdated ==
  ASSUME NEW s \in Snapshot,
         NEW new \in {"queued", "running", "enhancing", "converting", "completed", "failed",
                         "cancelled"}
  PROVE  /\ [s EXCEPT !.status = new] \in Snapshot
         /\ [s EXCEPT !.status = new].status = new
         /\ [s EXCEPT !.status = new].out = s.out
BY DEF Snapshot

\* So is one whose cancellation has been asked for.
LEMMA CancelUpdated ==
  ASSUME NEW s \in Snapshot
  PROVE  /\ [s EXCEPT !.cancel = TRUE] \in Snapshot
         /\ [s EXCEPT !.cancel = TRUE].cancel = TRUE
         /\ [s EXCEPT !.cancel = TRUE].status = s.status
         /\ [s EXCEPT !.cancel = TRUE].out = s.out
BY DEF Snapshot

\* Whoever is in the midst of something works on a scan.
LEMMA TaskKnown ==
  ASSUME ScanTypeOK, ThreadPlace, IoPlace, NEW a \in Actors
  PROVE  /\ a = "io" \/ (a \in Scans /\ actor[a].task = a)
         /\ actor[a].at \in Event \cup {"lock", "insert", "reply", "get", "cancel", "mark",
                                       "keep"} =>
              actor[a].task \in Scans
         /\ actor[a].at \in Event /\ actor[a].then = "idle" => a = "io"
<1>1. CASE a = "io"
  <2>1. actor["io"].at \notin {"idle", "cancelNext", "pollNext"} => actor["io"].task \in Scans
    BY DEF IoPlace
  <2> QED BY <1>1, <2>1 DEF Event, Inside
<1>2. CASE a # "io"
  <2>1. /\ a \in Scans /\ actor[a].task = a
        /\ actor[a].at \in Event => actor[a].then \in {"scanning", "ended"}
        /\ actor[a].at \in {"idle", "started", "scanning", "ended"} \cup Event
    BY <1>2 DEF ThreadPlace, Actors
  <2> QED BY <2>1
<1> QED BY <1>1, <1>2

-----------------------------------------------------------------------------
(* What each step does.                                                    *)

\* The event takes the lifecycle lock.
LEMMA EnterDoes ==
  ASSUME ScanTypeOK, ThreadPlace, IoPlace, NEW a \in Actors, EnterDispatch(a)
  PROVE  /\ actor[a].task \in Scans
         /\ actor[a].at = "dispatch" /\ storage \in {Nobody, a} /\ storage' = a
         /\ actor'[a].at = IF actor[a].task \in SaneTasks THEN "pages" ELSE "finalize"
         /\ actor'[a].snap = actor[a].snap /\ Alone(a) /\ SameCall(a)
         /\ UNCHANGED <<document, enhanced, prov, table, provMu, present, todo, waitFor, polls>>
         /\ actor' \in [Actors -> ActorSet]
<1> actor[a].task \in Scans
  BY TaskKnown DEF EnterDispatch, At, Event, Inside
<1> actor \in [Actors -> ActorSet]
  BY DEF ScanTypeOK, ActorSet
<1> /\ {"pages", "finalize"} \subseteq Places /\ actor[a].snap \in Snapshot
  BY DEF Places, ActorSet
<1> QED BY Proceeds DEF EnterDispatch, At, TaskOf, Snap, closeVars, Alone, SameCall

\* A completed SANE event is published and worked on, any other is stored.
LEMMA PagesDoes ==
  ASSUME ScanTypeOK, ThreadPlace, IoPlace, NEW a \in Actors, HandlePages(a) 
  PROVE  /\ actor[a].task \in Scans
         /\ actor[a].at = "pages"
         /\ actor'[a].snap = actor[a].snap /\ Alone(a) /\ SameCall(a)
         /\ LET t == actor[a].task
                done == actor[a].snap.status = "completed" /\ actor[a].snap.out # "none"
            IN  \/ /\ done \/ actor[a].snap.status \in {"enhancing", "converting"}
                   /\ actor'[a].at \in {"enhancing", "converting"}
                   /\ ~done => actor'[a].at = actor[a].snap.status
                   /\ \E s \in Snapshot : /\ s.status = actor'[a].at /\ s.out = actor[a].snap.out
                                       /\ table' = [table EXCEPT ![t] = s]
                \/ /\ actor'[a].at = "store" /\ table' = table
                   /\ done => t \notin document
         /\ UNCHANGED <<document, enhanced, prov, storage, provMu, present, todo, waitFor, polls>>
         /\ actor' \in [Actors -> ActorSet]
<1> actor[a].task \in Scans
  BY TaskKnown DEF HandlePages, At, Event, Inside
<1> actor \in [Actors -> ActorSet]
  BY DEF ScanTypeOK, ActorSet
<1> actor[a].snap \in Snapshot
  BY DEF ActorSet
<1> DEFINE t == actor[a].task
           done == actor[a].snap.status = "completed" /\ actor[a].snap.out # "none"
           stage == IF done /\ t \in enhanced THEN "enhancing"
                    ELSE IF done THEN AfterPages(t) ELSE actor[a].snap.status
<1>1. /\ actor[a].at = "pages"
      /\ IF stage \in {"enhancing", "converting"}
         THEN /\ table' = [table EXCEPT ![t] = [actor[a].snap EXCEPT !.status = stage]]
              /\ Proceed(a, stage, actor[a].snap)
         ELSE table' = table /\ Proceed(a, "store", actor[a].snap)
      /\ UNCHANGED <<document, enhanced, prov, storage, provMu, present, todo, waitFor, polls>>
  BY DEF HandlePages, At, TaskOf, Snap, closeVars
<1>2. done => stage \in {"enhancing", "converting"} \/ t \notin document
  BY DEF AfterPages
<1>3. ~done => stage = actor[a].snap.status
  OBVIOUS
<1> HIDE DEF stage, done
<1>4. CASE stage \in {"enhancing", "converting"}
  <2> stage \in Places
    BY <1>4 DEF Places
  <2>1. Proceed(a, stage, actor[a].snap)
    BY <1>1, <1>4
  <2>2. /\ actor'[a].at = stage /\ actor'[a].snap = actor[a].snap /\ Alone(a) /\ SameCall(a)
        /\ actor' \in [Actors -> ActorSet]
    BY <2>1, Proceeds DEF Alone, SameCall
  <2> DEFINE s == [actor[a].snap EXCEPT !.status = stage]
  <2>3. s \in Snapshot /\ s.status = stage /\ s.out = actor[a].snap.out
    <3> stage \in {"queued", "running", "enhancing", "converting", "completed", "failed",
                   "cancelled"}
      BY <1>4
    <3> QED BY StatusUpdated
  <2>4. table' = [table EXCEPT ![t] = s]
    BY <1>1, <1>4
  <2> HIDE DEF s
  <2> QED BY <1>1, <1>3, <1>4, <2>2, <2>3, <2>4 DEF done
<1>5. CASE stage \notin {"enhancing", "converting"}
  <2> "store" \in Places
    BY DEF Places
  <2>1. Proceed(a, "store", actor[a].snap)
    BY <1>1, <1>5
  <2>2. /\ actor'[a].at = "store" /\ actor'[a].snap = actor[a].snap /\ Alone(a) /\ SameCall(a)
        /\ actor' \in [Actors -> ActorSet]
    BY <2>1, Proceeds DEF Alone, SameCall
  <2> QED BY <1>1, <1>2, <1>5, <2>2 DEF done
<1> QED BY <1>4, <1>5

\* After the enhancement a document is converted, anything else stored.
LEMMA EnhanceDoes ==
  ASSUME ScanTypeOK, ThreadPlace, IoPlace, NEW a \in Actors, NEW ok \in BOOLEAN, Enhance(a, ok)
  PROVE  /\ actor[a].task \in Scans
         /\ actor[a].at = "enhancing" /\ Alone(a) /\ SameCall(a)
         /\ \/ /\ actor'[a].at = "converting" /\ actor'[a].snap = actor[a].snap
               /\ \E s \in Snapshot : /\ s.status = "converting" /\ s.out = actor[a].snap.out
                                   /\ table' = [table EXCEPT ![actor[a].task] = s]
            \/ /\ actor'[a].at = "store" /\ table' = table
               /\ \/ actor'[a].snap = actor[a].snap /\ actor[a].task \notin document
                  \/ actor'[a].snap.status = "failed"
         /\ UNCHANGED <<document, enhanced, prov, storage, provMu, present, todo, waitFor, polls>>
         /\ actor' \in [Actors -> ActorSet]
<1> actor[a].task \in Scans
  BY TaskKnown DEF Enhance, At, Event, Inside
<1> actor \in [Actors -> ActorSet]
  BY DEF ScanTypeOK, ActorSet
<1> /\ {"converting", "store"} \subseteq Places /\ actor[a].snap \in Snapshot
   /\ [actor[a].snap EXCEPT !.status = "failed"] \in Snapshot
   /\ [actor[a].snap EXCEPT !.status = "failed"].status = "failed"
  BY StatusUpdated DEF Places, ActorSet
<1>1. CASE ok /\ actor[a].task \in document
  <2>1. Proceed(a, "converting", actor[a].snap)
    BY <1>1 DEF Enhance, TaskOf, Snap
  <2> DEFINE s == [actor[a].snap EXCEPT !.status = "converting"]
  <2>2. s \in Snapshot /\ s.status = "converting" /\ s.out = actor[a].snap.out
    BY StatusUpdated
  <2>3. table' = [table EXCEPT ![actor[a].task] = s]
    BY <1>1 DEF Enhance, TaskOf, Snap
  <2>4. /\ actor[a].at = "enhancing"
        /\ UNCHANGED <<document, enhanced, prov, storage, provMu, present, todo, waitFor, polls>>
    BY DEF Enhance, At, closeVars
  <2>5. /\ actor'[a].at = "converting" /\ actor'[a].snap = actor[a].snap /\ Alone(a)
        /\ SameCall(a) /\ actor' \in [Actors -> ActorSet]
    BY <2>1, Proceeds DEF Alone, SameCall
  <2> HIDE DEF s
  <2> QED BY <2>2, <2>3, <2>4, <2>5
<1>2. CASE ok /\ actor[a].task \notin document
  <2>1. Proceed(a, "store", actor[a].snap)
    BY <1>2 DEF Enhance, TaskOf, Snap
  <2> QED BY <1>2, <2>1, Proceeds DEF Enhance, At, TaskOf, Snap, closeVars, Alone, SameCall
<1>3. CASE ~ok
  <2>1. Proceed(a, "store", [actor[a].snap EXCEPT !.status = "failed"])
    BY <1>3 DEF Enhance, TaskOf, Snap
  <2> QED BY <1>3, <2>1, Proceeds DEF Enhance, At, TaskOf, Snap, closeVars, Alone, SameCall
<1> QED BY <1>1, <1>2, <1>3

\* A TWAIN snapshot is replaced by the cached one, published, or stored as it is.
LEMMA FinalizeDoes ==
  ASSUME ScanTypeOK, ThreadPlace, IoPlace, NEW a \in Actors, FinalizeTwainScanTask(a) 
  PROVE  /\ actor[a].task \in Scans
         /\ actor[a].at = "finalize" /\ Alone(a) /\ SameCall(a)
         /\ LET t == actor[a].task IN
            \/ /\ actor'[a].at = "store" /\ actor'[a].snap = table[t]
               /\ \/ table[t].status = "completed" /\ table[t].out = "final"
                  \/ table[t].status = "converting" /\ table[t].out # "none"
            \/ /\ actor'[a].at = "publish" /\ actor'[a].snap = actor[a].snap
               /\ actor[a].snap.status = "completed"
            \/ /\ actor'[a].at = "store" /\ actor'[a].snap = actor[a].snap
               /\ \/ t \notin document
                  \/ actor[a].snap.status # "completed"
                  \/ actor[a].snap.out \in {"none", "final"}
         /\ UNCHANGED <<document, enhanced, prov, table, storage, provMu, present, todo,
                        waitFor, polls>>
         /\ actor' \in [Actors -> ActorSet]
<1> actor[a].task \in Scans
  BY TaskKnown DEF FinalizeTwainScanTask, At, Event, Inside
<1> actor \in [Actors -> ActorSet]
  BY DEF ScanTypeOK, ActorSet
<1> /\ {"publish", "store"} \subseteq Places /\ actor[a].snap \in Snapshot
   /\ table[actor[a].task] \in Snapshot
  BY DEF Places, ActorSet, ScanTypeOK
<1> DEFINE t == actor[a].task
           wanted == t \in document /\ ~IsTwainDocumentOutputFinal(actor[a].snap)
           wait == actor[a].snap.status = "completed" /\ actor[a].snap.out # "none"
<1>0. actor[a].at = "finalize"
      /\ UNCHANGED <<document, enhanced, prov, table, storage, provMu, present, todo, waitFor,
                     polls>>
  BY DEF FinalizeTwainScanTask, At, closeVars
<1>1. CASE wanted /\ ShouldUseCachedTwainDocumentTask(table[t])
  <2>1. Proceed(a, "store", table[t])
    BY <1>1 DEF FinalizeTwainScanTask, TaskOf, Snap
  <2> QED BY <1>0, <1>1, <2>1, Proceeds
          DEF Alone, SameCall, ShouldUseCachedTwainDocumentTask, IsTwainDocumentOutputFinal,
              IsTwainDocumentConversionInProgress
<1>2. CASE ~(wanted /\ ShouldUseCachedTwainDocumentTask(table[t])) /\ wanted /\ wait
  <2>1. Proceed(a, "publish", actor[a].snap)
    BY <1>2 DEF FinalizeTwainScanTask, TaskOf, Snap
  <2> QED BY <1>0, <1>2, <2>1, Proceeds DEF Alone, SameCall
<1>3. CASE ~(wanted /\ ShouldUseCachedTwainDocumentTask(table[t])) /\ ~(wanted /\ wait)
  <2>1. Proceed(a, "store", actor[a].snap)
    BY <1>3 DEF FinalizeTwainScanTask, TaskOf, Snap
  <2> QED BY <1>0, <1>3, <2>1, Proceeds DEF Alone, SameCall, IsTwainDocumentOutputFinal
<1> QED BY <1>1, <1>2, <1>3

\* The snapshot is published as "converting" and carried on so.
LEMMA PublishDoes ==
  ASSUME ScanTypeOK, ThreadPlace, IoPlace, NEW a \in Actors, PublishConverting(a)
  PROVE  /\ actor[a].task \in Scans
         /\ actor[a].at = "publish" /\ actor'[a].at = "converting" /\ Alone(a) /\ SameCall(a)
         /\ actor'[a].snap \in Snapshot /\ actor'[a].snap.status = "converting"
         /\ actor'[a].snap.out = actor[a].snap.out
         /\ table' = [table EXCEPT ![actor[a].task] = actor'[a].snap]
         /\ UNCHANGED <<document, enhanced, prov, storage, provMu, present, todo, waitFor, polls>>
         /\ actor' \in [Actors -> ActorSet]
<1> actor[a].task \in Scans
  BY TaskKnown DEF PublishConverting, At, Event, Inside
<1> actor \in [Actors -> ActorSet]
  BY DEF ScanTypeOK, ActorSet
<1> DEFINE s == [actor[a].snap EXCEPT !.status = "converting"]
<1>1. /\ s \in Snapshot /\ s.status = "converting" /\ s.out = actor[a].snap.out
      /\ "converting" \in Places
  BY StatusUpdated DEF Places, ActorSet
<1>2. /\ Proceed(a, "converting", s) /\ table' = [table EXCEPT ![actor[a].task] = s]
      /\ actor[a].at = "publish"
      /\ UNCHANGED <<document, enhanced, prov, storage, provMu, present, todo, waitFor, polls>>
  BY DEF PublishConverting, At, TaskOf, Snap, closeVars
<1> HIDE DEF s
<1>3. /\ actor'[a].at = "converting" /\ actor'[a].snap = s /\ Alone(a) /\ SameCall(a)
      /\ actor' \in [Actors -> ActorSet]
  BY <1>1, <1>2, Proceeds DEF Alone, SameCall
<1> QED BY <1>1, <1>2, <1>3

\* The conversion completes the scan with its document, or fails it.
LEMMA ConvertDoes ==
  ASSUME ScanTypeOK, ThreadPlace, IoPlace, NEW a \in Actors, NEW ok \in BOOLEAN, ConvertPages(a,
         ok)
  PROVE  /\ actor[a].task \in Scans
         /\ actor[a].at = "converting" /\ actor'[a].at = "store" /\ Alone(a) /\ SameCall(a)
         /\ \/ actor'[a].snap.status = "completed" /\ actor'[a].snap.out = "final"
            \/ actor'[a].snap.status = "failed"
         /\ UNCHANGED <<document, enhanced, prov, table, storage, provMu, present, todo,
                        waitFor, polls>>
         /\ actor' \in [Actors -> ActorSet]
<1> actor[a].task \in Scans
  BY TaskKnown DEF ConvertPages, At, Event, Inside
<1> actor \in [Actors -> ActorSet]
  BY DEF ScanTypeOK, ActorSet
<1> DEFINE s == actor[a].snap
<1> /\ "store" \in Places /\ s \in Snapshot
  BY DEF Places, ActorSet
<1>1. /\ [s EXCEPT !.status = "completed", !.out = "final"] \in Snapshot
      /\ [s EXCEPT !.status = "completed", !.out = "final"].status = "completed"
      /\ [s EXCEPT !.status = "completed", !.out = "final"].out = "final"
      /\ [s EXCEPT !.status = "failed"] \in Snapshot
      /\ [s EXCEPT !.status = "failed"].status = "failed"
  BY DEF Snapshot
<1>2. actor[a].at = "converting"
      /\ UNCHANGED <<document, enhanced, prov, table, storage, provMu, present, todo, waitFor,
                     polls>>
  BY DEF ConvertPages, At, closeVars
<1>3. PICK new \in Snapshot :
        /\ Proceed(a, "store", new)
        /\ \/ new.status = "completed" /\ new.out = "final"
           \/ new.status = "failed"
  BY <1>1 DEF ConvertPages, Snap
<1> QED BY <1>2, <1>3, Proceeds DEF Alone, SameCall

\* The snapshot is stored, the locks of the event are given back.
LEMMA StoreDoes ==
  ASSUME ScanTypeOK, ThreadPlace, IoPlace, NEW a \in Actors, StoreSnapshot(a)
  PROVE  /\ actor[a].task \in Scans /\ (actor[a].then = "idle" => a = "io")
         /\ actor[a].at = "store" /\ Alone(a)
         /\ table' = [table EXCEPT ![actor[a].task] = actor[a].snap]
         /\ storage' = IF storage = a /\ actor[a].op # "scan" THEN Nobody ELSE storage
         /\ provMu' = IF provMu[Kind(actor[a].task)] = a
                      THEN [provMu EXCEPT ![Kind(actor[a].task)] = Nobody] ELSE provMu
         /\ actor[a].then = "idle" =>
              /\ actor'["io"].at = "idle" /\ actor'["io"].op = "none"
              /\ actor'["io"].task = Nobody /\ actor'["io"].then = "idle"
              /\ actor'["io"].snap = NoTask
         /\ actor[a].then # "idle" =>
              /\ actor'[a].at = actor[a].then /\ actor'[a].then = "idle"
              /\ actor'[a].op = actor[a].op /\ actor'[a].task = actor[a].task
              /\ actor'[a].snap = IF actor[a].then = "keep" THEN prov[actor[a].task] ELSE NoTask
         /\ UNCHANGED <<document, enhanced, prov, present, todo, waitFor, polls>>
         /\ actor' \in [Actors -> ActorSet]
<1> actor[a].task \in Scans /\ (actor[a].then = "idle" => a = "io")
  BY TaskKnown DEF StoreSnapshot, At, Event, Inside
<1> actor \in [Actors -> ActorSet]
  BY DEF ScanTypeOK, ActorSet
<1> DEFINE back == IF actor[a].then = "keep" THEN prov[actor[a].task] ELSE NoTask
<1> /\ actor[a].then \in Places /\ back \in Snapshot /\ "idle" \in Places
  BY DEF ActorSet, ScanTypeOK, NoTask, Snapshot, Places
<1>1. /\ actor[a].at = "store"
      /\ table' = [table EXCEPT ![actor[a].task] = actor[a].snap]
      /\ storage' = IF storage = a /\ actor[a].op # "scan" THEN Nobody ELSE storage
      /\ provMu' = IF provMu[Kind(actor[a].task)] = a
                   THEN [provMu EXCEPT ![Kind(actor[a].task)] = Nobody] ELSE provMu
      /\ UNCHANGED <<document, enhanced, prov, present, todo, waitFor, polls>>
  BY DEF StoreSnapshot, At, TaskOf, Snap, closeVars
<1>2. CASE actor[a].then = "idle"
  <2>1. IoRests
    BY <1>2 DEF StoreSnapshot
  <2> QED BY <1>1, <1>2, <2>1, IoIsIdle DEF Alone
<1>3. CASE actor[a].then # "idle"
  <2>1. Call(a, actor[a].then, back, "idle")
    BY <1>3 DEF StoreSnapshot, TaskOf
  <2> HIDE DEF back
  <2>2. /\ Alone(a) /\ actor'[a].at = actor[a].then /\ actor'[a].then = "idle"
        /\ actor'[a].op = actor[a].op /\ actor'[a].task = actor[a].task
        /\ actor'[a].snap = back /\ actor' \in [Actors -> ActorSet]
    BY <2>1, CallGoes DEF Alone
  <2> QED BY <1>1, <1>3, <2>2 DEF back
<1> QED BY <1>2, <1>3

\* The thread begins.
LEMMA RunsDoes ==
  ASSUME ScanTypeOK, ThreadPlace, IoPlace, NEW t \in Scans, ScanRuns(t)
  PROVE  /\ actor[t].at = "started" /\ provMu[Kind(t)] = Nobody
         /\ prov' = [prov EXCEPT ![t] = actor'[t].snap]
         /\ Alone(t) /\ actor'[t].at = "dispatch" /\ actor'[t].then = "scanning"
         /\ actor'[t].op = actor[t].op /\ actor'[t].task = actor[t].task
         /\ actor'[t].snap \in Snapshot /\ actor'[t].snap.status = "running"
         /\ actor'[t].snap.out = prov[t].out
         /\ UNCHANGED <<document, enhanced, table, storage, provMu, present, todo, waitFor,
                        polls>>
         /\ actor' \in [Actors -> ActorSet]
<1> actor \in [Actors -> ActorSet]
  BY DEF ScanTypeOK, ActorSet
<1> t \in Actors /\ prov[t] \in Snapshot
  BY DEF Actors, ScanTypeOK
<1> {"dispatch", "scanning"} \subseteq Places
  BY DEF Places
<1> DEFINE s == [prov[t] EXCEPT !.status = "running"]
<1>1. /\ s \in Snapshot /\ s.status = "running"
      /\ s.out = prov[t].out
  BY DEF Snapshot
<1>2. Call(t, "dispatch", s, "scanning")
  BY DEF ScanRuns
<1>3. /\ actor[t].at = "started" /\ provMu[Kind(t)] = Nobody
      /\ prov' = [prov EXCEPT ![t] = s]
      /\ UNCHANGED <<document, enhanced, table, storage, provMu, present, todo, waitFor, polls>>
  BY DEF ScanRuns, At, ProviderFree, closeVars
<1>5. /\ Alone(t) /\ actor'[t].at = "dispatch" /\ actor'[t].then = "scanning"
      /\ actor'[t].op = actor[t].op /\ actor'[t].task = actor[t].task
      /\ actor'[t].snap = s /\ actor' \in [Actors -> ActorSet]
  BY <1>1, <1>2, CallGoes DEF Alone
<1> HIDE DEF s
<1>6. actor'[t].snap \in Snapshot /\ actor'[t].snap.status = "running"
      /\ actor'[t].snap.out = prov[t].out
  BY <1>1, <1>5
<1> QED BY <1>3, <1>5, <1>6

\* The thread ends with the scanned pages.
LEMMA CompletesDoes ==
  ASSUME ScanTypeOK, ThreadPlace, IoPlace, NEW t \in Scans, ScanCompletes(t)
  PROVE  /\ actor[t].at = "scanning" /\ provMu[Kind(t)] = Nobody /\ ~prov[t].cancel
         /\ prov' = [prov EXCEPT ![t] = actor'[t].snap]
         /\ Alone(t) /\ actor'[t].at = "dispatch" /\ actor'[t].then = "ended"
         /\ actor'[t].op = actor[t].op /\ actor'[t].task = actor[t].task
         /\ actor'[t].snap \in Snapshot /\ actor'[t].snap.status = "completed"
         /\ actor'[t].snap.out = "pages"
         /\ UNCHANGED <<document, enhanced, table, storage, provMu, present, todo, waitFor,
                        polls>>
         /\ actor' \in [Actors -> ActorSet]
<1> actor \in [Actors -> ActorSet]
  BY DEF ScanTypeOK, ActorSet
<1> t \in Actors /\ prov[t] \in Snapshot
  BY DEF Actors, ScanTypeOK
<1> {"dispatch", "ended"} \subseteq Places
  BY DEF Places
<1> DEFINE s == [prov[t] EXCEPT !.status = "completed", !.out = "pages"]
<1>1. /\ s \in Snapshot /\ s.status = "completed"
      /\ s.out = "pages"
  BY DEF Snapshot
<1>2. Call(t, "dispatch", s, "ended")
  BY DEF ScanCompletes
<1>3. /\ actor[t].at = "scanning" /\ provMu[Kind(t)] = Nobody /\ ~prov[t].cancel
      /\ prov' = [prov EXCEPT ![t] = s]
      /\ UNCHANGED <<document, enhanced, table, storage, provMu, present, todo, waitFor, polls>>
  BY DEF ScanCompletes, At, ProviderFree, closeVars
<1>5. /\ Alone(t) /\ actor'[t].at = "dispatch" /\ actor'[t].then = "ended"
      /\ actor'[t].op = actor[t].op /\ actor'[t].task = actor[t].task
      /\ actor'[t].snap = s /\ actor' \in [Actors -> ActorSet]
  BY <1>1, <1>2, CallGoes DEF Alone
<1> HIDE DEF s
<1>6. actor'[t].snap \in Snapshot /\ actor'[t].snap.status = "completed"
      /\ actor'[t].snap.out = "pages"
  BY <1>1, <1>5
<1> QED BY <1>3, <1>5, <1>6

\* The thread ends at the cancellation, with its mutex held.
LEMMA CancelledDoes ==
  ASSUME ScanTypeOK, ThreadPlace, IoPlace, NEW t \in Scans, ScanCancelled(t)
  PROVE  /\ actor[t].at = "scanning" /\ provMu[Kind(t)] = Nobody /\ prov[t].cancel
         /\ prov' = [prov EXCEPT ![t] = actor'[t].snap]
         /\ Alone(t) /\ actor'[t].at = "dispatch" /\ actor'[t].then = "ended"
         /\ actor'[t].op = actor[t].op /\ actor'[t].task = actor[t].task
         /\ actor'[t].snap \in Snapshot /\ actor'[t].snap.status = "cancelled"
         /\ actor'[t].snap.out = prov[t].out
         /\ provMu' = [provMu EXCEPT ![Kind(t)] = t]
         /\ UNCHANGED <<document, enhanced, table, storage, present, todo, waitFor, polls>>
         /\ actor' \in [Actors -> ActorSet]
<1> actor \in [Actors -> ActorSet]
  BY DEF ScanTypeOK, ActorSet
<1> t \in Actors /\ prov[t] \in Snapshot
  BY DEF Actors, ScanTypeOK
<1> {"dispatch", "ended"} \subseteq Places
  BY DEF Places
<1> DEFINE s == [prov[t] EXCEPT !.status = "cancelled"]
<1>1. /\ s \in Snapshot /\ s.status = "cancelled"
      /\ s.out = prov[t].out
  BY DEF Snapshot
<1>2. Call(t, "dispatch", s, "ended")
  BY DEF ScanCancelled
<1>3. /\ actor[t].at = "scanning" /\ provMu[Kind(t)] = Nobody /\ prov[t].cancel
      /\ prov' = [prov EXCEPT ![t] = s]
      /\ UNCHANGED <<document, enhanced, table, storage, present, todo, waitFor, polls>>
  BY DEF ScanCancelled, At, ProviderFree, closeVars
<1>4. provMu' = [provMu EXCEPT ![Kind(t)] = t]
  BY DEF ScanCancelled
<1>5. /\ Alone(t) /\ actor'[t].at = "dispatch" /\ actor'[t].then = "ended"
      /\ actor'[t].op = actor[t].op /\ actor'[t].task = actor[t].task
      /\ actor'[t].snap = s /\ actor' \in [Actors -> ActorSet]
  BY <1>1, <1>2, CallGoes DEF Alone
<1> HIDE DEF s
<1>6. actor'[t].snap \in Snapshot /\ actor'[t].snap.status = "cancelled"
      /\ actor'[t].snap.out = prov[t].out
  BY <1>1, <1>5
<1> QED BY <1>3, <1>4, <1>5, <1>6

\* A new scan is asked for.
LEMMA RequestDoes ==
  ASSUME ScanTypeOK, ThreadPlace, IoPlace, NEW t \in Scans, ScanRequest(t)
  PROVE  /\ actor["io"].at = "idle" /\ present /\ prov[t] = NoTask
         /\ document' \in {document, document \cup {t}}
         /\ enhanced' \in {enhanced, enhanced \cup ({t} \cap SaneTasks)}
         /\ Alone("io") /\ actor'["io"].at = "lock" /\ actor'["io"].then = "idle"
         /\ actor'["io"].op = "scan" /\ actor'["io"].task = t
         /\ actor'["io"].snap = NoTask
         /\ UNCHANGED <<prov, table, storage, provMu, present, todo, waitFor, polls>>
         /\ actor' \in [Actors -> ActorSet]
<1> actor \in [Actors -> ActorSet]
  BY DEF ScanTypeOK, ActorSet
<1> "io" \in Actors
  BY DEF Actors
<1> {"lock"} \subseteq Places
  BY DEF Places
<1>1. Accept("scan", t, "lock")
  BY DEF ScanRequest
<1>2. /\ actor["io"].at = "idle" /\ present /\ prov[t] = NoTask
      /\ document' \in {document, document \cup {t}}
      /\ enhanced' \in {enhanced, enhanced \cup ({t} \cap SaneTasks)}
      /\ UNCHANGED <<prov, table, storage, provMu, present, todo, waitFor, polls>>
  BY DEF ScanRequest, At, IoIdle, TaskOf, closeVars
<1> QED BY <1>1, <1>2, IoGoesOn DEF Alone

\* A cancellation is asked for.
LEMMA CancelDoes ==
  ASSUME ScanTypeOK, ThreadPlace, IoPlace, NEW t \in Scans, ScanCancel(t)
  PROVE  /\ actor["io"].at = "idle" /\ prov[t] # NoTask
         /\ Alone("io") /\ actor'["io"].at = "cancel" /\ actor'["io"].then = "idle"
         /\ actor'["io"].op = "cancel" /\ actor'["io"].task = t
         /\ actor'["io"].snap = NoTask
         /\ UNCHANGED <<document, enhanced, prov, table, storage, provMu, present, todo,
                        waitFor, polls>>
         /\ actor' \in [Actors -> ActorSet]
<1> actor \in [Actors -> ActorSet]
  BY DEF ScanTypeOK, ActorSet
<1> "io" \in Actors
  BY DEF Actors
<1> {"cancel"} \subseteq Places
  BY DEF Places
<1>1. Accept("cancel", t, "cancel")
  BY DEF ScanCancel
<1>2. /\ actor["io"].at = "idle" /\ prov[t] # NoTask
      /\ UNCHANGED <<document, enhanced, prov, table, storage, provMu, present, todo, waitFor,
                     polls>>
  BY DEF ScanCancel, At, IoIdle, TaskOf, closeVars
<1> QED BY <1>1, <1>2, IoGoesOn DEF Alone

\* The connection closes.
LEMMA CloseDoes ==
  ASSUME ScanTypeOK, ThreadPlace, IoPlace, CloseConnection
  PROVE  /\ actor["io"].at = "idle" /\ present /\ ~present' /\ present' \in BOOLEAN
         /\ todo' = Unfinished /\ waitFor' = Unfinished /\ polls' = 0
         /\ Alone("io") /\ actor'["io"].at = "cancelNext" /\ actor'["io"].then = "idle"
         /\ actor'["io"].op = "close" /\ actor'["io"].task = Nobody
         /\ actor'["io"].snap = NoTask
         /\ UNCHANGED <<document, enhanced, prov, table, storage, provMu>>
         /\ actor' \in [Actors -> ActorSet]
<1> actor \in [Actors -> ActorSet]
  BY DEF ScanTypeOK, ActorSet
<1> "io" \in Actors
  BY DEF Actors
<1> {"cancelNext"} \subseteq Places
  BY DEF Places
<1>1. Accept("close", Nobody, "cancelNext")
  BY DEF CloseConnection
<1>2. /\ actor["io"].at = "idle" /\ present /\ ~present' /\ present' \in BOOLEAN
      /\ todo' = Unfinished /\ waitFor' = Unfinished /\ polls' = 0
      /\ UNCHANGED <<document, enhanced, prov, table, storage, provMu>>
  BY DEF CloseConnection, At, IoIdle, TaskOf, closeVars
<1> QED BY <1>1, <1>2, IoGoesOn DEF Alone

\* The close turns to its next scan.
LEMMA NextDoes ==
  ASSUME ScanTypeOK, ThreadPlace, IoPlace, NEW t \in Scans, CancelNext(t)
  PROVE  /\ actor["io"].at = "cancelNext" /\ t \in todo /\ todo' = todo \ {t}
         /\ Alone("io") /\ actor'["io"].at = "cancel" /\ actor'["io"].then = "idle"
         /\ actor'["io"].op = "close" /\ actor'["io"].task = t
         /\ actor'["io"].snap = NoTask
         /\ UNCHANGED <<document, enhanced, prov, table, storage, provMu, present, waitFor,
                        polls>>
         /\ actor' \in [Actors -> ActorSet]
<1> actor \in [Actors -> ActorSet]
  BY DEF ScanTypeOK, ActorSet
<1> "io" \in Actors
  BY DEF Actors
<1> {"cancel"} \subseteq Places
  BY DEF Places
<1>1. Accept("close", t, "cancel")
  BY DEF CancelNext
<1>2. /\ actor["io"].at = "cancelNext" /\ t \in todo /\ todo' = todo \ {t}
      /\ UNCHANGED <<document, enhanced, prov, table, storage, provMu, present, waitFor, polls>>
  BY DEF CancelNext, At, IoIdle, TaskOf, closeVars
<1> QED BY <1>1, <1>2, IoGoesOn DEF Alone

\* twain.scan_get takes the cached snapshot or asks the provider.
LEMMA GetDoes ==
  ASSUME ScanTypeOK, ThreadPlace, IoPlace, NEW t \in Scans, TwainScanGet(t)
  PROVE  /\ actor["io"].at = "idle" /\ t \in TwainTasks /\ prov[t] # NoTask
         /\ Alone("io") /\ actor'["io"].op = "get" /\ actor'["io"].task = t
         /\ actor'["io"].then = "idle"
         /\ \/ /\ IsTwainTaskTerminal(table[t])
               /\ actor'["io"].at = "finalize" /\ actor'["io"].snap = table[t]
            \/ /\ ~IsTwainTaskTerminal(table[t])
               /\ actor'["io"].at = "get" /\ actor'["io"].snap = NoTask
         /\ UNCHANGED <<document, enhanced, prov, table, storage, provMu, present, todo,
                        waitFor, polls>>
         /\ actor' \in [Actors -> ActorSet]
<1> actor \in [Actors -> ActorSet]
  BY DEF ScanTypeOK, ActorSet
<1> "io" \in Actors
  BY DEF Actors
<1> {"get", "finalize", "idle"} \subseteq Places
  BY DEF Places
<1>1. actor["io"].at = "idle" /\ t \in TwainTasks /\ prov[t] # NoTask
      /\ UNCHANGED <<document, enhanced, prov, table, storage, provMu, present, todo, waitFor,
                     polls>>
  BY DEF TwainScanGet, IoIdle, At, closeVars
<1>2. CASE IsTwainTaskTerminal(table[t])
  <2> DEFINE new == [op |-> "get", task |-> t, at |-> "finalize", then |-> "idle",
                     snap |-> table[t]]
  <2>1. actor' = [actor EXCEPT !["io"] = new]
    BY <1>2 DEF TwainScanGet
  <2>2. new \in ActorSet
    BY DEF ActorSet, ScanTypeOK
  <2>3. actor'["io"] = new /\ Alone("io") /\ actor' \in [Actors -> ActorSet]
    BY <2>1, <2>2 DEF Alone
  <2> QED BY <1>1, <1>2, <2>3
<1>3. CASE ~IsTwainTaskTerminal(table[t])
  <2>1. Accept("get", t, "get")
    BY <1>3 DEF TwainScanGet
  <2> QED BY <1>1, <1>3, <2>1, IoGoesOn DEF Alone
<1> QED BY <1>2, <1>3

\* The close looks at one of its scans.
LEMMA PollDoes ==
  ASSUME ScanTypeOK, ThreadPlace, IoPlace, NEW t \in Scans, PollNext(t)
  PROVE  /\ actor["io"].at = "pollNext" /\ t \in todo /\ provMu[Kind(t)] = Nobody
         /\ todo' = todo \ {t}
         /\ Alone("io") /\ actor'["io"].at = "store" /\ actor'["io"].then = "pollNext"
         /\ actor'["io"].op = "close" /\ actor'["io"].task = t
         /\ actor'["io"].snap = prov[t]
         /\ UNCHANGED <<document, enhanced, prov, table, storage, provMu, present, waitFor,
                        polls>>
         /\ actor' \in [Actors -> ActorSet]
<1> actor \in [Actors -> ActorSet]
  BY DEF ScanTypeOK, ActorSet
<1> "io" \in Actors
  BY DEF Actors
<1> {"store", "pollNext"} \subseteq Places
  BY DEF Places
<1> DEFINE new == [op |-> "close", task |-> t, at |-> "store", then |-> "pollNext",
                   snap |-> prov[t]]
<1>1. actor' = [actor EXCEPT !["io"] = new]
  BY DEF PollNext
<1>2. new \in ActorSet
  BY DEF ActorSet, ScanTypeOK
<1>3. actor'["io"] = new /\ Alone("io") /\ actor' \in [Actors -> ActorSet]
  BY <1>1, <1>2 DEF Alone
<1> QED BY <1>3 DEF PollNext, At, ProviderFree

\* The lifecycle lock is taken for a new scan.
LEMMA LockDoes ==
  ASSUME ScanTypeOK, ThreadPlace, IoPlace, LockStorage
  PROVE  /\ actor["io"].task \in Scans
         /\ actor["io"].at = "lock" /\ storage = Nobody /\ storage' = "io"
         /\ Alone("io") /\ actor'["io"].at = "insert" /\ actor'["io"].then = actor["io"].then
         /\ actor'["io"].op = actor["io"].op /\ actor'["io"].task = actor["io"].task
         /\ actor'["io"].snap = NoTask
         /\ UNCHANGED <<document, enhanced, prov, table, provMu, present, todo, waitFor, polls>>
         /\ actor' \in [Actors -> ActorSet]
<1> actor["io"].task \in Scans
  BY TaskKnown DEF LockStorage, At, Event, Inside, Actors
<1> actor \in [Actors -> ActorSet]
  BY DEF ScanTypeOK, ActorSet
<1> "io" \in Actors
  BY DEF Actors
<1> {"insert"} \subseteq Places
  BY DEF Places
<1>0. NoTask \in Snapshot
  BY DEF ScanTypeOK, NoTask, Queued, Snapshot
<1>1. Proceed("io", "insert", NoTask)
  BY DEF LockStorage, TaskOf
<1>2. /\ actor["io"].at = "lock" /\ storage = Nobody /\ storage' = "io"
      /\ UNCHANGED <<document, enhanced, prov, table, provMu, present, todo, waitFor, polls>>
  BY DEF LockStorage, At, TaskOf, ProviderFree, closeVars
<1> QED BY <1>0, <1>1, <1>2, Proceeds DEF Alone

\* The provider records the scan and sends the first event.
LEMMA InsertDoes ==
  ASSUME ScanTypeOK, ThreadPlace, IoPlace, ProviderScan
  PROVE  /\ actor["io"].task \in Scans
         /\ actor["io"].at = "insert"
         /\ Alone("io") /\ actor'["io"].at = "dispatch" /\ actor'["io"].then = "reply"
         /\ actor'["io"].op = actor["io"].op /\ actor'["io"].task = actor["io"].task
         /\ actor'["io"].snap = Queued
         /\ prov' = [prov EXCEPT ![actor["io"].task] = Queued]
         /\ UNCHANGED <<document, enhanced, table, storage, provMu, present, todo, waitFor,
                        polls>>
         /\ actor' \in [Actors -> ActorSet]
<1> actor["io"].task \in Scans
  BY TaskKnown DEF ProviderScan, At, Event, Inside, Actors
<1> actor \in [Actors -> ActorSet]
  BY DEF ScanTypeOK, ActorSet
<1> "io" \in Actors
  BY DEF Actors
<1> {"dispatch", "reply"} \subseteq Places
  BY DEF Places
<1>0. Queued \in Snapshot
  BY DEF ScanTypeOK, NoTask, Queued, Snapshot
<1>1. Call("io", "dispatch", Queued, "reply")
  BY DEF ProviderScan, TaskOf
<1>2. /\ actor["io"].at = "insert"
      /\ prov' = [prov EXCEPT ![actor["io"].task] = Queued]
      /\ UNCHANGED <<document, enhanced, table, storage, provMu, present, todo, waitFor, polls>>
  BY DEF ProviderScan, At, TaskOf, ProviderFree, closeVars
<1> QED BY <1>0, <1>1, <1>2, CallGoes DEF Alone

\* The provider answers twain.scan_get.
LEMMA GetScanDoes ==
  ASSUME ScanTypeOK, ThreadPlace, IoPlace, ProviderGetScan
  PROVE  /\ actor["io"].task \in Scans
         /\ actor["io"].at = "get" /\ provMu[Kind(actor["io"].task)] = Nobody
         /\ Alone("io") /\ actor'["io"].at = "finalize" /\ actor'["io"].then = "idle"
         /\ actor'["io"].op = actor["io"].op /\ actor'["io"].task = actor["io"].task
         /\ actor'["io"].snap = prov[actor["io"].task]
         /\ UNCHANGED <<document, enhanced, prov, table, storage, provMu, present, todo,
                        waitFor, polls>>
         /\ actor' \in [Actors -> ActorSet]
<1> actor["io"].task \in Scans
  BY TaskKnown DEF ProviderGetScan, At, Event, Inside, Actors
<1> actor \in [Actors -> ActorSet]
  BY DEF ScanTypeOK, ActorSet
<1> "io" \in Actors
  BY DEF Actors
<1> {"finalize", "idle"} \subseteq Places
  BY DEF Places
<1>0. prov[actor["io"].task] \in Snapshot
  BY DEF ScanTypeOK, NoTask, Queued, Snapshot
<1>1. Call("io", "finalize", prov[actor["io"].task], "idle")
  BY DEF ProviderGetScan, TaskOf
<1>2. /\ actor["io"].at = "get" /\ provMu[Kind(actor["io"].task)] = Nobody
      /\ UNCHANGED <<document, enhanced, prov, table, storage, provMu, present, todo, waitFor,
                     polls>>
  BY DEF ProviderGetScan, At, TaskOf, ProviderFree, closeVars
<1> QED BY <1>0, <1>1, <1>2, CallGoes DEF Alone

\* What CancelScan returned is stored.
LEMMA KeepDoes ==
  ASSUME ScanTypeOK, ThreadPlace, IoPlace, KeepCancelResult
  PROVE  /\ actor["io"].task \in Scans
         /\ actor["io"].at = "keep"
         /\ table' = [table EXCEPT ![actor["io"].task] = actor["io"].snap]
         /\ Alone("io") /\ actor'["io"].at = "cancelNext" /\ actor'["io"].then = actor["io"].then
         /\ actor'["io"].op = actor["io"].op /\ actor'["io"].task = actor["io"].task
         /\ actor'["io"].snap = NoTask
         /\ UNCHANGED <<document, enhanced, prov, storage, provMu, present, todo, waitFor, polls>>
         /\ actor' \in [Actors -> ActorSet]
<1> actor["io"].task \in Scans
  BY TaskKnown DEF KeepCancelResult, At, Event, Inside, Actors
<1> actor \in [Actors -> ActorSet]
  BY DEF ScanTypeOK, ActorSet
<1> "io" \in Actors
  BY DEF Actors
<1> {"cancelNext"} \subseteq Places
  BY DEF Places
<1>0. NoTask \in Snapshot
  BY DEF ScanTypeOK, NoTask, Queued, Snapshot
<1>1. Proceed("io", "cancelNext", NoTask)
  BY DEF KeepCancelResult, TaskOf
<1>2. /\ actor["io"].at = "keep"
      /\ table' = [table EXCEPT ![actor["io"].task] = actor["io"].snap]
      /\ UNCHANGED <<document, enhanced, prov, storage, provMu, present, todo, waitFor, polls>>
  BY DEF KeepCancelResult, At, TaskOf, Snap, ProviderFree, closeVars
<1> QED BY <1>0, <1>1, <1>2, Proceeds DEF Alone

\* The thread is started, the snapshot stored, the lock given back.
LEMMA ReplyDoes ==
  ASSUME ScanTypeOK, ThreadPlace, IoPlace, ScanReply
  PROVE  /\ actor["io"].task \in Scans
         /\ actor["io"].at = "reply"
         /\ storage' = Nobody /\ table' = [table EXCEPT ![actor["io"].task] = Queued]
         /\ LET t == actor["io"].task IN
            /\ \A b \in Actors \ {"io", t} : actor'[b] = actor[b]
            /\ actor'[t].op = "thread" /\ actor'[t].at = "started"
            /\ actor'[t].task = actor[t].task
            /\ actor'[t].then = actor[t].then /\ actor'[t].snap = actor[t].snap
         /\ actor'["io"].at = "idle" /\ actor'["io"].then = "idle" /\ actor'["io"].op = "none"
         /\ actor'["io"].task = Nobody /\ actor'["io"].snap = NoTask
         /\ UNCHANGED <<document, enhanced, prov, provMu, present, todo, waitFor, polls>>
         /\ actor' \in [Actors -> ActorSet]
<1> actor["io"].task \in Scans
  BY TaskKnown DEF ScanReply, At, Event, Inside, Actors
<1> actor \in [Actors -> ActorSet]
  BY DEF ScanTypeOK, ActorSet
<1> "io" \in Actors
  BY DEF Actors
<1> {"started", "idle"} \subseteq Places
  BY DEF Places
<1> DEFINE t == actor["io"].task
<1> t \in Actors /\ t # "io"
  BY ScanAssumption DEF Actors, Scans
<1> DEFINE new == [actor[t] EXCEPT !.op = "thread", !.at = "started"]
<1>1. actor' = [actor EXCEPT ![t] = new, !["io"] = Idle(Nobody)]
  BY DEF ScanReply, TaskOf
<1>2. /\ new \in ActorSet /\ new.op = "thread" /\ new.at = "started" /\ new.task = actor[t].task
      /\ new.then = actor[t].then /\ new.snap = actor[t].snap
  <2>1. actor[t] \in ActorSet
    OBVIOUS
  <2>2. \A x \in ActorSet :
          LET y == [x EXCEPT !.op = "thread", !.at = "started"] IN
          /\ y \in ActorSet /\ y.op = "thread" /\ y.at = "started" /\ y.task = x.task
          /\ y.then = x.then /\ y.snap = x.snap
    BY DEF ActorSet
  <2> QED BY <2>1, <2>2
<1>3. Idle(Nobody) \in ActorSet
  <2> NoTask \in Snapshot
    BY DEF NoTask, Snapshot
  <2> QED BY DEF ActorSet, Idle, Places
<1> HIDE DEF new
<1>4. /\ actor'[t] = new /\ actor'["io"] = Idle(Nobody) /\ actor' \in [Actors -> ActorSet]
      /\ \A b \in Actors \ {"io", t} : actor'[b] = actor[b]
  BY <1>1, <1>2, <1>3
<1>5. /\ actor["io"].at = "reply" /\ storage' = Nobody /\ table' = [table EXCEPT ![t] = Queued]
      /\ UNCHANGED <<document, enhanced, prov, provMu, present, todo, waitFor, polls>>
  BY DEF ScanReply, At, TaskOf, AfterReply, closeVars
<1> QED BY <1>2, <1>4, <1>5 DEF Idle

\* The cancellation is recorded and its event sent, with the mutex held.
LEMMA CancelScanDoes ==
  ASSUME ScanTypeOK, ThreadPlace, IoPlace, CancelScan
  PROVE  /\ actor["io"].task \in Scans
         /\ actor["io"].at = "cancel" /\ provMu[Kind(actor["io"].task)] = Nobody
         /\ provMu' = [provMu EXCEPT ![Kind(actor["io"].task)] = "io"]
         /\ prov' = [prov EXCEPT ![actor["io"].task] = actor'["io"].snap]
         /\ Alone("io") /\ actor'["io"].at = "dispatch"
         /\ actor'["io"].then = IF actor["io"].op = "close" THEN "keep" ELSE "mark"
         /\ actor'["io"].op = actor["io"].op /\ actor'["io"].task = actor["io"].task
         /\ actor'["io"].snap \in Snapshot
         /\ actor'["io"].snap.status = prov[actor["io"].task].status
         /\ actor'["io"].snap.out = prov[actor["io"].task].out
         /\ UNCHANGED <<document, enhanced, table, storage, present, todo, waitFor, polls>>
         /\ actor' \in [Actors -> ActorSet]
<1> actor["io"].task \in Scans
  BY TaskKnown DEF CancelScan, At, Event, Inside, Actors
<1> actor \in [Actors -> ActorSet]
  BY DEF ScanTypeOK, ActorSet
<1> "io" \in Actors
  BY DEF Actors
<1> {"dispatch", "keep", "mark"} \subseteq Places
  BY DEF Places
<1> DEFINE t == actor["io"].task
           then == IF actor["io"].op = "close" THEN "keep" ELSE "mark"
<1> DEFINE s == [prov[t] EXCEPT !.cancel = TRUE]
<1>0. /\ s \in Snapshot /\ s.status = prov[t].status /\ s.out = prov[t].out
      /\ s.cancel = TRUE
  <2> prov[t] \in Snapshot
    BY DEF ScanTypeOK
  <2> QED BY CancelUpdated
<1>1. Call("io", "dispatch", s, then)
  BY DEF CancelScan, TaskOf
<1>2. /\ actor["io"].at = "cancel" /\ provMu[Kind(t)] = Nobody
      /\ provMu' = [provMu EXCEPT ![Kind(t)] = "io"]
      /\ prov' = [prov EXCEPT ![t] = s]
      /\ UNCHANGED <<document, enhanced, table, storage, present, todo, waitFor, polls>>
  BY DEF CancelScan, At, TaskOf, ProviderFree, closeVars
<1> HIDE DEF s
<1>3. /\ Alone("io") /\ actor'["io"].at = "dispatch" /\ actor'["io"].then = then
      /\ actor'["io"].op = actor["io"].op /\ actor'["io"].task = t
      /\ actor'["io"].snap = s /\ actor' \in [Actors -> ActorSet]
  BY <1>0, <1>1, CallGoes DEF Alone
<1> QED BY <1>0, <1>2, <1>3

\* The service notes the cancellation.
LEMMA MarkDoes ==
  ASSUME ScanTypeOK, ThreadPlace, IoPlace, MarkCancelled
  PROVE  /\ actor["io"].task \in Scans
         /\ actor["io"].at = "mark"
         /\ LET t == actor["io"].task IN
            \E s \in Snapshot :
              /\ table' = [table EXCEPT ![t] = s]
              /\ s.out = table[t].out
              /\ s.status = IF t \in SaneTasks THEN "cancelled" ELSE table[t].status
         /\ Alone("io") /\ actor'["io"].at = "idle" /\ actor'["io"].then = "idle"
         /\ actor'["io"].op = "none" /\ actor'["io"].task = Nobody
         /\ actor'["io"].snap = NoTask
         /\ UNCHANGED <<document, enhanced, prov, storage, provMu, present, todo, waitFor, polls>>
         /\ actor' \in [Actors -> ActorSet]
<1> actor["io"].task \in Scans
  BY TaskKnown DEF MarkCancelled, At, Event, Inside, Actors
<1> actor \in [Actors -> ActorSet]
  BY DEF ScanTypeOK, ActorSet
<1> DEFINE t == actor["io"].task
           s == Marked(t)
<1>1. /\ s \in Snapshot /\ s.out = table[t].out
      /\ s.status = IF t \in SaneTasks THEN "cancelled" ELSE table[t].status
  <2> table[t] \in Snapshot
    BY DEF ScanTypeOK
  <2>1. CASE t \in SaneTasks
    <3>1. s = [table[t] EXCEPT !.status = "cancelled"]
      BY <2>1 DEF Marked
    <3>2. /\ [table[t] EXCEPT !.status = "cancelled"] \in Snapshot
          /\ [table[t] EXCEPT !.status = "cancelled"].status = "cancelled"
          /\ [table[t] EXCEPT !.status = "cancelled"].out = table[t].out
      BY StatusUpdated
    <3> HIDE DEF s
    <3> QED BY <2>1, <3>1, <3>2
  <2>2. CASE t \notin SaneTasks
    <3>1. s = [table[t] EXCEPT !.cancel = TRUE]
      BY <2>2 DEF Marked
    <3> HIDE DEF s
    <3> QED BY <2>2, <3>1, CancelUpdated
  <2> QED BY <2>1, <2>2
<1>2. /\ IoRests /\ table' = [table EXCEPT ![t] = s] /\ actor["io"].at = "mark"
      /\ UNCHANGED <<document, enhanced, prov, storage, provMu, present, todo, waitFor, polls>>
  BY DEF MarkCancelled, At, TaskOf, closeVars
<1> HIDE DEF s
<1> QED BY <1>1, <1>2, IoIsIdle DEF Alone

\* The close is done, or begins another round.
LEMMA WaitDoes ==
  ASSUME ScanTypeOK, ThreadPlace, IoPlace, WaitForEnd
  PROVE  /\ actor["io"].at \in {"cancelNext", "pollNext"} /\ todo = {}
         /\ Alone("io") /\ actor'["io"].then = "idle" /\ actor'["io"].task = Nobody
         /\ actor'["io"].snap = NoTask
         /\ \/ /\ actor'["io"].at = "idle" /\ actor'["io"].op = "none"
               /\ waitFor' = {} /\ polls' = 0 /\ todo' = todo
            \/ /\ actor'["io"].at = "pollNext" /\ actor'["io"].op = "close"
               /\ polls # MaxPolls /\ todo' = waitFor /\ polls' = polls + 1 /\ waitFor' = waitFor
         /\ UNCHANGED <<document, enhanced, prov, table, storage, provMu, present>>
         /\ actor' \in [Actors -> ActorSet]
<1> actor \in [Actors -> ActorSet]
  BY DEF ScanTypeOK, ActorSet
<1> "io" \in Actors
  BY DEF Actors
<1> {"pollNext"} \subseteq Places
  BY DEF Places
<1>1. CASE PollsUsedUp \/ \A t \in waitFor : IsTwainTaskTerminal(table[t])
  <2>1. IoRests
    BY <1>1 DEF WaitForEnd
  <2> QED BY <1>1, <2>1, IoIsIdle DEF WaitForEnd, At, Alone
<1>2. CASE ~(PollsUsedUp \/ \A t \in waitFor : IsTwainTaskTerminal(table[t]))
  <2>1. Accept("close", Nobody, "pollNext")
    BY <1>2 DEF WaitForEnd
  <2> QED BY <1>2, <2>1, IoGoesOn DEF WaitForEnd, At, Alone, PollsUsedUp
<1> QED BY <1>1, <1>2

-----------------------------------------------------------------------------
(* Each conjunct of the invariant is kept by every step.                   *)

\* The types are kept.
LEMMA TypeKept ==
  ASSUME ScanTypeOK, ThreadPlace, IoPlace, [ScanNext]_scanVars
  PROVE  ScanTypeOK'
<1> actor \in [Actors -> ActorSet]
  BY DEF ScanTypeOK
<1> /\ \A a \in Actors : actor[a].snap \in Snapshot
   /\ NoTask \in Snapshot /\ Queued \in Snapshot
   /\ "io" \in Actors /\ Scans \subseteq Actors
  BY DEF ActorSet, NoTask, Queued, Snapshot, Actors
<1> USE DEF ScanTypeOK, Alone, SameCall
<1>1. ASSUME NEW a \in Actors, EnterDispatch(a) PROVE ScanTypeOK'
  BY <1>1, EnterDoes
<1>2. ASSUME NEW a \in Actors, HandlePages(a) PROVE ScanTypeOK'
  BY <1>2, PagesDoes
<1>3. ASSUME NEW a \in Actors, NEW ok \in BOOLEAN, Enhance(a, ok) PROVE ScanTypeOK'
  BY <1>3, EnhanceDoes
<1>4. ASSUME NEW a \in Actors, FinalizeTwainScanTask(a) PROVE ScanTypeOK'
  BY <1>4, FinalizeDoes
<1>5. ASSUME NEW a \in Actors, PublishConverting(a) PROVE ScanTypeOK'
  BY <1>5, PublishDoes
<1>6. ASSUME NEW a \in Actors, NEW ok \in BOOLEAN, ConvertPages(a, ok) PROVE ScanTypeOK'
  BY <1>6, ConvertDoes
<1>7. ASSUME NEW a \in Actors, StoreSnapshot(a) PROVE ScanTypeOK'
  BY <1>7, StoreDoes
<1>8. ASSUME NEW t \in Scans, ScanRuns(t) PROVE ScanTypeOK'
  BY <1>8, RunsDoes
<1>9. ASSUME NEW t \in Scans, ScanCompletes(t) PROVE ScanTypeOK'
  BY <1>9, CompletesDoes
<1>10. ASSUME NEW t \in Scans, ScanCancelled(t) PROVE ScanTypeOK'
  BY <1>10, CancelledDoes
<1>11. ASSUME NEW t \in Scans, ScanRequest(t) PROVE ScanTypeOK'
  BY <1>11, RequestDoes
<1>12. ASSUME NEW t \in Scans, TwainScanGet(t) PROVE ScanTypeOK'
  BY <1>12, GetDoes
<1>13. ASSUME NEW t \in Scans, ScanCancel(t) PROVE ScanTypeOK'
  BY <1>13, CancelDoes
<1>14. CASE CloseConnection
  BY <1>14, CloseDoes, ScanAssumption DEF ScanTypeOK, Unfinished, Alone
<1>15. CASE LockStorage
  BY <1>15, LockDoes
<1>16. CASE ProviderScan
  BY <1>16, InsertDoes
<1>17. CASE ScanReply
  BY <1>17, ReplyDoes
<1>18. CASE ProviderGetScan
  BY <1>18, GetScanDoes
<1>19. CASE CancelScan
  BY <1>19, CancelScanDoes
<1>20. CASE MarkCancelled
  BY <1>20, MarkDoes
<1>21. CASE KeepCancelResult
  BY <1>21, KeepDoes
<1>22. CASE WaitForEnd
  BY <1>22, WaitDoes, ScanAssumption
<1>23. ASSUME NEW t \in Scans, CancelNext(t) PROVE ScanTypeOK'
  BY <1>23, NextDoes
<1>24. ASSUME NEW t \in Scans, PollNext(t) PROVE ScanTypeOK'
  BY <1>24, PollDoes
<1>25. CASE UNCHANGED scanVars
  BY <1>25 DEF scanVars, closeVars
<1> HIDE DEF ScanTypeOK, Alone, SameCall
<1>26. ASSUME NEW a \in Actors, DispatchStep(a) PROVE ScanTypeOK'
  BY <1>26, <1>1, <1>2, <1>3, <1>4, <1>5, <1>6, <1>7 DEF DispatchStep
<1>27. CASE Request
  BY <1>27, <1>11, <1>12, <1>13, <1>14 DEF Request
<1>28. CASE IoStep
  BY <1>28, <1>15, <1>16, <1>17, <1>18, <1>19, <1>20, <1>21, <1>22, <1>23, <1>24, <1>26
     DEF IoStep
<1>29. ASSUME NEW t \in Scans, ThreadStep(t) PROVE ScanTypeOK'
  BY <1>29, <1>8, <1>9, <1>10, <1>26 DEF ThreadStep
<1> QED BY <1>25, <1>27, <1>28, <1>29 DEF ScanNext

\* Every step leaves the scan threads where they can be.
LEMMA ThreadsInPlace ==
  ASSUME ScanTypeOK, ThreadPlace, IoPlace, [ScanNext]_scanVars
  PROVE  ThreadPlace'
<1> /\ "io" \in Actors /\ Scans \subseteq Actors /\ "io" \notin Scans /\ Nobody \notin Scans
   /\ Nobody # "io" /\ Actors = Scans \cup {"io"}
  BY ScanAssumption DEF Actors, Scans, Nobody
<1> USE DEF ThreadPlace, Alone, SameCall, Event, Inside
<1>1. ASSUME NEW a \in Actors, EnterDispatch(a) PROVE ThreadPlace'
  BY <1>1, EnterDoes
<1>2. ASSUME NEW a \in Actors, HandlePages(a) PROVE ThreadPlace'
  BY <1>2, PagesDoes
<1>3. ASSUME NEW a \in Actors, NEW ok \in BOOLEAN, Enhance(a, ok) PROVE ThreadPlace'
  BY <1>3, EnhanceDoes
<1>4. ASSUME NEW a \in Actors, FinalizeTwainScanTask(a) PROVE ThreadPlace'
  BY <1>4, FinalizeDoes
<1>5. ASSUME NEW a \in Actors, PublishConverting(a) PROVE ThreadPlace'
  BY <1>5, PublishDoes
<1>6. ASSUME NEW a \in Actors, NEW ok \in BOOLEAN, ConvertPages(a, ok) PROVE ThreadPlace'
  BY <1>6, ConvertDoes
<1>7. ASSUME NEW a \in Actors, StoreSnapshot(a) PROVE ThreadPlace'
  BY <1>7, StoreDoes
<1>8. ASSUME NEW t \in Scans, ScanRuns(t) PROVE ThreadPlace'
  BY <1>8, RunsDoes
<1>9. ASSUME NEW t \in Scans, ScanCompletes(t) PROVE ThreadPlace'
  BY <1>9, CompletesDoes
<1>10. ASSUME NEW t \in Scans, ScanCancelled(t) PROVE ThreadPlace'
  BY <1>10, CancelledDoes
<1>11. ASSUME NEW t \in Scans, ScanRequest(t) PROVE ThreadPlace'
  BY <1>11, RequestDoes
<1>12. ASSUME NEW t \in Scans, TwainScanGet(t) PROVE ThreadPlace'
  BY <1>12, GetDoes
<1>13. ASSUME NEW t \in Scans, ScanCancel(t) PROVE ThreadPlace'
  BY <1>13, CancelDoes
<1>14. CASE CloseConnection
  BY <1>14, CloseDoes
<1>15. CASE LockStorage
  BY <1>15, LockDoes
<1>16. CASE ProviderScan
  BY <1>16, InsertDoes
<1>17. CASE ScanReply
  BY <1>17, ReplyDoes
<1>18. CASE ProviderGetScan
  BY <1>18, GetScanDoes
<1>19. CASE CancelScan
  BY <1>19, CancelScanDoes
<1>20. CASE MarkCancelled
  BY <1>20, MarkDoes
<1>21. CASE KeepCancelResult
  BY <1>21, KeepDoes
<1>22. CASE WaitForEnd
  BY <1>22, WaitDoes
<1>23. ASSUME NEW t \in Scans, CancelNext(t) PROVE ThreadPlace'
  BY <1>23, NextDoes
<1>24. ASSUME NEW t \in Scans, PollNext(t) PROVE ThreadPlace'
  BY <1>24, PollDoes
<1>25. CASE UNCHANGED scanVars
  BY <1>25 DEF scanVars, closeVars
<1> HIDE DEF ThreadPlace, Alone, SameCall, Event, Inside
<1>26. ASSUME NEW a \in Actors, DispatchStep(a) PROVE ThreadPlace'
  BY <1>26, <1>1, <1>2, <1>3, <1>4, <1>5, <1>6, <1>7 DEF DispatchStep
<1>27. CASE Request
  BY <1>27, <1>11, <1>12, <1>13, <1>14 DEF Request
<1>28. CASE IoStep
  BY <1>28, <1>15, <1>16, <1>17, <1>18, <1>19, <1>20, <1>21, <1>22, <1>23, <1>24, <1>26
     DEF IoStep
<1>29. ASSUME NEW t \in Scans, ThreadStep(t) PROVE ThreadPlace'
  BY <1>29, <1>8, <1>9, <1>10, <1>26 DEF ThreadStep
<1> QED BY <1>25, <1>27, <1>28, <1>29 DEF ScanNext

\* Every step leaves the io thread where its command can take it.
LEMMA IoInPlace ==
  ASSUME ScanTypeOK, ThreadPlace, IoPlace, [ScanNext]_scanVars
  PROVE  IoPlace'
<1> /\ "io" \in Actors /\ Scans \subseteq Actors /\ "io" \notin Scans /\ Nobody \notin Scans
   /\ Nobody # "io" /\ Actors = Scans \cup {"io"}
  BY ScanAssumption DEF Actors, Scans, Nobody
<1> todo \subseteq TwainTasks
  BY DEF ScanTypeOK
<1> USE DEF IoPlace, Cancelling, Alone, SameCall, Event, Inside
<1>1. ASSUME NEW a \in Actors, EnterDispatch(a) PROVE IoPlace'
  BY <1>1, EnterDoes
<1>2. ASSUME NEW a \in Actors, HandlePages(a) PROVE IoPlace'
  BY <1>2, PagesDoes
<1>3. ASSUME NEW a \in Actors, NEW ok \in BOOLEAN, Enhance(a, ok) PROVE IoPlace'
  BY <1>3, EnhanceDoes
<1>4. ASSUME NEW a \in Actors, FinalizeTwainScanTask(a) PROVE IoPlace'
  BY <1>4, FinalizeDoes
<1>5. ASSUME NEW a \in Actors, PublishConverting(a) PROVE IoPlace'
  BY <1>5, PublishDoes
<1>6. ASSUME NEW a \in Actors, NEW ok \in BOOLEAN, ConvertPages(a, ok) PROVE IoPlace'
  BY <1>6, ConvertDoes
<1>7. ASSUME NEW a \in Actors, StoreSnapshot(a) PROVE IoPlace'
  BY <1>7, StoreDoes
<1>8. ASSUME NEW t \in Scans, ScanRuns(t) PROVE IoPlace'
  BY <1>8, RunsDoes
<1>9. ASSUME NEW t \in Scans, ScanCompletes(t) PROVE IoPlace'
  BY <1>9, CompletesDoes
<1>10. ASSUME NEW t \in Scans, ScanCancelled(t) PROVE IoPlace'
  BY <1>10, CancelledDoes
<1>11. ASSUME NEW t \in Scans, ScanRequest(t) PROVE IoPlace'
  BY <1>11, RequestDoes
<1>12. ASSUME NEW t \in Scans, TwainScanGet(t) PROVE IoPlace'
  BY <1>12, GetDoes
<1>13. ASSUME NEW t \in Scans, ScanCancel(t) PROVE IoPlace'
  BY <1>13, CancelDoes
<1>14. CASE CloseConnection
  BY <1>14, CloseDoes
<1>15. CASE LockStorage
  BY <1>15, LockDoes
<1>16. CASE ProviderScan
  BY <1>16, InsertDoes
<1>17. CASE ScanReply
  BY <1>17, ReplyDoes
<1>18. CASE ProviderGetScan
  BY <1>18, GetScanDoes
<1>19. CASE CancelScan
  BY <1>19, CancelScanDoes
<1>20. CASE MarkCancelled
  BY <1>20, MarkDoes
<1>21. CASE KeepCancelResult
  BY <1>21, KeepDoes
<1>22. CASE WaitForEnd
  BY <1>22, WaitDoes
<1>23. ASSUME NEW t \in Scans, CancelNext(t) PROVE IoPlace'
  BY <1>23, NextDoes
<1>24. ASSUME NEW t \in Scans, PollNext(t) PROVE IoPlace'
  BY <1>24, PollDoes
<1>25. CASE UNCHANGED scanVars
  BY <1>25 DEF scanVars, closeVars
<1> HIDE DEF IoPlace, Cancelling, Alone, SameCall, Event, Inside
<1>26. ASSUME NEW a \in Actors, DispatchStep(a) PROVE IoPlace'
  BY <1>26, <1>1, <1>2, <1>3, <1>4, <1>5, <1>6, <1>7 DEF DispatchStep
<1>27. CASE Request
  BY <1>27, <1>11, <1>12, <1>13, <1>14 DEF Request
<1>28. CASE IoStep
  BY <1>28, <1>15, <1>16, <1>17, <1>18, <1>19, <1>20, <1>21, <1>22, <1>23, <1>24, <1>26
     DEF IoStep
<1>29. ASSUME NEW t \in Scans, ThreadStep(t) PROVE IoPlace'
  BY <1>29, <1>8, <1>9, <1>10, <1>26 DEF ThreadStep
<1> QED BY <1>25, <1>27, <1>28, <1>29 DEF ScanNext

\* SANE and TWAIN events keep to their own routines.
LEMMA KindsInPlace ==
  ASSUME ScanTypeOK, ThreadPlace, IoPlace, KindPlace, [ScanNext]_scanVars
  PROVE  KindPlace'
<1> /\ "io" \in Actors /\ Scans \subseteq Actors /\ "io" \notin Scans /\ Nobody \notin Scans
   /\ Nobody # "io" /\ Actors = Scans \cup {"io"}
  BY ScanAssumption DEF Actors, Scans, Nobody
<1> USE DEF KindPlace, Scans, ThreadPlace, IoPlace, Alone, SameCall, Event, Inside
<1>1. ASSUME NEW a \in Actors, EnterDispatch(a) PROVE KindPlace'
  BY <1>1, EnterDoes
<1>2. ASSUME NEW a \in Actors, HandlePages(a) PROVE KindPlace'
  BY <1>2, PagesDoes
<1>3. ASSUME NEW a \in Actors, NEW ok \in BOOLEAN, Enhance(a, ok) PROVE KindPlace'
  BY <1>3, EnhanceDoes
<1>4. ASSUME NEW a \in Actors, FinalizeTwainScanTask(a) PROVE KindPlace'
  BY <1>4, FinalizeDoes
<1>5. ASSUME NEW a \in Actors, PublishConverting(a) PROVE KindPlace'
  BY <1>5, PublishDoes
<1>6. ASSUME NEW a \in Actors, NEW ok \in BOOLEAN, ConvertPages(a, ok) PROVE KindPlace'
  BY <1>6, ConvertDoes
<1>7. ASSUME NEW a \in Actors, StoreSnapshot(a) PROVE KindPlace'
  BY <1>7, StoreDoes
<1>8. ASSUME NEW t \in Scans, ScanRuns(t) PROVE KindPlace'
  BY <1>8, RunsDoes
<1>9. ASSUME NEW t \in Scans, ScanCompletes(t) PROVE KindPlace'
  BY <1>9, CompletesDoes
<1>10. ASSUME NEW t \in Scans, ScanCancelled(t) PROVE KindPlace'
  BY <1>10, CancelledDoes
<1>11. ASSUME NEW t \in Scans, ScanRequest(t) PROVE KindPlace'
  BY <1>11, RequestDoes
<1>12. ASSUME NEW t \in Scans, TwainScanGet(t) PROVE KindPlace'
  BY <1>12, GetDoes
<1>13. ASSUME NEW t \in Scans, ScanCancel(t) PROVE KindPlace'
  BY <1>13, CancelDoes
<1>14. CASE CloseConnection
  BY <1>14, CloseDoes
<1>15. CASE LockStorage
  BY <1>15, LockDoes
<1>16. CASE ProviderScan
  BY <1>16, InsertDoes
<1>17. CASE ScanReply
  BY <1>17, ReplyDoes
<1>18. CASE ProviderGetScan
  BY <1>18, GetScanDoes
<1>19. CASE CancelScan
  BY <1>19, CancelScanDoes
<1>20. CASE MarkCancelled
  BY <1>20, MarkDoes
<1>21. CASE KeepCancelResult
  BY <1>21, KeepDoes
<1>22. CASE WaitForEnd
  BY <1>22, WaitDoes
<1>23. ASSUME NEW t \in Scans, CancelNext(t) PROVE KindPlace'
  BY <1>23, NextDoes
<1>24. ASSUME NEW t \in Scans, PollNext(t) PROVE KindPlace'
  BY <1>24, PollDoes
<1>25. CASE UNCHANGED scanVars
  BY <1>25 DEF scanVars, closeVars
<1> HIDE DEF KindPlace, Scans, ThreadPlace, IoPlace, Alone, SameCall, Event, Inside
<1>26. ASSUME NEW a \in Actors, DispatchStep(a) PROVE KindPlace'
  BY <1>26, <1>1, <1>2, <1>3, <1>4, <1>5, <1>6, <1>7 DEF DispatchStep
<1>27. CASE Request
  BY <1>27, <1>11, <1>12, <1>13, <1>14 DEF Request
<1>28. CASE IoStep
  BY <1>28, <1>15, <1>16, <1>17, <1>18, <1>19, <1>20, <1>21, <1>22, <1>23, <1>24, <1>26
     DEF IoStep
<1>29. ASSUME NEW t \in Scans, ThreadStep(t) PROVE KindPlace'
  BY <1>29, <1>8, <1>9, <1>10, <1>26 DEF ThreadStep
<1> QED BY <1>25, <1>27, <1>28, <1>29 DEF ScanNext

\* The lifecycle lock stays with whoever is inside the routine.
LEMMA StorageKept ==
  ASSUME ScanTypeOK, ThreadPlace, IoPlace, StorageInv, ProvMuInv, [ScanNext]_scanVars
  PROVE  StorageInv'
<1> /\ "io" \in Actors /\ Scans \subseteq Actors /\ "io" \notin Scans /\ Nobody \notin Scans
   /\ Nobody # "io" /\ Actors = Scans \cup {"io"}
  BY ScanAssumption DEF Actors, Scans, Nobody
<1> USE DEF StorageInv, Cancelling, ThreadPlace, IoPlace, Alone, SameCall, Event, Inside
<1>1. ASSUME NEW a \in Actors, EnterDispatch(a) PROVE StorageInv'
  BY <1>1, EnterDoes
<1>2. ASSUME NEW a \in Actors, HandlePages(a) PROVE StorageInv'
  BY <1>2, PagesDoes
<1>3. ASSUME NEW a \in Actors, NEW ok \in BOOLEAN, Enhance(a, ok) PROVE StorageInv'
  BY <1>3, EnhanceDoes
<1>4. ASSUME NEW a \in Actors, FinalizeTwainScanTask(a) PROVE StorageInv'
  BY <1>4, FinalizeDoes
<1>5. ASSUME NEW a \in Actors, PublishConverting(a) PROVE StorageInv'
  BY <1>5, PublishDoes
<1>6. ASSUME NEW a \in Actors, NEW ok \in BOOLEAN, ConvertPages(a, ok) PROVE StorageInv'
  BY <1>6, ConvertDoes
<1>7. ASSUME NEW a \in Actors, StoreSnapshot(a) PROVE StorageInv'
  BY <1>7, StoreDoes
<1>8. ASSUME NEW t \in Scans, ScanRuns(t) PROVE StorageInv'
  BY <1>8, RunsDoes
<1>9. ASSUME NEW t \in Scans, ScanCompletes(t) PROVE StorageInv'
  BY <1>9, CompletesDoes
<1>10. ASSUME NEW t \in Scans, ScanCancelled(t) PROVE StorageInv'
  BY <1>10, CancelledDoes
<1>11. ASSUME NEW t \in Scans, ScanRequest(t) PROVE StorageInv'
  BY <1>11, RequestDoes
<1>12. ASSUME NEW t \in Scans, TwainScanGet(t) PROVE StorageInv'
  BY <1>12, GetDoes
<1>13. ASSUME NEW t \in Scans, ScanCancel(t) PROVE StorageInv'
  BY <1>13, CancelDoes
<1>14. CASE CloseConnection
  BY <1>14, CloseDoes
<1>15. CASE LockStorage
  BY <1>15, LockDoes
<1>16. CASE ProviderScan
  BY <1>16, InsertDoes
<1>17. CASE ScanReply
  BY <1>17, ReplyDoes
<1>18. CASE ProviderGetScan
  BY <1>18, GetScanDoes
<1>19. CASE CancelScan
  BY <1>19, CancelScanDoes
<1>20. CASE MarkCancelled
  BY <1>20, MarkDoes
<1>21. CASE KeepCancelResult
  BY <1>21, KeepDoes
<1>22. CASE WaitForEnd
  BY <1>22, WaitDoes
<1>23. ASSUME NEW t \in Scans, CancelNext(t) PROVE StorageInv'
  BY <1>23, NextDoes
<1>24. ASSUME NEW t \in Scans, PollNext(t) PROVE StorageInv'
  BY <1>24, PollDoes
<1>25. CASE UNCHANGED scanVars
  BY <1>25 DEF scanVars, closeVars
<1> HIDE DEF StorageInv, Cancelling, ThreadPlace, IoPlace, Alone, SameCall, Event, Inside
<1>26. ASSUME NEW a \in Actors, DispatchStep(a) PROVE StorageInv'
  BY <1>26, <1>1, <1>2, <1>3, <1>4, <1>5, <1>6, <1>7 DEF DispatchStep
<1>27. CASE Request
  BY <1>27, <1>11, <1>12, <1>13, <1>14 DEF Request
<1>28. CASE IoStep
  BY <1>28, <1>15, <1>16, <1>17, <1>18, <1>19, <1>20, <1>21, <1>22, <1>23, <1>24, <1>26
     DEF IoStep
<1>29. ASSUME NEW t \in Scans, ThreadStep(t) PROVE StorageInv'
  BY <1>29, <1>8, <1>9, <1>10, <1>26 DEF ThreadStep
<1> QED BY <1>25, <1>27, <1>28, <1>29 DEF ScanNext

\* CancelScan keeps its mutex until its event has been stored.
LEMMA ProvMuKept ==
  ASSUME ScanTypeOK, ThreadPlace, IoPlace, ProvMuInv, StorageInv, [ScanNext]_scanVars
  PROVE  ProvMuInv'
<1> /\ "io" \in Actors /\ Scans \subseteq Actors /\ "io" \notin Scans /\ Nobody \notin Scans
   /\ Nobody # "io" /\ Actors = Scans \cup {"io"}
  BY ScanAssumption DEF Actors, Scans, Nobody
<1> /\ \A t \in Scans : Kind(t) \in {"sane", "twain"}
   /\ provMu \in [{"sane", "twain"} -> Actors \cup {Nobody}]
  BY DEF Kind, ScanTypeOK
<1> USE DEF ProvMuInv, Cancelling, IoPlace, Alone, SameCall, Event, Inside
<1>1. ASSUME NEW a \in Actors, EnterDispatch(a) PROVE ProvMuInv'
  BY <1>1, EnterDoes
<1>2. ASSUME NEW a \in Actors, HandlePages(a) PROVE ProvMuInv'
  BY <1>2, PagesDoes
<1>3. ASSUME NEW a \in Actors, NEW ok \in BOOLEAN, Enhance(a, ok) PROVE ProvMuInv'
  BY <1>3, EnhanceDoes
<1>4. ASSUME NEW a \in Actors, FinalizeTwainScanTask(a) PROVE ProvMuInv'
  BY <1>4, FinalizeDoes
<1>5. ASSUME NEW a \in Actors, PublishConverting(a) PROVE ProvMuInv'
  BY <1>5, PublishDoes
<1>6. ASSUME NEW a \in Actors, NEW ok \in BOOLEAN, ConvertPages(a, ok) PROVE ProvMuInv'
  BY <1>6, ConvertDoes
<1>7. ASSUME NEW a \in Actors, StoreSnapshot(a) PROVE ProvMuInv'
  BY <1>7, StoreDoes
<1>8. ASSUME NEW t \in Scans, ScanRuns(t) PROVE ProvMuInv'
  BY <1>8, RunsDoes
<1>9. ASSUME NEW t \in Scans, ScanCompletes(t) PROVE ProvMuInv'
  BY <1>9, CompletesDoes
<1>10. ASSUME NEW t \in Scans, ScanCancelled(t) PROVE ProvMuInv'
  BY <1>10, CancelledDoes
<1>11. ASSUME NEW t \in Scans, ScanRequest(t) PROVE ProvMuInv'
  BY <1>11, RequestDoes
<1>12. ASSUME NEW t \in Scans, TwainScanGet(t) PROVE ProvMuInv'
  BY <1>12, GetDoes
<1>13. ASSUME NEW t \in Scans, ScanCancel(t) PROVE ProvMuInv'
  BY <1>13, CancelDoes
<1>14. CASE CloseConnection
  BY <1>14, CloseDoes
<1>15. CASE LockStorage
  BY <1>15, LockDoes
<1>16. CASE ProviderScan
  BY <1>16, InsertDoes
<1>17. CASE ScanReply
  BY <1>17, ReplyDoes
<1>18. CASE ProviderGetScan
  BY <1>18, GetScanDoes
<1>19. CASE CancelScan
  BY <1>19, CancelScanDoes
<1>20. CASE MarkCancelled
  BY <1>20, MarkDoes
<1>21. CASE KeepCancelResult
  BY <1>21, KeepDoes
<1>22. CASE WaitForEnd
  BY <1>22, WaitDoes
<1>23. ASSUME NEW t \in Scans, CancelNext(t) PROVE ProvMuInv'
  BY <1>23, NextDoes
<1>24. ASSUME NEW t \in Scans, PollNext(t) PROVE ProvMuInv'
  BY <1>24, PollDoes
<1>25. CASE UNCHANGED scanVars
  BY <1>25 DEF scanVars, closeVars
<1> HIDE DEF ProvMuInv, Cancelling, IoPlace, Alone, SameCall, Event, Inside
<1>26. ASSUME NEW a \in Actors, DispatchStep(a) PROVE ProvMuInv'
  BY <1>26, <1>1, <1>2, <1>3, <1>4, <1>5, <1>6, <1>7 DEF DispatchStep
<1>27. CASE Request
  BY <1>27, <1>11, <1>12, <1>13, <1>14 DEF Request
<1>28. CASE IoStep
  BY <1>28, <1>15, <1>16, <1>17, <1>18, <1>19, <1>20, <1>21, <1>22, <1>23, <1>24, <1>26
     DEF IoStep
<1>29. ASSUME NEW t \in Scans, ThreadStep(t) PROVE ProvMuInv'
  BY <1>29, <1>8, <1>9, <1>10, <1>26 DEF ThreadStep
<1> QED BY <1>25, <1>27, <1>28, <1>29 DEF ScanNext

\* A scan that was not begun still has left no trace.
LEMMA NewKept ==
  ASSUME ScanTypeOK, ThreadPlace, IoPlace, KindPlace, StorageInv, ProvMuInv, NewInv, ThreadInv,
         [ScanNext]_scanVars
  PROVE  NewInv'
<1> /\ "io" \in Actors /\ Scans \subseteq Actors /\ "io" \notin Scans /\ Nobody \notin Scans
   /\ Nobody # "io" /\ Actors = Scans \cup {"io"}
  BY ScanAssumption DEF Actors, Scans, Nobody
<1> /\ prov \in [Scans -> Snapshot] /\ table \in [Scans -> Snapshot]
    /\ actor \in [Actors -> ActorSet]
   /\ todo \subseteq TwainTasks /\ waitFor \subseteq TwainTasks
  BY DEF ScanTypeOK
<1> /\ Scans = SaneTasks \cup TwainTasks /\ SaneTasks \cap TwainTasks = {}
   /\ NoTask.status = "none" /\ Queued.status = "queued" /\ NoTask.out = "none"
   /\ Queued.out = "none"
  BY ScanAssumption DEF Scans, NoTask, Queued
<1> USE DEF NewInv, ThreadInv, ThreadPlace, IoPlace, Unfinished, Alone, SameCall, Event, Inside
<1>1. ASSUME NEW a \in Actors, EnterDispatch(a) PROVE NewInv'
  BY <1>1, EnterDoes
<1>2. ASSUME NEW a \in Actors, HandlePages(a) PROVE NewInv'
  BY <1>2, PagesDoes
<1>3. ASSUME NEW a \in Actors, NEW ok \in BOOLEAN, Enhance(a, ok) PROVE NewInv'
  BY <1>3, EnhanceDoes
<1>4. ASSUME NEW a \in Actors, FinalizeTwainScanTask(a) PROVE NewInv'
  BY <1>4, FinalizeDoes
<1>5. ASSUME NEW a \in Actors, PublishConverting(a) PROVE NewInv'
  BY <1>5, PublishDoes
<1>6. ASSUME NEW a \in Actors, NEW ok \in BOOLEAN, ConvertPages(a, ok) PROVE NewInv'
  BY <1>6, ConvertDoes
<1>7. ASSUME NEW a \in Actors, StoreSnapshot(a) PROVE NewInv'
  BY <1>7, StoreDoes
<1>8. ASSUME NEW t \in Scans, ScanRuns(t) PROVE NewInv'
  BY <1>8, RunsDoes
<1>9. ASSUME NEW t \in Scans, ScanCompletes(t) PROVE NewInv'
  BY <1>9, CompletesDoes
<1>10. ASSUME NEW t \in Scans, ScanCancelled(t) PROVE NewInv'
  BY <1>10, CancelledDoes
<1>11. ASSUME NEW t \in Scans, ScanRequest(t) PROVE NewInv'
  BY <1>11, RequestDoes
<1>12. ASSUME NEW t \in Scans, TwainScanGet(t) PROVE NewInv'
  BY <1>12, GetDoes
<1>13. ASSUME NEW t \in Scans, ScanCancel(t) PROVE NewInv'
  BY <1>13, CancelDoes
<1>14. CASE CloseConnection
  BY <1>14, CloseDoes
<1>15. CASE LockStorage
  BY <1>15, LockDoes
<1>16. CASE ProviderScan
  BY <1>16, InsertDoes
<1>17. CASE ScanReply
  BY <1>17, ReplyDoes
<1>18. CASE ProviderGetScan
  BY <1>18, GetScanDoes
<1>19. CASE CancelScan
  BY <1>19, CancelScanDoes
<1>20. CASE MarkCancelled
  BY <1>20, MarkDoes
<1>21. CASE KeepCancelResult
  BY <1>21, KeepDoes
<1>22. CASE WaitForEnd
  BY <1>22, WaitDoes
<1>23. ASSUME NEW t \in Scans, CancelNext(t) PROVE NewInv'
  BY <1>23, NextDoes
<1>24. ASSUME NEW t \in Scans, PollNext(t) PROVE NewInv'
  BY <1>24, PollDoes
<1>25. CASE UNCHANGED scanVars
  BY <1>25 DEF scanVars, closeVars
<1> HIDE DEF NewInv, ThreadInv, ThreadPlace, IoPlace, Unfinished, Alone, SameCall, Event, Inside
<1>26. ASSUME NEW a \in Actors, DispatchStep(a) PROVE NewInv'
  BY <1>26, <1>1, <1>2, <1>3, <1>4, <1>5, <1>6, <1>7 DEF DispatchStep
<1>27. CASE Request
  BY <1>27, <1>11, <1>12, <1>13, <1>14 DEF Request
<1>28. CASE IoStep
  BY <1>28, <1>15, <1>16, <1>17, <1>18, <1>19, <1>20, <1>21, <1>22, <1>23, <1>24, <1>26
     DEF IoStep
<1>29. ASSUME NEW t \in Scans, ThreadStep(t) PROVE NewInv'
  BY <1>29, <1>8, <1>9, <1>10, <1>26 DEF ThreadStep
<1> QED BY <1>25, <1>27, <1>28, <1>29 DEF ScanNext

\* The provider's snapshot keeps up with the thread.
LEMMA ThreadKept ==
  ASSUME ScanTypeOK, ThreadPlace, IoPlace, KindPlace, StorageInv, ProvMuInv, NewInv, ThreadInv,
         [ScanNext]_scanVars
  PROVE  ThreadInv'
<1> /\ "io" \in Actors /\ Scans \subseteq Actors /\ "io" \notin Scans /\ Nobody \notin Scans
   /\ Nobody # "io" /\ Actors = Scans \cup {"io"}
  BY ScanAssumption DEF Actors, Scans, Nobody
<1> /\ prov \in [Scans -> Snapshot] /\ table \in [Scans -> Snapshot]
    /\ actor \in [Actors -> ActorSet]
   /\ todo \subseteq TwainTasks /\ waitFor \subseteq TwainTasks
  BY DEF ScanTypeOK
<1> /\ Scans = SaneTasks \cup TwainTasks /\ SaneTasks \cap TwainTasks = {}
   /\ NoTask.status = "none" /\ Queued.status = "queued" /\ NoTask.out = "none"
   /\ Queued.out = "none"
  BY ScanAssumption DEF Scans, NoTask, Queued
<1> USE DEF NewInv, ThreadInv, ThreadPlace, IoPlace, Alone, SameCall, Event, Inside
<1>1. ASSUME NEW a \in Actors, EnterDispatch(a) PROVE ThreadInv'
  BY <1>1, EnterDoes
<1>2. ASSUME NEW a \in Actors, HandlePages(a) PROVE ThreadInv'
  BY <1>2, PagesDoes
<1>3. ASSUME NEW a \in Actors, NEW ok \in BOOLEAN, Enhance(a, ok) PROVE ThreadInv'
  BY <1>3, EnhanceDoes
<1>4. ASSUME NEW a \in Actors, FinalizeTwainScanTask(a) PROVE ThreadInv'
  BY <1>4, FinalizeDoes
<1>5. ASSUME NEW a \in Actors, PublishConverting(a) PROVE ThreadInv'
  BY <1>5, PublishDoes
<1>6. ASSUME NEW a \in Actors, NEW ok \in BOOLEAN, ConvertPages(a, ok) PROVE ThreadInv'
  BY <1>6, ConvertDoes
<1>7. ASSUME NEW a \in Actors, StoreSnapshot(a) PROVE ThreadInv'
  BY <1>7, StoreDoes
<1>8. ASSUME NEW t \in Scans, ScanRuns(t) PROVE ThreadInv'
  BY <1>8, RunsDoes
<1>9. ASSUME NEW t \in Scans, ScanCompletes(t) PROVE ThreadInv'
  BY <1>9, CompletesDoes
<1>10. ASSUME NEW t \in Scans, ScanCancelled(t) PROVE ThreadInv'
  BY <1>10, CancelledDoes
<1>11. ASSUME NEW t \in Scans, ScanRequest(t) PROVE ThreadInv'
  BY <1>11, RequestDoes
<1>12. ASSUME NEW t \in Scans, TwainScanGet(t) PROVE ThreadInv'
  BY <1>12, GetDoes
<1>13. ASSUME NEW t \in Scans, ScanCancel(t) PROVE ThreadInv'
  BY <1>13, CancelDoes
<1>14. CASE CloseConnection
  BY <1>14, CloseDoes
<1>15. CASE LockStorage
  BY <1>15, LockDoes
<1>16. CASE ProviderScan
  BY <1>16, InsertDoes
<1>17. CASE ScanReply
  BY <1>17, ReplyDoes
<1>18. CASE ProviderGetScan
  BY <1>18, GetScanDoes
<1>19. CASE CancelScan
  BY <1>19, CancelScanDoes
<1>20. CASE MarkCancelled
  BY <1>20, MarkDoes
<1>21. CASE KeepCancelResult
  BY <1>21, KeepDoes
<1>22. CASE WaitForEnd
  BY <1>22, WaitDoes
<1>23. ASSUME NEW t \in Scans, CancelNext(t) PROVE ThreadInv'
  BY <1>23, NextDoes
<1>24. ASSUME NEW t \in Scans, PollNext(t) PROVE ThreadInv'
  BY <1>24, PollDoes
<1>25. CASE UNCHANGED scanVars
  BY <1>25 DEF scanVars, closeVars
<1> HIDE DEF NewInv, ThreadInv, ThreadPlace, IoPlace, Alone, SameCall, Event, Inside
<1>26. ASSUME NEW a \in Actors, DispatchStep(a) PROVE ThreadInv'
  BY <1>26, <1>1, <1>2, <1>3, <1>4, <1>5, <1>6, <1>7 DEF DispatchStep
<1>27. CASE Request
  BY <1>27, <1>11, <1>12, <1>13, <1>14 DEF Request
<1>28. CASE IoStep
  BY <1>28, <1>15, <1>16, <1>17, <1>18, <1>19, <1>20, <1>21, <1>22, <1>23, <1>24, <1>26
     DEF IoStep
<1>29. ASSUME NEW t \in Scans, ThreadStep(t) PROVE ThreadInv'
  BY <1>29, <1>8, <1>9, <1>10, <1>26 DEF ThreadStep
<1> QED BY <1>25, <1>27, <1>28, <1>29 DEF ScanNext

\* No snapshot overtakes the provider's.
LEMMA SnapKept ==
  ASSUME ScanTypeOK, ThreadPlace, IoPlace, KindPlace, StorageInv, ProvMuInv, NewInv, ThreadInv,
         SnapInv, TwainInv, SettleInv, OutInv, [ScanNext]_scanVars
  PROVE  SnapInv'
<1> /\ "io" \in Actors /\ Scans \subseteq Actors /\ "io" \notin Scans /\ Nobody \notin Scans
   /\ Nobody # "io" /\ Actors = Scans \cup {"io"}
  BY ScanAssumption DEF Actors, Scans, Nobody
<1> /\ prov \in [Scans -> Snapshot] /\ table \in [Scans -> Snapshot]
    /\ actor \in [Actors -> ActorSet]
   /\ todo \subseteq TwainTasks /\ waitFor \subseteq TwainTasks
  BY DEF ScanTypeOK
<1> /\ Scans = SaneTasks \cup TwainTasks /\ SaneTasks \cap TwainTasks = {}
   /\ NoTask.status = "none" /\ Queued.status = "queued" /\ NoTask.out = "none"
   /\ Queued.out = "none"
  BY ScanAssumption DEF Scans, NoTask, Queued
<1> USE DEF SnapInv, TwainInv, IsTwainTaskTerminal, KindPlace, Begun, NewInv, ThreadInv,
            ThreadPlace, IoPlace, Alone, SameCall, Event, Inside
<1>1. ASSUME NEW a \in Actors, EnterDispatch(a) PROVE SnapInv'
  BY <1>1, EnterDoes
<1>2. ASSUME NEW a \in Actors, HandlePages(a) PROVE SnapInv'
  BY <1>2, PagesDoes
<1>3. ASSUME NEW a \in Actors, NEW ok \in BOOLEAN, Enhance(a, ok) PROVE SnapInv'
  BY <1>3, EnhanceDoes
<1>4. ASSUME NEW a \in Actors, FinalizeTwainScanTask(a) PROVE SnapInv'
  BY <1>4, FinalizeDoes
<1>5. ASSUME NEW a \in Actors, PublishConverting(a) PROVE SnapInv'
  BY <1>5, PublishDoes
<1>6. ASSUME NEW a \in Actors, NEW ok \in BOOLEAN, ConvertPages(a, ok) PROVE SnapInv'
  BY <1>6, ConvertDoes
<1>7. ASSUME NEW a \in Actors, StoreSnapshot(a) PROVE SnapInv'
  BY <1>7, StoreDoes
<1>8. ASSUME NEW t \in Scans, ScanRuns(t) PROVE SnapInv'
  BY <1>8, RunsDoes
<1>9. ASSUME NEW t \in Scans, ScanCompletes(t) PROVE SnapInv'
  BY <1>9, CompletesDoes
<1>10. ASSUME NEW t \in Scans, ScanCancelled(t) PROVE SnapInv'
  BY <1>10, CancelledDoes
<1>11. ASSUME NEW t \in Scans, ScanRequest(t) PROVE SnapInv'
  BY <1>11, RequestDoes
<1>12. ASSUME NEW t \in Scans, TwainScanGet(t) PROVE SnapInv'
  BY <1>12, GetDoes
<1>13. ASSUME NEW t \in Scans, ScanCancel(t) PROVE SnapInv'
  BY <1>13, CancelDoes
<1>14. CASE CloseConnection
  BY <1>14, CloseDoes
<1>15. CASE LockStorage
  BY <1>15, LockDoes
<1>16. CASE ProviderScan
  BY <1>16, InsertDoes
<1>17. CASE ScanReply
  BY <1>17, ReplyDoes
<1>18. CASE ProviderGetScan
  BY <1>18, GetScanDoes
<1>19. CASE CancelScan
  BY <1>19, CancelScanDoes
<1>20. CASE MarkCancelled
  BY <1>20, MarkDoes
<1>21. CASE KeepCancelResult
  BY <1>21, KeepDoes
<1>22. CASE WaitForEnd
  BY <1>22, WaitDoes
<1>23. ASSUME NEW t \in Scans, CancelNext(t) PROVE SnapInv'
  BY <1>23, NextDoes
<1>24. ASSUME NEW t \in Scans, PollNext(t) PROVE SnapInv'
  BY <1>24, PollDoes
<1>25. CASE UNCHANGED scanVars
  BY <1>25 DEF scanVars, closeVars
<1> HIDE DEF SnapInv, TwainInv, IsTwainTaskTerminal, KindPlace, Begun, NewInv, ThreadInv,
             ThreadPlace, IoPlace, Alone, SameCall, Event, Inside
<1>26. ASSUME NEW a \in Actors, DispatchStep(a) PROVE SnapInv'
  BY <1>26, <1>1, <1>2, <1>3, <1>4, <1>5, <1>6, <1>7 DEF DispatchStep
<1>27. CASE Request
  BY <1>27, <1>11, <1>12, <1>13, <1>14 DEF Request
<1>28. CASE IoStep
  BY <1>28, <1>15, <1>16, <1>17, <1>18, <1>19, <1>20, <1>21, <1>22, <1>23, <1>24, <1>26
     DEF IoStep
<1>29. ASSUME NEW t \in Scans, ThreadStep(t) PROVE SnapInv'
  BY <1>29, <1>8, <1>9, <1>10, <1>26 DEF ThreadStep
<1> QED BY <1>25, <1>27, <1>28, <1>29 DEF ScanNext

\* The table of the TWAIN scans does not overtake the provider.
LEMMA TwainKept ==
  ASSUME ScanTypeOK, ThreadPlace, IoPlace, KindPlace, StorageInv, ProvMuInv, NewInv, ThreadInv,
         SnapInv, TwainInv, SettleInv, OutInv, [ScanNext]_scanVars
  PROVE  TwainInv'
<1> /\ "io" \in Actors /\ Scans \subseteq Actors /\ "io" \notin Scans /\ Nobody \notin Scans
   /\ Nobody # "io" /\ Actors = Scans \cup {"io"}
  BY ScanAssumption DEF Actors, Scans, Nobody
<1> /\ prov \in [Scans -> Snapshot] /\ table \in [Scans -> Snapshot]
    /\ actor \in [Actors -> ActorSet]
   /\ todo \subseteq TwainTasks /\ waitFor \subseteq TwainTasks
  BY DEF ScanTypeOK
<1> /\ Scans = SaneTasks \cup TwainTasks /\ SaneTasks \cap TwainTasks = {}
   /\ NoTask.status = "none" /\ Queued.status = "queued" /\ NoTask.out = "none"
   /\ Queued.out = "none"
  BY ScanAssumption DEF Scans, NoTask, Queued
<1> USE DEF TwainInv, SnapInv, Begun, KindPlace, NewInv, ThreadInv, ThreadPlace, IoPlace, Alone,
            SameCall, Event, Inside
<1>1. ASSUME NEW a \in Actors, EnterDispatch(a) PROVE TwainInv'
  BY <1>1, EnterDoes
<1>2. ASSUME NEW a \in Actors, HandlePages(a) PROVE TwainInv'
  BY <1>2, PagesDoes
<1>3. ASSUME NEW a \in Actors, NEW ok \in BOOLEAN, Enhance(a, ok) PROVE TwainInv'
  BY <1>3, EnhanceDoes
<1>4. ASSUME NEW a \in Actors, FinalizeTwainScanTask(a) PROVE TwainInv'
  BY <1>4, FinalizeDoes
<1>5. ASSUME NEW a \in Actors, PublishConverting(a) PROVE TwainInv'
  BY <1>5, PublishDoes
<1>6. ASSUME NEW a \in Actors, NEW ok \in BOOLEAN, ConvertPages(a, ok) PROVE TwainInv'
  BY <1>6, ConvertDoes
<1>7. ASSUME NEW a \in Actors, StoreSnapshot(a) PROVE TwainInv'
  BY <1>7, StoreDoes
<1>8. ASSUME NEW t \in Scans, ScanRuns(t) PROVE TwainInv'
  BY <1>8, RunsDoes
<1>9. ASSUME NEW t \in Scans, ScanCompletes(t) PROVE TwainInv'
  BY <1>9, CompletesDoes
<1>10. ASSUME NEW t \in Scans, ScanCancelled(t) PROVE TwainInv'
  BY <1>10, CancelledDoes
<1>11. ASSUME NEW t \in Scans, ScanRequest(t) PROVE TwainInv'
  BY <1>11, RequestDoes
<1>12. ASSUME NEW t \in Scans, TwainScanGet(t) PROVE TwainInv'
  BY <1>12, GetDoes
<1>13. ASSUME NEW t \in Scans, ScanCancel(t) PROVE TwainInv'
  BY <1>13, CancelDoes
<1>14. CASE CloseConnection
  BY <1>14, CloseDoes
<1>15. CASE LockStorage
  BY <1>15, LockDoes
<1>16. CASE ProviderScan
  BY <1>16, InsertDoes
<1>17. CASE ScanReply
  BY <1>17, ReplyDoes
<1>18. CASE ProviderGetScan
  BY <1>18, GetScanDoes
<1>19. CASE CancelScan
  BY <1>19, CancelScanDoes
<1>20. CASE MarkCancelled
  BY <1>20, MarkDoes
<1>21. CASE KeepCancelResult
  BY <1>21, KeepDoes
<1>22. CASE WaitForEnd
  BY <1>22, WaitDoes
<1>23. ASSUME NEW t \in Scans, CancelNext(t) PROVE TwainInv'
  BY <1>23, NextDoes
<1>24. ASSUME NEW t \in Scans, PollNext(t) PROVE TwainInv'
  BY <1>24, PollDoes
<1>25. CASE UNCHANGED scanVars
  BY <1>25 DEF scanVars, closeVars
<1> HIDE DEF TwainInv, SnapInv, Begun, KindPlace, NewInv, ThreadInv, ThreadPlace, IoPlace,
             Alone, SameCall, Event, Inside
<1>26. ASSUME NEW a \in Actors, DispatchStep(a) PROVE TwainInv'
  BY <1>26, <1>1, <1>2, <1>3, <1>4, <1>5, <1>6, <1>7 DEF DispatchStep
<1>27. CASE Request
  BY <1>27, <1>11, <1>12, <1>13, <1>14 DEF Request
<1>28. CASE IoStep
  BY <1>28, <1>15, <1>16, <1>17, <1>18, <1>19, <1>20, <1>21, <1>22, <1>23, <1>24, <1>26
     DEF IoStep
<1>29. ASSUME NEW t \in Scans, ThreadStep(t) PROVE TwainInv'
  BY <1>29, <1>8, <1>9, <1>10, <1>26 DEF ThreadStep
<1> QED BY <1>25, <1>27, <1>28, <1>29 DEF ScanNext

\* The end of a SANE scan is still not overtaken.
LEMMA SettleKept ==
  ASSUME ScanTypeOK, ThreadPlace, IoPlace, KindPlace, StorageInv, ProvMuInv, NewInv, ThreadInv,
         SnapInv, TwainInv, SettleInv, OutInv, [ScanNext]_scanVars
  PROVE  SettleInv'
<1> /\ "io" \in Actors /\ Scans \subseteq Actors /\ "io" \notin Scans /\ Nobody \notin Scans
   /\ Nobody # "io" /\ Actors = Scans \cup {"io"}
  BY ScanAssumption DEF Actors, Scans, Nobody
<1> /\ prov \in [Scans -> Snapshot] /\ table \in [Scans -> Snapshot]
    /\ actor \in [Actors -> ActorSet]
   /\ todo \subseteq TwainTasks /\ waitFor \subseteq TwainTasks
  BY DEF ScanTypeOK
<1> /\ Scans = SaneTasks \cup TwainTasks /\ SaneTasks \cap TwainTasks = {}
   /\ NoTask.status = "none" /\ Queued.status = "queued" /\ NoTask.out = "none"
   /\ Queued.out = "none"
  BY ScanAssumption DEF Scans, NoTask, Queued
<1> USE DEF SettleInv, IsTwainTaskTerminal, SnapInv, Begun, StorageInv, ProvMuInv, KindPlace,
            NewInv, ThreadInv, ThreadPlace, IoPlace, Cancelling, Alone, SameCall, Event, Inside
<1>1. ASSUME NEW a \in Actors, EnterDispatch(a) PROVE SettleInv'
  BY <1>1, EnterDoes
<1>2. ASSUME NEW a \in Actors, HandlePages(a) PROVE SettleInv'
  BY <1>2, PagesDoes
<1>3. ASSUME NEW a \in Actors, NEW ok \in BOOLEAN, Enhance(a, ok) PROVE SettleInv'
  BY <1>3, EnhanceDoes
<1>4. ASSUME NEW a \in Actors, FinalizeTwainScanTask(a) PROVE SettleInv'
  BY <1>4, FinalizeDoes
<1>5. ASSUME NEW a \in Actors, PublishConverting(a) PROVE SettleInv'
  BY <1>5, PublishDoes
<1>6. ASSUME NEW a \in Actors, NEW ok \in BOOLEAN, ConvertPages(a, ok) PROVE SettleInv'
  BY <1>6, ConvertDoes
<1>7. ASSUME NEW a \in Actors, StoreSnapshot(a) PROVE SettleInv'
  BY <1>7, StoreDoes
<1>8. ASSUME NEW t \in Scans, ScanRuns(t) PROVE SettleInv'
  BY <1>8, RunsDoes
<1>9. ASSUME NEW t \in Scans, ScanCompletes(t) PROVE SettleInv'
  BY <1>9, CompletesDoes
<1>10. ASSUME NEW t \in Scans, ScanCancelled(t) PROVE SettleInv'
  BY <1>10, CancelledDoes
<1>11. ASSUME NEW t \in Scans, ScanRequest(t) PROVE SettleInv'
  BY <1>11, RequestDoes
<1>12. ASSUME NEW t \in Scans, TwainScanGet(t) PROVE SettleInv'
  BY <1>12, GetDoes
<1>13. ASSUME NEW t \in Scans, ScanCancel(t) PROVE SettleInv'
  BY <1>13, CancelDoes
<1>14. CASE CloseConnection
  BY <1>14, CloseDoes
<1>15. CASE LockStorage
  BY <1>15, LockDoes
<1>16. CASE ProviderScan
  BY <1>16, InsertDoes
<1>17. CASE ScanReply
  BY <1>17, ReplyDoes
<1>18. CASE ProviderGetScan
  BY <1>18, GetScanDoes
<1>19. CASE CancelScan
  BY <1>19, CancelScanDoes
<1>20. CASE MarkCancelled
  BY <1>20, MarkDoes
<1>21. CASE KeepCancelResult
  BY <1>21, KeepDoes
<1>22. CASE WaitForEnd
  BY <1>22, WaitDoes
<1>23. ASSUME NEW t \in Scans, CancelNext(t) PROVE SettleInv'
  BY <1>23, NextDoes
<1>24. ASSUME NEW t \in Scans, PollNext(t) PROVE SettleInv'
  BY <1>24, PollDoes
<1>25. CASE UNCHANGED scanVars
  BY <1>25 DEF scanVars, closeVars
<1> HIDE DEF SettleInv, IsTwainTaskTerminal, SnapInv, Begun, StorageInv, ProvMuInv, KindPlace,
             NewInv, ThreadInv, ThreadPlace, IoPlace, Cancelling, Alone, SameCall, Event, Inside
<1>26. ASSUME NEW a \in Actors, DispatchStep(a) PROVE SettleInv'
  BY <1>26, <1>1, <1>2, <1>3, <1>4, <1>5, <1>6, <1>7 DEF DispatchStep
<1>27. CASE Request
  BY <1>27, <1>11, <1>12, <1>13, <1>14 DEF Request
<1>28. CASE IoStep
  BY <1>28, <1>15, <1>16, <1>17, <1>18, <1>19, <1>20, <1>21, <1>22, <1>23, <1>24, <1>26
     DEF IoStep
<1>29. ASSUME NEW t \in Scans, ThreadStep(t) PROVE SettleInv'
  BY <1>29, <1>8, <1>9, <1>10, <1>26 DEF ThreadStep
<1> QED BY <1>25, <1>27, <1>28, <1>29 DEF ScanNext

\* Completed snapshots have output.
LEMMA OutKept ==
  ASSUME ScanTypeOK, ThreadPlace, IoPlace, KindPlace, StorageInv, ProvMuInv, NewInv, ThreadInv,
         SnapInv, TwainInv, SettleInv, OutInv, [ScanNext]_scanVars
  PROVE  OutInv'
<1> /\ "io" \in Actors /\ Scans \subseteq Actors /\ "io" \notin Scans /\ Nobody \notin Scans
   /\ Nobody # "io" /\ Actors = Scans \cup {"io"}
  BY ScanAssumption DEF Actors, Scans, Nobody
<1> /\ prov \in [Scans -> Snapshot] /\ table \in [Scans -> Snapshot]
    /\ actor \in [Actors -> ActorSet]
   /\ todo \subseteq TwainTasks /\ waitFor \subseteq TwainTasks
  BY DEF ScanTypeOK
<1> /\ Scans = SaneTasks \cup TwainTasks /\ SaneTasks \cap TwainTasks = {}
   /\ NoTask.status = "none" /\ Queued.status = "queued" /\ NoTask.out = "none"
   /\ Queued.out = "none"
  BY ScanAssumption DEF Scans, NoTask, Queued
<1> USE DEF OutInv, Alone, SameCall, Event, Inside
<1>1. ASSUME NEW a \in Actors, EnterDispatch(a) PROVE OutInv'
  BY <1>1, EnterDoes
<1>2. ASSUME NEW a \in Actors, HandlePages(a) PROVE OutInv'
  BY <1>2, PagesDoes
<1>3. ASSUME NEW a \in Actors, NEW ok \in BOOLEAN, Enhance(a, ok) PROVE OutInv'
  BY <1>3, EnhanceDoes
<1>4. ASSUME NEW a \in Actors, FinalizeTwainScanTask(a) PROVE OutInv'
  BY <1>4, FinalizeDoes
<1>5. ASSUME NEW a \in Actors, PublishConverting(a) PROVE OutInv'
  BY <1>5, PublishDoes
<1>6. ASSUME NEW a \in Actors, NEW ok \in BOOLEAN, ConvertPages(a, ok) PROVE OutInv'
  BY <1>6, ConvertDoes
<1>7. ASSUME NEW a \in Actors, StoreSnapshot(a) PROVE OutInv'
  BY <1>7, StoreDoes
<1>8. ASSUME NEW t \in Scans, ScanRuns(t) PROVE OutInv'
  BY <1>8, RunsDoes
<1>9. ASSUME NEW t \in Scans, ScanCompletes(t) PROVE OutInv'
  BY <1>9, CompletesDoes
<1>10. ASSUME NEW t \in Scans, ScanCancelled(t) PROVE OutInv'
  BY <1>10, CancelledDoes
<1>11. ASSUME NEW t \in Scans, ScanRequest(t) PROVE OutInv'
  BY <1>11, RequestDoes
<1>12. ASSUME NEW t \in Scans, TwainScanGet(t) PROVE OutInv'
  BY <1>12, GetDoes
<1>13. ASSUME NEW t \in Scans, ScanCancel(t) PROVE OutInv'
  BY <1>13, CancelDoes
<1>14. CASE CloseConnection
  BY <1>14, CloseDoes
<1>15. CASE LockStorage
  BY <1>15, LockDoes
<1>16. CASE ProviderScan
  BY <1>16, InsertDoes
<1>17. CASE ScanReply
  BY <1>17, ReplyDoes
<1>18. CASE ProviderGetScan
  BY <1>18, GetScanDoes
<1>19. CASE CancelScan
  BY <1>19, CancelScanDoes
<1>20. CASE MarkCancelled
  BY <1>20, MarkDoes
<1>21. CASE KeepCancelResult
  BY <1>21, KeepDoes
<1>22. CASE WaitForEnd
  BY <1>22, WaitDoes
<1>23. ASSUME NEW t \in Scans, CancelNext(t) PROVE OutInv'
  BY <1>23, NextDoes
<1>24. ASSUME NEW t \in Scans, PollNext(t) PROVE OutInv'
  BY <1>24, PollDoes
<1>25. CASE UNCHANGED scanVars
  BY <1>25 DEF scanVars, closeVars
<1> HIDE DEF OutInv, Alone, SameCall, Event, Inside
<1>26. ASSUME NEW a \in Actors, DispatchStep(a) PROVE OutInv'
  BY <1>26, <1>1, <1>2, <1>3, <1>4, <1>5, <1>6, <1>7 DEF DispatchStep
<1>27. CASE Request
  BY <1>27, <1>11, <1>12, <1>13, <1>14 DEF Request
<1>28. CASE IoStep
  BY <1>28, <1>15, <1>16, <1>17, <1>18, <1>19, <1>20, <1>21, <1>22, <1>23, <1>24, <1>26
     DEF IoStep
<1>29. ASSUME NEW t \in Scans, ThreadStep(t) PROVE OutInv'
  BY <1>29, <1>8, <1>9, <1>10, <1>26 DEF ThreadStep
<1> QED BY <1>25, <1>27, <1>28, <1>29 DEF ScanNext

\* As long as no connection closes, documents are what is delivered.
LEMMA DeliveredKept ==
  ASSUME ScanTypeOK, ThreadPlace, IoPlace, NewInv, OutInv, Delivered, actor["io"].op # "close",
         [ScanNext]_scanVars
  PROVE  Delivered'
<1> /\ "io" \in Actors /\ Scans \subseteq Actors /\ "io" \notin Scans /\ Nobody \notin Scans
   /\ Nobody # "io" /\ Actors = Scans \cup {"io"}
  BY ScanAssumption DEF Actors, Scans, Nobody
<1> /\ prov \in [Scans -> Snapshot] /\ table \in [Scans -> Snapshot]
    /\ actor \in [Actors -> ActorSet]
   /\ todo \subseteq TwainTasks /\ waitFor \subseteq TwainTasks
  BY DEF ScanTypeOK
<1> /\ Scans = SaneTasks \cup TwainTasks /\ SaneTasks \cap TwainTasks = {}
   /\ NoTask.status = "none" /\ Queued.status = "queued" /\ NoTask.out = "none"
   /\ Queued.out = "none"
  BY ScanAssumption DEF Scans, NoTask, Queued
<1> document \subseteq Scans /\ \A t \in Scans : actor[t].task = t
  BY DEF ScanTypeOK, ThreadPlace
<1> actor["io"].at \notin {"keep", "pollNext", "cancelNext"}
  <2>2. actor["io"].op \in {"none", "scan", "get", "cancel"}
    BY DEF IoPlace
  <2>3. CASE actor["io"].op = "none"
    BY <2>3 DEF IoPlace
  <2>4. CASE actor["io"].op = "scan"
    BY <2>4 DEF IoPlace, Event, Inside
  <2>5. CASE actor["io"].op = "get"
    BY <2>5 DEF IoPlace
  <2>6. CASE actor["io"].op = "cancel"
    BY <2>6 DEF IoPlace, Event, Inside
  <2> QED BY <2>2, <2>3, <2>4, <2>5, <2>6
<1> \A a \in Actors : actor[a].at = "store" => actor[a].then # "store"
  BY DEF IoPlace, ThreadPlace, Event, Inside
<1> USE DEF Delivered, OutInv, NewInv, Alone, SameCall, Event, Inside
<1>1. ASSUME NEW a \in Actors, EnterDispatch(a) PROVE Delivered'
  BY <1>1, EnterDoes
<1>2. ASSUME NEW a \in Actors, HandlePages(a) PROVE Delivered'
  BY <1>2, PagesDoes
<1>3. ASSUME NEW a \in Actors, NEW ok \in BOOLEAN, Enhance(a, ok) PROVE Delivered'
  BY <1>3, EnhanceDoes
<1>4. ASSUME NEW a \in Actors, FinalizeTwainScanTask(a) PROVE Delivered'
  BY <1>4, FinalizeDoes
<1>5. ASSUME NEW a \in Actors, PublishConverting(a) PROVE Delivered'
  BY <1>5, PublishDoes
<1>6. ASSUME NEW a \in Actors, NEW ok \in BOOLEAN, ConvertPages(a, ok) PROVE Delivered'
  BY <1>6, ConvertDoes
<1>7. ASSUME NEW a \in Actors, StoreSnapshot(a) PROVE Delivered'
  BY <1>7, StoreDoes
<1>8. ASSUME NEW t \in Scans, ScanRuns(t) PROVE Delivered'
  BY <1>8, RunsDoes
<1>9. ASSUME NEW t \in Scans, ScanCompletes(t) PROVE Delivered'
  BY <1>9, CompletesDoes
<1>10. ASSUME NEW t \in Scans, ScanCancelled(t) PROVE Delivered'
  BY <1>10, CancelledDoes
<1>11. ASSUME NEW t \in Scans, ScanRequest(t) PROVE Delivered'
  BY <1>11, RequestDoes
<1>12. ASSUME NEW t \in Scans, TwainScanGet(t) PROVE Delivered'
  BY <1>12, GetDoes
<1>13. ASSUME NEW t \in Scans, ScanCancel(t) PROVE Delivered'
  BY <1>13, CancelDoes
<1>14. CASE CloseConnection
  BY <1>14, CloseDoes
<1>15. CASE LockStorage
  BY <1>15, LockDoes
<1>16. CASE ProviderScan
  BY <1>16, InsertDoes
<1>17. CASE ScanReply
  BY <1>17, ReplyDoes
<1>18. CASE ProviderGetScan
  BY <1>18, GetScanDoes
<1>19. CASE CancelScan
  BY <1>19, CancelScanDoes
<1>20. CASE MarkCancelled
  BY <1>20, MarkDoes
<1>21. CASE KeepCancelResult
  BY <1>21, KeepDoes
<1>22. CASE WaitForEnd
  BY <1>22, WaitDoes
<1>23. ASSUME NEW t \in Scans, CancelNext(t) PROVE Delivered'
  BY <1>23, NextDoes
<1>24. ASSUME NEW t \in Scans, PollNext(t) PROVE Delivered'
  BY <1>24, PollDoes
<1>25. CASE UNCHANGED scanVars
  BY <1>25 DEF scanVars, closeVars
<1> HIDE DEF Delivered, OutInv, NewInv, Alone, SameCall, Event, Inside
<1>26. ASSUME NEW a \in Actors, DispatchStep(a) PROVE Delivered'
  BY <1>26, <1>1, <1>2, <1>3, <1>4, <1>5, <1>6, <1>7 DEF DispatchStep
<1>27. CASE Request
  BY <1>27, <1>11, <1>12, <1>13, <1>14 DEF Request
<1>28. CASE IoStep
  BY <1>28, <1>15, <1>16, <1>17, <1>18, <1>19, <1>20, <1>21, <1>22, <1>23, <1>24, <1>26
     DEF IoStep
<1>29. ASSUME NEW t \in Scans, ThreadStep(t) PROVE Delivered'
  BY <1>29, <1>8, <1>9, <1>10, <1>26 DEF ThreadStep
<1> QED BY <1>25, <1>27, <1>28, <1>29 DEF ScanNext

-----------------------------------------------------------------------------
(* The theorems.                                                           *)

\* A connection that has gone does not come back.
LEMMA StaysGone ==
  ASSUME [ScanNext]_scanVars, present'
  PROVE  present
BY DEF ScanNext, Request, IoStep, ThreadStep, DispatchStep, EnterDispatch, HandlePages, Enhance,
       FinalizeTwainScanTask, PublishConverting, ConvertPages, StoreSnapshot, ScanRuns,
       ScanCompletes, ScanCancelled, ScanRequest, TwainScanGet, ScanCancel, CloseConnection,
       LockStorage, ProviderScan, ScanReply, ProviderGetScan, CancelScan, MarkCancelled,
       KeepCancelResult, WaitForEnd, CancelNext, PollNext, scanVars, closeVars

\* While the connection is there, documents are what is delivered.
LEMMA ConvertedKept ==
  ASSUME ScanInv, [ScanNext]_scanVars
  PROVE  ConvertedInv'
<1> SUFFICES ASSUME present' PROVE Delivered'
  BY DEF ConvertedInv
<1>1. present
  BY StaysGone
<1>2. Delivered
  BY <1>1 DEF ScanInv, ConvertedInv
<1>3. actor["io"].op # "close"
  BY <1>1 DEF ScanInv, IoPlace
<1> QED BY <1>2, <1>3, DeliveredKept DEF ScanInv

\* The invariant holds at the start.
LEMMA ScanInvInit ==
  ASSUME ScanInit
  PROVE  ScanInv
<1> /\ "io" \in Actors /\ Scans \subseteq Actors /\ "io" \notin Scans /\ Nobody \notin Scans
   /\ Nobody # "io" /\ Actors = Scans \cup {"io"} /\ SaneTasks \subseteq Scans
  BY ScanAssumption DEF Actors, Scans, Nobody
<1>1. /\ NoTask \in Snapshot /\ NoTask.status = "none" /\ NoTask.out = "none"
      /\ \A b \in Scans \cup {Nobody} :
           /\ Idle(b) \in ActorSet /\ Idle(b).op = "none" /\ Idle(b).task = b
           /\ Idle(b).at = "idle" /\ Idle(b).then = "idle" /\ Idle(b).snap = NoTask
  <2>1. NoTask \in Snapshot /\ NoTask.status = "none" /\ NoTask.out = "none"
    BY DEF NoTask, Snapshot
  <2> QED BY <2>1 DEF Idle, ActorSet, Places
<1>2. /\ actor \in [Actors -> ActorSet]
      /\ actor["io"] = Idle(Nobody) /\ \A t \in Scans : actor[t] = Idle(t)
  BY <1>1 DEF ScanInit
<1>3. /\ prov \in [Scans -> Snapshot] /\ \A t \in Scans : prov[t] = NoTask
      /\ table \in [Scans -> Snapshot] /\ \A t \in Scans : table[t] = NoTask
      /\ document = {} /\ enhanced = {} /\ todo = {} /\ waitFor = {} /\ polls = 0
      /\ storage = Nobody /\ provMu = [k \in {"sane", "twain"} |-> Nobody]
  BY <1>1 DEF ScanInit
<1>4. present \in BOOLEAN
  BY DEF ScanInit
<1>5. ScanTypeOK
  BY <1>2, <1>3, <1>4, ScanAssumption DEF ScanTypeOK
<1>6. \A a \in Actors : /\ actor[a].at = "idle" /\ actor[a].snap.status = "none"
                       /\ actor[a].then = "idle" /\ actor[a].op = "none"
  BY <1>1, <1>2
<1>7. \A t \in Scans : actor[t].task = t /\ actor["io"].task = Nobody
  BY <1>1, <1>2
<1>8. ThreadPlace
  BY <1>6, <1>7 DEF ThreadPlace, Event, Inside
<1>9. IoPlace
  BY <1>6, <1>7 DEF IoPlace, Cancelling, Event, Inside
<1>10. KindPlace
  BY <1>6 DEF KindPlace
<1>11. StorageInv
  BY <1>3, <1>6 DEF StorageInv, Cancelling, Inside
<1>12. ProvMuInv
  BY <1>6 DEF ProvMuInv, Cancelling
<1>13. NewInv
  BY <1>3, <1>6, <1>7 DEF NewInv
<1>14. ThreadInv
  BY <1>1, <1>3, <1>6 DEF ThreadInv, Event, Inside
<1>15. SnapInv
  BY <1>6 DEF SnapInv, Event, Inside
<1>16. TwainInv
  BY <1>1, <1>3, <1>6 DEF TwainInv, Begun, Scans
<1>17. SettleInv
  BY <1>6, <1>7 DEF SettleInv, Event, Inside
<1>18. OutInv
  BY <1>1, <1>3, <1>6 DEF OutInv
<1>19. ConvertedInv
  BY <1>3, <1>6 DEF ConvertedInv, Delivered
<1> QED BY <1>5, <1>8, <1>9, <1>10, <1>11, <1>12, <1>13, <1>14, <1>15, <1>16, <1>17, <1>18,
           <1>19 DEF ScanInv

\* Every step keeps the invariant.
LEMMA ScanInvKept ==
  ASSUME ScanInv, [ScanNext]_scanVars
  PROVE  ScanInv'
<1> USE DEF ScanInv
<1> QED BY TypeKept, ThreadsInPlace, IoInPlace, KindsInPlace, StorageKept, ProvMuKept, NewKept,
           ThreadKept, SnapKept, TwainKept, SettleKept, OutKept, ConvertedKept

\* The invariant of the scans holds for any scans and any number of polls.
THEOREM ScanInvariant == ScanSpec => []ScanInv
<1> QED BY ScanInvInit, ScanInvKept, PTL DEF ScanSpec

\* Every variable of the scan tasks keeps its type.
THEOREM ScanTypeCorrect == ScanSpec => []ScanTypeOK
<1>1. ScanInv => ScanTypeOK
  BY DEF ScanInv
<1> QED BY <1>1, ScanInvariant, PTL

\* A SANE scan whose thread has ended never looks unfinished once no event of it is on its
\* way: the stale snapshot of CancelScan's event cannot replace the last one.
THEOREM SaneScansSettle == ScanSpec => []SaneSettles
<1>1. ScanInv => SaneSettles
  <2> SUFFICES ASSUME ScanInv, NEW t \in SaneTasks, actor[t].at = "ended", storage = Nobody
               PROVE  IsTwainTaskTerminal(table[t])
    BY DEF SaneSettles, At
  <2>1. Nobody # "io"
    BY DEF Nobody
  <2> QED BY <2>1 DEF ScanInv, SettleInv
<1> QED BY <1>1, ScanInvariant, PTL

\* While its connection is there, a completed document scan shows its document, never the
\* scanned pages it was made from.
THEOREM DocumentsConverted == ScanSpec => []CompletedMeansConverted
<1>1. ScanInv => CompletedMeansConverted
  BY DEF ScanInv, ConvertedInv, Delivered, CompletedMeansConverted
<1> QED BY <1>1, ScanInvariant, PTL

\* A TWAIN scan that may still write files counts as active, so that the clean-up of the
\* temporary files is refused.
THEOREM TwainStaysBusy == ScanSpec => []TwainBusyUntilWritten
<1>1. ScanInv => TwainBusyUntilWritten
  <2> SUFFICES ASSUME ScanInv, NEW t \in TwainTasks, prov[t].status = "running"
               PROVE  IsTwainTaskActiveForStorage(table[t])
    BY DEF TwainBusyUntilWritten
  <2>1. actor[t].at # "idle"
    BY DEF ScanInv, ThreadInv, Scans
  <2>2. table[t].status \in {"queued", "running"}
    BY <2>1 DEF ScanInv, TwainInv, Begun
  <2> QED BY <2>2 DEF IsTwainTaskActiveForStorage
<1> QED BY <1>1, ScanInvariant, PTL
=============================================================================
