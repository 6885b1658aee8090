-------------------------- MODULE ImageEnhanceTask --------------------------
(***************************************************************************)
(* application/image_enhance_task_service.cpp: one worker thread per       *)
(* enhancement task runs the steps of its pipeline, converts the pages and *)
(* confirms the quota of the online steps it used; command requests start, *)
(* cancel and clean tasks up (HandleStorageCleanupTemp) meanwhile.         *)
(*                                                                         *)
(* Each step of a worker is one critical section on mu_ or one provider    *)
(* call.  Pages are counted, their content is left out; a task's output    *)
(* files are either on the disk or not.                                    *)
(***************************************************************************)
EXTENDS Naturals, Sequences

CONSTANTS
  MaxTasks,    \* bound on next_task_seq_, for model checking
  MaxPages,    \* bound on the pages of a request or of a step's result
  Pipelines    \* the lists of enabled steps clients send: [type, skip]

Tasks == 1..MaxTasks
Online == {"doc_crop_enhance", "remove_handwriting", "doc_repair", "remove_moire"}

NormalizeOnlineEnhanceCapability(type) ==
  CASE type = "document_rectify_enhance" -> "doc_crop_enhance"
    [] type = "remove_background_texture" -> "doc_repair"
    [] OTHER -> type

Ended == {"completed", "failed", "cancelled"}

ASSUME ImageEnhanceAssumption ==
  /\ MaxTasks \in Nat \ {0}
  /\ \A p \in Pipelines : p \in Seq([type : STRING, skip : BOOLEAN])
  /\ MaxPages \in Nat \ {0}

VARIABLES
  nextTask,   \* next_task_seq_
  status,     \* of a task in tasks_, "none" when it is not there
  cancelled,  \* cancel_requested_
  active,     \* active_worker_task_ids_
  pipeline,   \* request.pipeline.steps
  pc,         \* where a task's worker is, "none" before it starts and after it ended
  step,       \* its loop counter
  pages,      \* how many pages it has
  usage,      \* online_usage_by_capability: the units its successful online steps cost
  unpaid,     \* capabilities still to be confirmed
  final,      \* the status of final_task
  charged,    \* the units the auth provider has charged for a task
  outputs,    \* tasks whose output files are on the disk
  lost,       \* history: tasks whose files a cleanup removed before it failed
  cleaning    \* is a cleanup between deleting files and forgetting tasks?

local == <<pipeline, step, pages, usage, unpaid, final>>
vars == <<nextTask, status, cancelled, active, pc, local, charged, outputs, lost, cleaning>>

TypeOK ==
  /\ nextTask \in 1..(MaxTasks + 1)
  /\ status \in [Tasks -> {"none", "queued", "running"} \cup Ended]
  /\ cancelled \subseteq Tasks
  /\ active \subseteq Tasks
  /\ pipeline \in [Tasks -> Pipelines \cup {<<>>}]
  /\ pc \in [Tasks -> {"none", "start", "next", "run", "convert", "confirm", "store", "exit"}]
  /\ step \in [Tasks -> Nat]
  /\ \A t \in Tasks : step[t] \in 1..(Len(pipeline[t]) + 1)
  /\ pages \in [Tasks -> 0..MaxPages]
  /\ usage \in [Tasks -> [Online -> Nat]]
  /\ unpaid \in [Tasks -> SUBSET Online]
  /\ final \in [Tasks -> {"none", "completed", "failed"}]
  /\ charged \in [Tasks -> [Online -> Nat]]
  /\ outputs \subseteq Tasks /\ lost \subseteq Tasks
  /\ cleaning \in BOOLEAN

NoUnits == [c \in Online |-> 0]

Init ==
  /\ nextTask = 1
  /\ status = [t \in Tasks |-> "none"]
  /\ cancelled = {} /\ active = {}
  /\ pipeline = [t \in Tasks |-> <<>>]
  /\ pc = [t \in Tasks |-> "none"]
  /\ step = [t \in Tasks |-> 1]
  /\ pages = [t \in Tasks |-> 0]
  /\ usage = [t \in Tasks |-> NoUnits] /\ unpaid = [t \in Tasks |-> {}]
  /\ final = [t \in Tasks |-> "none"]
  /\ charged = [t \in Tasks |-> NoUnits]
  /\ outputs = {} /\ lost = {} /\ cleaning = FALSE

Goto(t, at) == pc' = [pc EXCEPT ![t] = at]
SetStatus(t, s) == status' = [status EXCEPT ![t] = s]

(***************************************************************************)
(* Command requests: one at a time, on the io thread.                      *)
(***************************************************************************)

\* The task, its active entry and its worker are registered under one lock.
StartTask(p, n) ==
  /\ ~cleaning /\ nextTask <= MaxTasks
  /\ nextTask' = nextTask + 1
  /\ SetStatus(nextTask, "queued")
  /\ active' = active \cup {nextTask}
  /\ pipeline' = [pipeline EXCEPT ![nextTask] = p]
  /\ pages' = [pages EXCEPT ![nextTask] = n]
  /\ Goto(nextTask, "start")
  /\ UNCHANGED <<cancelled, step, usage, unpaid, final, charged, outputs, lost, cleaning>>

\* Accepted in any status; only a queued task changes its status here.
CancelTask(t) ==
  /\ ~cleaning /\ status[t] # "none"
  /\ cancelled' = cancelled \cup {t}
  /\ IF status[t] = "queued" THEN SetStatus(t, "cancelled") ELSE UNCHANGED status
  /\ UNCHANGED <<nextTask, active, pc, local, charged, outputs, lost, cleaning>>

\* Mutant: a task that shows as ended lets its directory be emptied.
CleanupTempByStatus ==
  /\ ~cleaning /\ \A t \in Tasks : status[t] \notin {"queued", "running"}
  /\ outputs' = {}
  /\ cleaning' = TRUE
  /\ UNCHANGED <<nextTask, status, cancelled, active, pc, local, charged, lost>>

\* Rejected while a worker is active; else the provider deletes the temporary files.
CleanupTemp ==
  /\ ~cleaning /\ active = {}
  /\ outputs' = {}
  /\ cleaning' = TRUE
  /\ UNCHANGED <<nextTask, status, cancelled, active, pc, local, charged, lost>>

\* The provider fails after it has removed any of the files: the tasks stay as they are.
CleanupTempFails ==
  /\ ~cleaning /\ active = {}
  /\ \E removed \in SUBSET outputs :
       /\ outputs' = outputs \ removed
       /\ lost' = lost \cup removed
  /\ UNCHANGED <<nextTask, status, cancelled, active, pc, local, charged, cleaning>>

ClearFinishedTasks ==
  /\ cleaning
  /\ status' = [t \in Tasks |-> IF t \in active THEN status[t] ELSE "none"]
  /\ cancelled' = cancelled \cap active
  /\ cleaning' = FALSE
  /\ UNCHANGED <<nextTask, active, pc, local, charged, outputs, lost>>

(***************************************************************************)
(* The worker of a task.                                                   *)
(***************************************************************************)

\* Mutant: a task cancelled while queued begins.
BeginIgnoresCancel(t) ==
  /\ pc[t] = "start"
  /\ SetStatus(t, "running") /\ Goto(t, "next")
  /\ UNCHANGED <<nextTask, cancelled, active, local, charged, outputs, lost, cleaning>>

Begin(t) ==
  /\ pc[t] = "start"
  /\ IF t \in cancelled
       THEN SetStatus(t, "cancelled") /\ Goto(t, "exit")
       ELSE SetStatus(t, "running") /\ Goto(t, "next")
  /\ UNCHANGED <<nextTask, cancelled, active, local, charged, outputs, lost, cleaning>>

\* A cancellation is looked at before each step, not before the conversion.
NextStep(t) ==
  /\ pc[t] = "next"
  /\ \/ /\ step[t] > Len(pipeline[t])
        /\ Goto(t, "convert") /\ UNCHANGED status
     \/ /\ step[t] <= Len(pipeline[t]) /\ t \notin cancelled
        /\ Goto(t, "run") /\ UNCHANGED status
     \/ /\ step[t] <= Len(pipeline[t]) /\ t \in cancelled
        /\ SetStatus(t, "cancelled") /\ Goto(t, "exit")
  /\ UNCHANGED <<nextTask, cancelled, active, local, charged, outputs, lost, cleaning>>

\* A successful online step costs a unit per page of its result, or of its input.
Units(before, after) ==
  LET amount == IF after = 0 THEN before ELSE after IN IF amount > 0 THEN amount ELSE 1

Used(t, n) ==
  LET cap == NormalizeOnlineEnhanceCapability(pipeline[t][step[t]].type) IN
  [c \in Online |-> IF c = cap THEN usage[t][c] + Units(pages[t], n) ELSE usage[t][c]]

StepSucceeds(t) ==
  /\ pc[t] = "run"
  /\ \E n \in 0..MaxPages :
       /\ pages' = [pages EXCEPT ![t] = n]
       /\ usage' = [usage EXCEPT ![t] = Used(t, n)]
  /\ step' = [step EXCEPT ![t] = @ + 1]
  /\ Goto(t, "next")
  /\ UNCHANGED <<nextTask, status, cancelled, active, pipeline, unpaid, final, charged, outputs, lost, cleaning>>

StepFails(t) ==
  /\ pc[t] = "run"
  /\ IF pipeline[t][step[t]].skip
       THEN Goto(t, "next") /\ step' = [step EXCEPT ![t] = @ + 1] /\ UNCHANGED status
       ELSE SetStatus(t, "failed") /\ Goto(t, "exit") /\ UNCHANGED step
  /\ UNCHANGED <<nextTask, cancelled, active, pipeline, pages, usage, unpaid, final, charged, outputs,
                 lost, cleaning>>

\* The outputs are written; the task shows as completed before its quota is confirmed.
Convert(t) ==
  /\ pc[t] = "convert" /\ pages[t] > 0
  /\ outputs' = outputs \cup {t}
  /\ SetStatus(t, "completed")
  /\ final' = [final EXCEPT ![t] = "completed"]
  /\ unpaid' = [unpaid EXCEPT ![t] = {c \in Online : usage[t][c] > 0}]
  /\ Goto(t, "confirm")
  /\ UNCHANGED <<nextTask, cancelled, active, pipeline, step, pages, usage, charged, lost, cleaning>>

\* No pages, or no output could be written.
ConvertFails(t) ==
  /\ pc[t] = "convert"
  /\ SetStatus(t, "failed")
  /\ Goto(t, "exit")
  /\ UNCHANGED <<nextTask, cancelled, active, local, charged, outputs, lost, cleaning>>

\* Mutant: a refused capability does not fail the task.
ConfirmQuotaIgnoresRefusal(t) ==
  /\ pc[t] = "confirm"
  /\ IF unpaid[t] = {}
       THEN Goto(t, "store") /\ UNCHANGED <<unpaid, charged>>
       ELSE \E c \in unpaid[t] :
              /\ charged' \in {charged, [charged EXCEPT ![t][c] = @ + usage[t][c]]}
              /\ unpaid' = [unpaid EXCEPT ![t] = @ \ {c}]
              /\ UNCHANGED pc
  /\ UNCHANGED <<nextTask, status, cancelled, active, pipeline, step, pages, usage, final, outputs, lost, cleaning>>

\* ConfirmOnlineEnhanceQuota stops at the first capability that is refused.
ConfirmQuota(t) ==
  /\ pc[t] = "confirm"
  /\ IF unpaid[t] = {}
       THEN Goto(t, "store") /\ UNCHANGED <<unpaid, final, charged>>
       ELSE \E c \in unpaid[t] :
              \/ /\ charged' = [charged EXCEPT ![t][c] = @ + usage[t][c]]
                 /\ unpaid' = [unpaid EXCEPT ![t] = @ \ {c}]
                 /\ UNCHANGED <<pc, final>>
              \/ /\ final' = [final EXCEPT ![t] = "failed"]
                 /\ Goto(t, "store")
                 /\ UNCHANGED <<unpaid, charged>>
  /\ UNCHANGED <<nextTask, status, cancelled, active, pipeline, step, pages, usage, outputs, lost, cleaning>>

StoreFinalTask(t) ==
  /\ pc[t] = "store"
  /\ SetStatus(t, final[t])
  /\ Goto(t, "exit")
  /\ UNCHANGED <<nextTask, cancelled, active, local, charged, outputs, lost, cleaning>>

\* Mutant: an exception ends the task but not the worker's registration.
ThrowSkipsExit(t) ==
  /\ pc[t] \in {"run", "convert", "confirm"}
  /\ SetStatus(t, "failed")
  /\ Goto(t, "none")
  /\ UNCHANGED <<nextTask, cancelled, active, local, charged, outputs, lost, cleaning>>

\* A provider call throws: RunTask fails the task.
Throw(t) ==
  /\ pc[t] \in {"run", "convert", "confirm"}
  /\ SetStatus(t, "failed")
  /\ Goto(t, "exit")
  /\ UNCHANGED <<nextTask, cancelled, active, local, charged, outputs, lost, cleaning>>

Exit(t) ==
  /\ pc[t] = "exit"
  /\ active' = active \ {t}
  /\ Goto(t, "none")
  /\ UNCHANGED <<nextTask, status, cancelled, local, charged, outputs, lost, cleaning>>

Worker(t) ==
  \/ Begin(t) \/ NextStep(t) \/ StepSucceeds(t) \/ StepFails(t) \/ Convert(t) \/ ConvertFails(t)
  \/ ConfirmQuota(t) \/ StoreFinalTask(t) \/ Throw(t) \/ Exit(t)

Next ==
  \/ \E p \in Pipelines, n \in 1..MaxPages : StartTask(p, n)
  \/ \E t \in Tasks : CancelTask(t) \/ Worker(t)
  \/ CleanupTemp \/ CleanupTempFails \/ ClearFinishedTasks

Spec == Init /\ [][Next]_vars

\* A worker thread goes on, and its provider calls return.
FairSpec == Spec /\ \A t \in Tasks : WF_vars(Worker(t))

(***************************************************************************)
(* Properties.                                                             *)
(***************************************************************************)

\* A task that shows as completed has its output files, also while its worker still
\* confirms the quota: cleanup waits for the worker's exit, not for the status.  What a
\* cleanup removed before it failed is the exception: the tasks are not cleared then.
CompletedHasOutput ==
  \A t \in Tasks : status[t] = "completed" => t \in outputs \cup lost \/ cleaning

\* A task that stays completed was charged for exactly the units its online steps
\* used; one that never got to its outputs was charged for nothing.
CompletedIsPaid ==
  \A t \in Tasks :
    /\ status[t] = "completed" /\ pc[t] = "none" => charged[t] = usage[t]
    /\ t \notin outputs /\ pc[t] # "none" => charged[t] = NoUnits

\* Cancelled and failed are final, and completed can only turn into failed, while the
\* worker is there: a cancellation never revives a task nor changes its outcome.
OutcomeIsFinal ==
  [][\A t \in Tasks : status[t] \in Ended =>
       \/ status'[t] \in {status[t], "none"}
       \/ status[t] = "completed" /\ pc[t] # "none" /\ status'[t] = "failed"]_vars

\* Every worker exits, whatever fails or throws, so cleanup is not rejected for ever.
WorkersExit == \A t \in Tasks : t \in active ~> t \notin active
=============================================================================
