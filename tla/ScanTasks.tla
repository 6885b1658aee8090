----------------------------- MODULE ScanTasks -----------------------------
(***************************************************************************)
(* SANE and TWAIN scans (application/command_application_service.cpp with  *)
(* the scan providers of providers/mock/mock_provider_factory.cpp).        *)
(*                                                                         *)
(* A scan has two snapshots: the provider's, written by the scan's own     *)
(* thread and by CancelScan under the provider's mu_, and the service's    *)
(* (sane_tasks_, twain_tasks_), written by the provider's events under     *)
(* storage_lifecycle_mu_ and by the command handlers without it.  An event *)
(* also enhances and converts the scanned pages, in the thread it comes    *)
(* from; twain.scan_get does so in the io thread.                          *)
(*                                                                         *)
(* An actor is the io thread or the thread of a scan.  A step is what an   *)
(* actor does under one lock, or one enhancement or conversion.            *)
(***************************************************************************)
EXTENDS Naturals

CONSTANTS
  SaneTasks,   \* the scans a SANE device may be asked for
  TwainTasks,  \* the scans a TWAIN source may be asked for
  Together,    \* bound: the scans of one behaviour are those of a set of these
  MaxPolls     \* how often a close looks for the end of cancelled scans: 20

ASSUME ScanAssumption ==
  /\ SaneTasks \cap TwainTasks = {}
  /\ {"io", "nobody"} \cap (SaneTasks \cup TwainTasks) = {}
  /\ Together \subseteq SUBSET (SaneTasks \cup TwainTasks)
  /\ MaxPolls \in Nat

Scans == SaneTasks \cup TwainTasks
Actors == {"io"} \cup Scans
Nobody == "nobody"

VARIABLES
  document,  \* scans whose output type is pdf, ofd or tiff
  enhanced,  \* SANE scans with an enhancement pipeline
  prov,      \* tasks_ of the providers
  table,     \* sane_tasks_ and twain_tasks_
  storage,   \* who holds storage_lifecycle_mu_
  provMu,    \* who holds mu_ of the SANE and of the TWAIN provider
  actor,     \* what every actor is doing, and the snapshot it carries
  present,   \* the connection that opened the source is still there
  todo,      \* the scans a closing connection has still to handle in this round
  waitFor,   \* the scans it has cancelled
  polls      \* the rounds it has waited

scanVars == <<document, enhanced, prov, table, storage, provMu, actor, present,
              todo, waitFor, polls>>
closeVars == <<present, todo, waitFor, polls>>

Kind(t) == IF t \in SaneTasks THEN "sane" ELSE "twain"
Snapshot == [status : {"none", "queued", "running", "enhancing", "converting",
                       "completed", "failed", "cancelled"},
             cancel : BOOLEAN,                  \* cancel_requested
             out : {"none", "pages", "final"}]  \* output_paths
NoTask == [status |-> "none", cancel |-> FALSE, out |-> "none"]
Queued == [NoTask EXCEPT !.status = "queued"]
IsTwainTaskTerminal(s) == s.status \in {"completed", "failed", "cancelled"}
IsTwainTaskActiveForStorage(s) ==
  \/ s.status \in {"queued", "running", "enhancing", "converting"}
  \/ s.cancel /\ ~IsTwainTaskTerminal(s)
IsTwainDocumentOutputFinal(s) == s.status = "completed" /\ s.out = "final"
IsTwainDocumentConversionInProgress(s) == s.status = "converting" /\ s.out # "none"
ShouldUseCachedTwainDocumentTask(s) ==
  IsTwainDocumentOutputFinal(s) \/ IsTwainDocumentConversionInProgress(s)

Idle(task) == [op |-> "none", task |-> task, at |-> "idle", then |-> "idle", snap |-> NoTask]

ScanInit ==
  /\ document = {} /\ enhanced = {}
  /\ prov = [t \in Scans |-> NoTask]
  /\ table = [t \in Scans |-> NoTask]
  /\ storage = Nobody
  /\ provMu = [k \in {"sane", "twain"} |-> Nobody]
  /\ actor = [a \in Actors |-> Idle(IF a = "io" THEN Nobody ELSE a)]
  /\ present = TRUE
  /\ todo = {} /\ waitFor = {} /\ polls = 0

-----------------------------------------------------------------------------
(* Locks and control points.                                               *)

At(a, place) == actor[a].at = place
TaskOf(a) == actor[a].task
Snap(a) == actor[a].snap
Proceed(a, place, snap) == actor' = [actor EXCEPT ![a].at = place, ![a].snap = snap]
Call(a, place, snap, then) ==
  actor' = [actor EXCEPT ![a].at = place, ![a].snap = snap, ![a].then = then]
IoRests == actor' = [actor EXCEPT !["io"] = Idle(Nobody)]
ProviderFree(t) == provMu[Kind(t)] = Nobody
IoIdle == At("io", "idle")

-----------------------------------------------------------------------------
(* DispatchSaneScanTaskEvent and DispatchTwainScanTaskEvent.               *)

\* The pages of a finished scan are enhanced first, then converted.
AfterPages(t) == IF t \in document THEN "converting" ELSE "completed"

\* The event takes the lifecycle lock; the io thread may hold it already.
EnterDispatch(a) ==
  /\ At(a, "dispatch")
  /\ storage \in {Nobody, a}
  /\ storage' = a
  /\ Proceed(a, IF TaskOf(a) \in SaneTasks THEN "pages" ELSE "finalize", Snap(a))
  /\ UNCHANGED <<document, enhanced, prov, table, provMu, closeVars>>

\* Mutant: the pages of a document scan are reported as its result.
PagesNotConverted(a) ==
  /\ At(a, "pages")
  /\ Proceed(a, "store", Snap(a))
  /\ UNCHANGED <<document, enhanced, prov, table, storage, provMu, closeVars>>

\* SANE: a completed event is published as "enhancing" or "converting" first.
HandlePages(a) ==
  LET t == TaskOf(a)
      done == Snap(a).status = "completed" /\ Snap(a).out # "none"
      stage == IF done /\ t \in enhanced THEN "enhancing"
               ELSE IF done THEN AfterPages(t) ELSE Snap(a).status
  IN
  /\ At(a, "pages")
  /\ IF stage \in {"enhancing", "converting"}
     THEN /\ table' = [table EXCEPT ![t] = [Snap(a) EXCEPT !.status = stage]]
          /\ Proceed(a, stage, Snap(a))
     ELSE UNCHANGED table /\ Proceed(a, "store", Snap(a))
  /\ UNCHANGED <<document, enhanced, prov, storage, provMu, closeVars>>

\* The enhancement steps succeed, or fail the scan.
Enhance(a, ok) ==
  LET t == TaskOf(a) IN
  /\ At(a, "enhancing")
  /\ IF ok /\ t \in document
     THEN /\ table' = [table EXCEPT ![t] = [Snap(a) EXCEPT !.status = "converting"]]
          /\ Proceed(a, "converting", Snap(a))
     ELSE /\ UNCHANGED table
          /\ Proceed(a, "store", IF ok THEN Snap(a) ELSE [Snap(a) EXCEPT !.status = "failed"])
  /\ UNCHANGED <<document, enhanced, prov, storage, provMu, closeVars>>

\* FinalizeTwainScanTask: a document the cache has, or is getting, is not
\* converted again.
FinalizeTwainScanTask(a) ==
  LET t == TaskOf(a)
      wanted == t \in document /\ ~IsTwainDocumentOutputFinal(Snap(a))
  IN
  /\ At(a, "finalize")
  /\ IF wanted /\ ShouldUseCachedTwainDocumentTask(table[t])
     THEN Proceed(a, "store", table[t])
     ELSE Proceed(a, IF wanted /\ Snap(a).status = "completed" /\ Snap(a).out # "none"
                  THEN "publish" ELSE "store", Snap(a))
  /\ UNCHANGED <<document, enhanced, prov, table, storage, provMu, closeVars>>

PublishConverting(a) ==
  LET converting == [Snap(a) EXCEPT !.status = "converting"] IN
  /\ At(a, "publish")
  /\ table' = [table EXCEPT ![TaskOf(a)] = converting]
  /\ Proceed(a, "converting", converting)
  /\ UNCHANGED <<document, enhanced, prov, storage, provMu, closeVars>>

ConvertPages(a, ok) ==
  /\ At(a, "converting")
  /\ Proceed(a, "store", IF ok THEN [Snap(a) EXCEPT !.status = "completed", !.out = "final"]
                      ELSE [Snap(a) EXCEPT !.status = "failed"])
  /\ UNCHANGED <<document, enhanced, prov, table, storage, provMu, closeVars>>

\* The snapshot is stored.  An event then lets go of the lifecycle lock
\* (sane.scan and twain.scan keep theirs until they answer) and CancelScan, or
\* the scan thread that has cancelled, of the provider's; what CancelScan
\* returns is the provider's snapshot, not the one the event has finalized.
StoreSnapshot(a) ==
  LET t == TaskOf(a) IN
  /\ At(a, "store")
  /\ table' = [table EXCEPT ![t] = Snap(a)]
  /\ storage' = IF storage = a /\ actor[a].op # "scan" THEN Nobody ELSE storage
  /\ provMu' = IF provMu[Kind(t)] = a THEN [provMu EXCEPT ![Kind(t)] = Nobody] ELSE provMu
  /\ IF actor[a].then = "idle" THEN IoRests
     ELSE Call(a, actor[a].then, IF actor[a].then = "keep" THEN prov[t] ELSE NoTask, "idle")
  /\ UNCHANGED <<document, enhanced, prov, closeVars>>

DispatchStep(a) ==
  \/ EnterDispatch(a)
  \/ HandlePages(a)
  \/ \E ok \in BOOLEAN : Enhance(a, ok)
  \/ FinalizeTwainScanTask(a)
  \/ PublishConverting(a)
  \/ \E ok \in BOOLEAN : ConvertPages(a, ok)
  \/ StoreSnapshot(a)

-----------------------------------------------------------------------------
(* The thread of a scan.                                                   *)

ScanRuns(t) ==
  LET running == [prov[t] EXCEPT !.status = "running"] IN
  /\ At(t, "started")
  /\ ProviderFree(t)
  /\ prov' = [prov EXCEPT ![t] = running]
  /\ Call(t, "dispatch", running, "scanning")
  /\ UNCHANGED <<document, enhanced, table, storage, provMu, closeVars>>

\* The scan is over: its event is sent after mu_ has been released.
ScanCompletes(t) ==
  LET completed == [prov[t] EXCEPT !.status = "completed", !.out = "pages"] IN
  /\ At(t, "scanning")
  /\ ProviderFree(t)
  /\ ~prov[t].cancel
  /\ prov' = [prov EXCEPT ![t] = completed]
  /\ Call(t, "dispatch", completed, "ended")
  /\ UNCHANGED <<document, enhanced, table, storage, provMu, closeVars>>

\* The scan was cancelled: its event is sent while mu_ is held.
ScanCancelled(t) ==
  LET cancelled == [prov[t] EXCEPT !.status = "cancelled"] IN
  /\ At(t, "scanning")
  /\ ProviderFree(t)
  /\ prov[t].cancel
  /\ prov' = [prov EXCEPT ![t] = cancelled]
  /\ provMu' = [provMu EXCEPT ![Kind(t)] = t]
  /\ Call(t, "dispatch", cancelled, "ended")
  /\ UNCHANGED <<document, enhanced, table, storage, closeVars>>

ThreadStep(t) ==
  \/ ScanRuns(t)
  \/ ScanCompletes(t)
  \/ ScanCancelled(t)
  \/ DispatchStep(t)

-----------------------------------------------------------------------------
(* The command handlers, in the io thread.                                 *)

Accept(op, t, place) ==
  actor' = [actor EXCEPT !["io"] = [op |-> op, task |-> t, at |-> place,
                                    then |-> "idle", snap |-> NoTask]]

\* sane.scan and twain.scan.
ScanRequest(t) ==
  /\ IoIdle /\ present
  /\ prov[t] = NoTask
  /\ \E S \in Together : {u \in Scans : prov[u] # NoTask} \cup {t} \subseteq S
  /\ document' \in {document, document \cup {t}}
  /\ enhanced' \in {enhanced, enhanced \cup ({t} \cap SaneTasks)}
  /\ Accept("scan", t, "lock")
  /\ UNCHANGED <<prov, table, storage, provMu, closeVars>>

LockStorage ==
  /\ At("io", "lock")
  /\ storage = Nobody
  /\ storage' = "io"
  /\ Proceed("io", "insert", NoTask)
  /\ UNCHANGED <<document, enhanced, prov, table, provMu, closeVars>>

ProviderScan ==
  LET t == TaskOf("io") IN
  /\ At("io", "insert")
  /\ ProviderFree(t)
  /\ prov' = [prov EXCEPT ![t] = Queued]
  /\ Call("io", "dispatch", Queued, "reply")
  /\ UNCHANGED <<document, enhanced, table, storage, provMu, closeVars>>

\* Mutant: the answer is sent with the lifecycle lock still held.
StillLocked == "io"

\* HandleRequest gives the lock back when the handler has answered.
AfterReply == Nobody

\* The provider starts the thread and the handler stores its task; no event
\* of the thread gets in before the lifecycle lock is released.
ScanReply ==
  LET t == TaskOf("io") IN
  /\ At("io", "reply")
  /\ table' = [table EXCEPT ![t] = Queued]
  /\ storage' = AfterReply
  /\ actor' = [actor EXCEPT ![t].op = "thread", ![t].at = "started", !["io"] = Idle(Nobody)]
  /\ UNCHANGED <<document, enhanced, prov, provMu, closeVars>>

\* twain.scan_get: the cached snapshot once it is terminal, else the
\* provider's.  (sane.scan_get only reads.)
TwainScanGet(t) ==
  /\ IoIdle
  /\ t \in TwainTasks /\ prov[t] # NoTask
  /\ IF IsTwainTaskTerminal(table[t])
     THEN actor' = [actor EXCEPT !["io"] = [op |-> "get", task |-> t, at |-> "finalize",
                                            then |-> "idle", snap |-> table[t]]]
     ELSE Accept("get", t, "get")
  /\ UNCHANGED <<document, enhanced, prov, table, storage, provMu, closeVars>>

ProviderGetScan ==
  /\ At("io", "get")
  /\ ProviderFree(TaskOf("io"))
  /\ Call("io", "finalize", prov[TaskOf("io")], "idle")
  /\ UNCHANGED <<document, enhanced, prov, table, storage, provMu, closeVars>>

\* sane.scan_cancel and twain.scan_cancel.
ScanCancel(t) ==
  /\ IoIdle
  /\ prov[t] # NoTask
  /\ Accept("cancel", t, "cancel")
  /\ UNCHANGED <<document, enhanced, prov, table, storage, provMu, closeVars>>

\* Mutant: CancelScan reports after it has let go of mu_.
CancelScanUnlocked ==
  LET t == TaskOf("io")
      asked == [prov[t] EXCEPT !.cancel = TRUE]
  IN
  /\ At("io", "cancel")
  /\ ProviderFree(t)
  /\ prov' = [prov EXCEPT ![t] = asked]
  /\ Call("io", "dispatch", asked, IF actor["io"].op = "close" THEN "keep" ELSE "mark")
  /\ UNCHANGED <<document, enhanced, table, storage, provMu, closeVars>>

\* CancelScan sends its event while it holds mu_.
CancelScan ==
  LET t == TaskOf("io")
      asked == [prov[t] EXCEPT !.cancel = TRUE]
  IN
  /\ At("io", "cancel")
  /\ ProviderFree(t)
  /\ prov' = [prov EXCEPT ![t] = asked]
  /\ provMu' = [provMu EXCEPT ![Kind(t)] = "io"]
  /\ Call("io", "dispatch", asked, IF actor["io"].op = "close" THEN "keep" ELSE "mark")
  /\ UNCHANGED <<document, enhanced, table, storage, closeVars>>

\* Mutant: twain.scan_cancel calls the scan cancelled at once.
AllCancelled(t) == [table[t] EXCEPT !.status = "cancelled"]

\* What the handler then does to the service's snapshot: a SANE scan is called
\* cancelled, of a TWAIN scan the request is noted.
Marked(t) ==
  IF t \in SaneTasks THEN [table[t] EXCEPT !.status = "cancelled"]
                     ELSE [table[t] EXCEPT !.cancel = TRUE]

MarkCancelled ==
  LET t == TaskOf("io") IN
  /\ At("io", "mark")
  /\ table' = [table EXCEPT ![t] = Marked(t)]
  /\ IoRests
  /\ UNCHANGED <<document, enhanced, prov, storage, provMu, closeVars>>

-----------------------------------------------------------------------------
(* OnConnectionClosed: the unfinished TWAIN scans of its sessions are      *)
(* cancelled, and it waits a while for their end before it closes the      *)
(* sources.                                                                *)

Unfinished == {t \in TwainTasks : table[t] # NoTask /\ ~IsTwainTaskTerminal(table[t])}

CloseConnection ==
  /\ IoIdle /\ present
  /\ present' = FALSE
  /\ todo' = Unfinished /\ waitFor' = Unfinished /\ polls' = 0
  /\ Accept("close", Nobody, "cancelNext")
  /\ UNCHANGED <<document, enhanced, prov, table, storage, provMu>>

CancelNext(t) ==
  /\ At("io", "cancelNext")
  /\ t \in todo
  /\ todo' = todo \ {t}
  /\ Accept("close", t, "cancel")
  /\ UNCHANGED <<document, enhanced, prov, table, storage, provMu, present, waitFor, polls>>

\* What CancelScan returned replaces the snapshot its event has stored.
KeepCancelResult ==
  LET t == TaskOf("io") IN
  /\ At("io", "keep")
  /\ table' = [table EXCEPT ![t] = Snap("io")]
  /\ Proceed("io", "cancelNext", NoTask)
  /\ UNCHANGED <<document, enhanced, prov, storage, provMu, closeVars>>

PollsUsedUp == polls = MaxPolls

\* WaitTwainTasksTerminal looks at the table, at most MaxPolls times.
WaitForEnd ==
  /\ \/ At("io", "cancelNext")
     \/ At("io", "pollNext")
  /\ todo = {}
  /\ IF PollsUsedUp \/ \A t \in waitFor : IsTwainTaskTerminal(table[t])
     THEN /\ IoRests
          /\ waitFor' = {} /\ polls' = 0
          /\ UNCHANGED todo
     ELSE /\ Accept("close", Nobody, "pollNext")
          /\ todo' = waitFor
          /\ polls' = polls + 1
          /\ UNCHANGED waitFor
  /\ UNCHANGED <<document, enhanced, prov, table, storage, provMu, present>>

PollNext(t) ==
  /\ At("io", "pollNext")
  /\ t \in todo
  /\ ProviderFree(t)
  /\ todo' = todo \ {t}
  /\ actor' = [actor EXCEPT !["io"] = [op |-> "close", task |-> t, at |-> "store",
                                       then |-> "pollNext", snap |-> prov[t]]]
  /\ UNCHANGED <<document, enhanced, prov, table, storage, provMu, present, waitFor, polls>>

-----------------------------------------------------------------------------
Request ==
  \/ \E t \in Scans : ScanRequest(t) \/ TwainScanGet(t) \/ ScanCancel(t)
  \/ CloseConnection

IoStep ==
  \/ LockStorage
  \/ ProviderScan
  \/ ScanReply
  \/ ProviderGetScan
  \/ CancelScan
  \/ MarkCancelled
  \/ KeepCancelResult
  \/ WaitForEnd
  \/ \E t \in Scans : CancelNext(t) \/ PollNext(t)
  \/ DispatchStep("io")

ScanNext == Request \/ IoStep \/ \E t \in Scans : ThreadStep(t)

\* A thread that can run runs; a scan thread that finds its mutex free again
\* and again gets it in the end.
Fairness == WF_scanVars(IoStep) /\ \A t \in Scans : SF_scanVars(ThreadStep(t))

ScanSpec == ScanInit /\ [][ScanNext]_scanVars /\ Fairness

-----------------------------------------------------------------------------
(* Properties.                                                             *)

Places == {"idle", "dispatch", "pages", "enhancing", "finalize", "publish", "converting",
           "store", "started", "scanning", "ended", "lock", "insert", "reply", "get",
           "cancel", "mark", "keep", "cancelNext", "pollNext"}

ActorSet ==
  [op : {"none", "scan", "get", "cancel", "close", "thread"}, task : Scans \cup {Nobody},
   at : Places, then : Places, snap : Snapshot]

\* Every variable has its type.
ScanTypeOK ==
  /\ document \subseteq Scans /\ enhanced \subseteq SaneTasks
  /\ prov \in [Scans -> Snapshot] /\ table \in [Scans -> Snapshot]
  /\ storage \in Actors \cup {Nobody}
  /\ provMu \in [{"sane", "twain"} -> Actors \cup {Nobody}]
  /\ actor \in [Actors -> ActorSet]
  /\ present \in BOOLEAN
  /\ todo \subseteq TwainTasks /\ waitFor \subseteq TwainTasks
  /\ polls \in 0..MaxPolls

\* A SANE scan does not look unfinished after its end: once its thread has
\* ended and no event of it is on its way, its snapshot is terminal, so it
\* cannot block storage.cleanup_temp for ever.  CancelScan's event, which
\* carries an older snapshot, must therefore not be overtaken.
SaneSettles ==
  \A t \in SaneTasks :
    At(t, "ended") /\ storage = Nobody => IsTwainTaskTerminal(table[t])

\* While its connection is there, a completed document scan never shows the
\* scanned pages as its result.
CompletedMeansConverted ==
  present => \A t \in document : table[t].status = "completed" => table[t].out = "final"

\* As long as a TWAIN scan may still write files, its snapshot counts as
\* active and storage.cleanup_temp is refused, cancelled or not.
TwainBusyUntilWritten ==
  \A t \in TwainTasks :
    prov[t].status = "running" => IsTwainTaskActiveForStorage(table[t])

\* The thread of a cancelled scan sends its last event with the provider's mutex held, and
\* a request for another scan of that provider asks for the mutex with the lifecycle lock
\* held: each has what the other waits for.
LocksCrossed ==
  \E t \in Scans :
    /\ provMu[Kind(t)] = t /\ At(t, "dispatch")
    /\ storage = "io" /\ At("io", "insert") /\ Kind(TaskOf("io")) = Kind(t)

\* Every scan that was started ends, whatever is cancelled, polled or closed in between:
\* time and again none is under way.  The only thing that can keep one from its end, and
\* then for ever, is the crossing of the two locks by two scans of one provider.
ScansEnd == []<>((\A t \in Scans : At(t, "idle") \/ At(t, "ended")) \/ LocksCrossed)

=============================================================================
