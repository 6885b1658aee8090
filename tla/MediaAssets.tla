----------------------------- MODULE MediaAssets -----------------------------
(***************************************************************************)
(* Image assets and the storage lifecycle                                  *)
(* (application/command_application_service.cpp): uploads over HTTP, the   *)
(* commands that turn images into other files, the table of the files a    *)
(* client may fetch, and the cleanup that empties the work directory.      *)
(*                                                                         *)
(* The commands run on the io thread.  Uploads and downloads run on HTTP   *)
(* threads, a scan reports from a thread of its provider, and an OCR       *)
(* provider may work on after it has answered.  storage_lifecycle_mu_ is   *)
(* taken by the commands that write, by uploads and by scan events; a      *)
(* cleanup only tries it.  Formats, paths and messages are left out: a     *)
(* file is named by its task and what it is, and files that no asset ever  *)
(* names (a decoded payload, the rest of a write that failed) are not      *)
(* followed.  A connection that closes leaves all of this as it is.        *)
(***************************************************************************)
EXTENDS Integers, FiniteSets

CONSTANTS
  Conns,      \* connections
  Uploaders,  \* HTTP threads that receive a file
  Readers,    \* HTTP threads that send one
  MaxTasks    \* bound on the task ids drawn, for model checking

\* An HTTP thread is not the io thread.
ASSUME MediaAssumption == MaxTasks \in Nat /\ {"free", "io"} \cap Uploaders = {}

NoTask == 0
NoConn == "none"
Tasks == 1..MaxTasks

ImageMethods == {"image.process", "image.process_page", "image.apply_color_mode", "file.convert"}
IsStorageWritingMethod(op) == op \in ImageMethods \cup {"ocr.recognize", "scan"}
ReadingMethods == {"ocr.extract_text", "recognition.barcode_detect"}

\* What a file is to its task: an upload, an output of a command (which may have two), the
\* result of an OCR task or of a scan.
Outputs(op) == IF op = "image.apply_color_mode" THEN {"output"} ELSE {"output", "output-2"}
Kinds == {"original", "output", "output-2", "ocr", "scan"}

\* A raw file is a page the provider wrote in a format other than the input's.
File(t, kind) == [task |-> t, kind |-> kind, raw |-> FALSE]
Raw(t, kind) == [task |-> t, kind |-> kind, raw |-> TRUE]

VARIABLES
  lock,      \* storage_lifecycle_mu_: who holds it
  files,     \* the files below the work directory
  assets,    \* image_assets_by_task_
  owner,     \* image_asset_connection_by_task_
  nextSeq,   \* next_image_task_seq_; the providers' own ids are drawn from it, too
  io,        \* the request the io thread is in
  upload,    \* the upload each HTTP thread is in
  reading,   \* the download each HTTP thread is in
  ocr,       \* the OCR provider's tasks
  scans,     \* sane_tasks_ and twain_tasks_, with the place of the scan thread
  lost       \* history: the assets' files that cleanups which failed have removed,
             \* and nobody has written again; only the properties read it

vars == <<lock, files, assets, owner, nextSeq, io, upload, reading, ocr, scans, lost>>
tables == <<assets, owner>>

IoIdle == [op |-> "idle", at |-> "idle", conn |-> NoConn, task |-> NoTask,
           inputs |-> {}, own |-> FALSE, todo |-> {}, raw |-> {}]
UploadIdle == [at |-> "idle", conn |-> NoConn, task |-> NoTask]
ReadIdle == [at |-> "idle", task |-> NoTask, kind |-> "none", late |-> FALSE]
ScanIdle == [at |-> "none", conn |-> NoConn]

Init ==
  /\ lock = "free"
  /\ files = {}
  /\ assets = [t \in Tasks |-> {}]
  /\ owner = [t \in Tasks |-> NoConn]
  /\ nextSeq = 1
  /\ io = IoIdle
  /\ upload = [u \in Uploaders |-> UploadIdle]
  /\ reading = [r \in Readers |-> ReadIdle]
  /\ ocr = [t \in Tasks |-> "none"]
  /\ scans = [t \in Tasks |-> ScanIdle]
  /\ lost = {}

RegisterImageAsset(c, t, kind) ==
  /\ owner' = [owner EXCEPT ![t] = c]
  /\ assets' = [assets EXCEPT ![t] = @ \cup {kind}]

ResolveImageAsset(c, t, kind) == owner[t] = c /\ kind \in assets[t]

\* The files that a client may fetch.
Named == {f \in files : ~f.raw /\ f.kind \in assets[f.task]}

\* The guard of holder goes out of scope, if it has the lock.
Released(holder) == IF lock = holder THEN "free" ELSE lock

Reply ==
  /\ io' = IoIdle
  /\ lock' = Released("io")

\* What a step writes is there again.
Rewritten == lost' = lost \ files'

(* Commands that read and write images.                                    *)

\* An input is an upload of the connection or a file of the client's own.
Receive(c, op, inputs, own) ==
  /\ io = IoIdle
  /\ own <=> inputs = {} \/ (own /\ op = "file.convert")
  /\ Cardinality(inputs) > 1 => op \in {"file.convert", "ocr.recognize"}
  /\ io' = [IoIdle EXCEPT !.op = op, !.conn = c, !.inputs = inputs, !.own = own,
                          !.at = IF IsStorageWritingMethod(op) THEN "lock" ELSE "resolve"]
  /\ UNCHANGED <<lock, files, tables, nextSeq, upload, reading, ocr, scans, lost>>

LockStorage ==
  /\ io.at = "lock" /\ lock = "free"
  /\ lock' = "io"
  /\ io' = [io EXCEPT !.at = IF io.op = "scan" THEN "scan" ELSE "resolve"]
  /\ UNCHANGED <<files, tables, nextSeq, upload, reading, ocr, scans, lost>>

\* RequireCapability, RequireFeatureEntitlement and the checks of the parameters come
\* before and refuse without a trace in this module's state.
RefuseRequest ==
  /\ io.at \in {"resolve", "scan"}
  /\ Reply
  /\ UNCHANGED <<files, tables, nextSeq, upload, reading, ocr, scans, lost>>

\* Results join the task of the upload they were made of; otherwise an id is drawn.  Of
\* several inputs of file.convert one may be named as input_upload_id.
TaskChoices ==
  IF io.op \notin ImageMethods \/ io.inputs = {} THEN {nextSeq}
  ELSE IF io.op = "file.convert" THEN io.inputs \cup {nextSeq}
  ELSE io.inputs

\* An id must be left, which is a bound of the model.
ResolveInputs ==
  /\ io.at = "resolve"
  /\ \A t \in io.inputs : ResolveImageAsset(io.conn, t, "original")
  /\ io.op \in ReadingMethods \/ TaskChoices \cap Tasks # {}
  /\ io' = [io EXCEPT !.at = "task"]
  /\ UNCHANGED <<lock, files, tables, nextSeq, upload, reading, ocr, scans, lost>>

ChooseTask ==
  /\ io.at = "task"
  /\ IF io.op \in ReadingMethods
     THEN /\ io' = [io EXCEPT !.at = "exists"]
          /\ UNCHANGED nextSeq
     ELSE \E t \in TaskChoices \cap Tasks :
            /\ nextSeq' = IF t = nextSeq THEN nextSeq + 1 ELSE nextSeq
            /\ io' = [io EXCEPT !.at = "exists", !.task = t]
  /\ UNCHANGED <<lock, files, tables, upload, reading, ocr, scans, lost>>

\* FileExists for every input.
InputsExist ==
  /\ io.at = "exists"
  /\ IF \A t \in io.inputs : File(t, "original") \in files
     THEN /\ io' = [io EXCEPT !.at = "provider"]
          /\ UNCHANGED lock
     ELSE Reply
  /\ UNCHANGED <<files, tables, nextSeq, upload, reading, ocr, scans, lost>>

\* The directory cannot be made, the provider fails, or a client's own input is not there.
ProviderFails ==
  /\ io.at \in {"exists", "provider"}
  /\ Reply
  /\ UNCHANGED <<files, tables, nextSeq, upload, reading, ocr, scans, lost>>

\* ocr.extract_text and recognition.barcode_detect answer with what they found.
ProviderReads ==
  /\ io.at = "provider" /\ io.op \in ReadingMethods
  /\ Reply
  /\ UNCHANGED <<files, tables, nextSeq, upload, reading, ocr, scans, lost>>

ProviderWrites ==
  /\ io.at = "provider" /\ io.op \in ImageMethods
  /\ \E kinds \in SUBSET Outputs(io.op), raw \in SUBSET Outputs(io.op) :
       /\ kinds # {} /\ raw \subseteq kinds
       /\ raw # {} => io.op = "image.process_page"
       /\ files' = files \cup {File(io.task, k) : k \in kinds \ raw}
                         \cup {Raw(io.task, k) : k \in raw}
       /\ io' = [io EXCEPT !.at = "register", !.todo = kinds, !.raw = raw]
  /\ Rewritten
  /\ UNCHANGED <<lock, tables, nextSeq, upload, reading, ocr, scans>>

\* Mutant: the page is removed even when it is the one that is kept.
DropPageToo(t, kind) == files' = files \ {Raw(t, kind), File(t, kind)}

\* The page in the input's format takes the place of the provider's.
ConvertPage(t, kind) == files' = (files \ {Raw(t, kind)}) \cup {File(t, kind)}

RegisterOutput ==
  /\ io.at = "register"
  /\ \E kind \in io.todo :
       /\ RegisterImageAsset(io.conn, io.task, kind)
       /\ IF kind \in io.raw THEN ConvertPage(io.task, kind) ELSE UNCHANGED files
       /\ io' = [io EXCEPT !.todo = @ \ {kind}]
  /\ Rewritten
  /\ UNCHANGED <<lock, nextSeq, upload, reading, ocr, scans>>

\* A page that cannot be converted ends the request; the pages before it stay registered.
\* The rest stays on disk, but what no asset names is not followed from here on.
ConversionFails ==
  /\ io.at = "register" /\ io.todo \cap io.raw # {}
  /\ files' = files \ ({Raw(io.task, k) : k \in io.todo} \cup
                       {File(io.task, k) : k \in io.todo \ assets[io.task]})
  /\ Reply
  /\ UNCHANGED <<tables, nextSeq, upload, reading, ocr, scans, lost>>

OutputsRegistered ==
  /\ io.at = "register" /\ io.todo = {}
  /\ Reply
  /\ UNCHANGED <<files, tables, nextSeq, upload, reading, ocr, scans, lost>>

(* OCR: the provider keeps the tasks and may write after it has answered.  *)
(* Its results are registered before, so their files are not followed.     *)

OcrRecognize ==
  /\ io.at = "provider" /\ io.op = "ocr.recognize"
  /\ \E state \in {"running", "ended"} : ocr' = [ocr EXCEPT ![io.task] = state]
  /\ RegisterImageAsset(io.conn, io.task, "ocr")
  /\ Reply
  /\ UNCHANGED <<files, nextSeq, upload, reading, scans, lost>>

OcrEnds(t) ==
  /\ ocr[t] = "running"
  /\ ocr' = [ocr EXCEPT ![t] = "ended"]
  /\ UNCHANGED <<lock, files, tables, nextSeq, io, upload, reading, scans, lost>>

\* Any connection may ask for a task; its assets then belong to that connection.
OcrGet(c, t) ==
  /\ io = IoIdle
  /\ ocr[t] # "none"
  /\ RegisterImageAsset(c, t, "ocr")
  /\ UNCHANGED <<lock, files, nextSeq, io, upload, reading, ocr, scans, lost>>

OcrCancel(c, t) ==
  /\ io = IoIdle
  /\ ocr[t] = "running"
  /\ ocr' = [ocr EXCEPT ![t] = "ended"]
  /\ UNCHANGED <<lock, files, tables, nextSeq, io, upload, reading, scans, lost>>

(* A scan that runs to its end: started under the lock, pages written by   *)
(* the provider's thread, registered by its event under the lock again.    *)

ScanRequest(c) ==
  /\ io = IoIdle
  /\ io' = [IoIdle EXCEPT !.op = "scan", !.conn = c, !.at = "lock"]
  /\ UNCHANGED <<lock, files, tables, nextSeq, upload, reading, ocr, scans, lost>>

ScanStarts ==
  /\ io.at = "scan" /\ nextSeq \in Tasks
  /\ nextSeq' = nextSeq + 1
  /\ scans' = [scans EXCEPT ![nextSeq] = [at |-> "scanning", conn |-> io.conn]]
  /\ Reply
  /\ UNCHANGED <<files, tables, upload, reading, ocr, lost>>

ScanWrites(t) ==
  /\ scans[t].at = "scanning"
  /\ files' = files \cup {File(t, "scan")}
  /\ scans' = [scans EXCEPT ![t].at = "written"]
  /\ Rewritten
  /\ UNCHANGED <<lock, tables, nextSeq, io, upload, reading, ocr>>

DispatchScanTaskEvent(t) ==
  /\ scans[t].at = "written" /\ lock = "free"
  /\ RegisterImageAsset(scans[t].conn, t, "scan")
  /\ scans' = [scans EXCEPT ![t].at = "done"]
  /\ UNCHANGED <<lock, files, nextSeq, io, upload, reading, ocr, lost>>

\* The scan failed or was cancelled: its event has no pages.
DispatchScanFailed(t) ==
  /\ scans[t].at = "scanning" /\ lock = "free"
  /\ scans' = [scans EXCEPT ![t].at = "failed"]
  /\ UNCHANGED <<lock, files, tables, nextSeq, io, upload, reading, ocr, lost>>

\* sane.scan_get registers the assets again, for the caller; a task the table has lost is
\* asked of the provider, which may still know it.
ScanGet(c, t) ==
  /\ io = IoIdle
  /\ scans[t].at \in {"done", "forgotten"}
  /\ RegisterImageAsset(c, t, "scan")
  /\ UNCHANGED <<lock, files, nextSeq, io, upload, reading, ocr, scans, lost>>

(* storage.cleanup_temp                                                    *)

Active(t) == scans[t].at \in {"scanning", "written"}

\* The provider's own check of its OCR tasks.
ProviderBusy == \E t \in Tasks : ocr[t] = "running"

\* Mutant: the cleanup forgets the scans.
CleanupNoScans == lock = "free" /\ ~ProviderBusy

\* Otherwise StorageBusy is answered and nothing changes.  Captures and enhancements have
\* tables of their own, in the modules about them.
MayCleanup == lock = "free" /\ ~ProviderBusy /\ \A t \in Tasks : ~Active(t)

\* The downloads under way when files are removed.
Overtaken == [r \in Readers |-> IF reading[r] = ReadIdle THEN ReadIdle
                                ELSE [reading[r] EXCEPT !.late = TRUE]]

CleanupTemp(c) ==
  /\ io = IoIdle
  /\ MayCleanup
  /\ lock' = "io"
  /\ files' = {} /\ lost' = {}
  /\ ocr' = [t \in Tasks |-> "none"]
  /\ io' = [IoIdle EXCEPT !.op = "cleanup", !.at = "forget"]
  /\ reading' = Overtaken
  /\ UNCHANGED <<tables, nextSeq, upload, scans>>

\* The provider answers an error, of which it may have removed any part of the directories
\* and its own records: the handler returns at once, and the tables keep every name.
CleanupFails(c) ==
  /\ io = IoIdle
  /\ MayCleanup
  /\ \E removed \in SUBSET files :
       /\ files' = files \ removed
       /\ lost' = lost \cup (removed \cap Named)
  /\ ocr' \in {ocr, [t \in Tasks |-> "none"]}
  /\ reading' = Overtaken
  /\ UNCHANGED <<lock, tables, nextSeq, io, upload, scans>>

Forgotten(scan) == [scan EXCEPT !.at = IF @ = "done" THEN "forgotten" ELSE @]

\* The tables are cleared after the provider has removed the files, still under the lock.
ForgetAssets ==
  /\ io.at = "forget"
  /\ assets' = [t \in Tasks |-> {}]
  /\ owner' = [t \in Tasks |-> NoConn]
  /\ scans' = [t \in Tasks |-> Forgotten(scans[t])]
  /\ Reply
  /\ UNCHANGED <<files, nextSeq, upload, reading, ocr, lost>>

(* Uploads: POST on an HTTP thread, under the lock from end to end.        *)

UploadImage(u, c) ==
  /\ upload[u] = UploadIdle
  /\ lock = "free" /\ nextSeq \in Tasks
  /\ lock' = u
  /\ nextSeq' = nextSeq + 1
  /\ upload' = [upload EXCEPT ![u] = [at |-> "write", conn |-> c, task |-> nextSeq]]
  /\ UNCHANGED <<files, tables, io, reading, ocr, scans, lost>>

UploadWritten(u) ==
  /\ upload[u].at = "write"
  /\ files' = files \cup {File(upload[u].task, "original")}
  /\ upload' = [upload EXCEPT ![u].at = "register"]
  /\ Rewritten
  /\ UNCHANGED <<lock, tables, nextSeq, io, reading, ocr, scans>>

\* The directory or the file cannot be written.
UploadFails(u) ==
  /\ upload[u].at = "write"
  /\ upload' = [upload EXCEPT ![u] = UploadIdle]
  /\ lock' = Released(u)
  /\ UNCHANGED <<files, tables, nextSeq, io, reading, ocr, scans, lost>>

UploadRegisters(u) ==
  /\ upload[u].at = "register"
  /\ RegisterImageAsset(upload[u].conn, upload[u].task, "original")
  /\ upload' = [upload EXCEPT ![u] = UploadIdle]
  /\ lock' = Released(u)
  /\ UNCHANGED <<files, nextSeq, io, reading, ocr, scans, lost>>

(* Downloads: GET /api/assets/<task>/<asset> on an HTTP thread, no lock.   *)

ResolveAsset(r, c, t, kind) ==
  /\ reading[r] = ReadIdle
  /\ ResolveImageAsset(c, t, kind)
  /\ reading' = [reading EXCEPT ![r] = [at |-> "file", task |-> t, kind |-> kind,
                                        late |-> io.at = "forget"]]
  /\ UNCHANGED <<lock, files, tables, nextSeq, io, upload, ocr, scans, lost>>

\* 404 when the file is gone, else it is sent.
SendFile(r) ==
  /\ reading[r].at = "file"
  /\ reading' = [reading EXCEPT ![r] = ReadIdle]
  /\ UNCHANGED <<lock, files, tables, nextSeq, io, upload, ocr, scans, lost>>

IoStep ==
  \/ RefuseRequest \/ ResolveInputs \/ ChooseTask \/ InputsExist
  \/ ProviderFails \/ ProviderReads \/ ProviderWrites \/ RegisterOutput
  \/ ConversionFails \/ OutputsRegistered \/ OcrRecognize \/ ScanStarts \/ ForgetAssets

ClientCommand ==
  \E c \in Conns :
    \/ \E op \in ImageMethods \cup ReadingMethods \cup {"ocr.recognize"},
         inputs \in SUBSET Tasks, own \in BOOLEAN : Receive(c, op, inputs, own)
    \/ \E t \in Tasks : OcrGet(c, t) \/ OcrCancel(c, t) \/ ScanGet(c, t)
    \/ ScanRequest(c) \/ CleanupTemp(c) \/ CleanupFails(c)

UploadStep(u) == UploadWritten(u) \/ UploadFails(u) \/ UploadRegisters(u)
ScanStep(t) == ScanWrites(t) \/ DispatchScanTaskEvent(t) \/ DispatchScanFailed(t)

Next ==
  \/ ClientCommand \/ LockStorage \/ IoStep
  \/ \E t \in Tasks : OcrEnds(t) \/ ScanStep(t)
  \/ \E u \in Uploaders : UploadStep(u) \/ \E c \in Conns : UploadImage(u, c)
  \/ \E r \in Readers :
       \/ SendFile(r)
       \/ \E c \in Conns, t \in Tasks, kind \in Kinds : ResolveAsset(r, c, t, kind)

Spec == Init /\ [][Next]_vars

-----------------------------------------------------------------------------

FileSet == [task : Tasks, kind : Kinds, raw : BOOLEAN]

\* Every table holds what its declaration says; the lock is held by the io thread or by an
\* upload at work.
TypeOK ==
  /\ lock \in {"free", "io"} \cup Uploaders
  /\ files \subseteq FileSet /\ lost \subseteq FileSet
  /\ assets \in [Tasks -> SUBSET Kinds]
  /\ owner \in [Tasks -> Conns \cup {NoConn}]
  /\ nextSeq \in 1..MaxTasks + 1
  /\ \A u \in Uploaders : upload[u] # UploadIdle <=> lock = u
  /\ lock = "io" => io.at # "idle"
  /\ ocr \in [Tasks -> {"none", "running", "ended"}]
  /\ \A t \in Tasks : scans[t].at \in
       {"none", "scanning", "written", "done", "failed", "forgotten"}

\* An asset that is offered has its file, whatever ran before: uploads, commands that failed
\* half-way, page conversions that replace files, scans that reported late and cleanups.  The
\* exceptions are the moment between the two halves of a cleanup, OCR results, which are
\* registered before the provider has written them, a scan that the provider still
\* knows after a cleanup (HandleSaneScanGet registers its pages again), and the very files
\* that a cleanup removed before it failed: the handler returns without touching the index.
AssetsHaveFiles ==
  io.at # "forget" =>
    \A t \in Tasks : \A kind \in assets[t] \ {"ocr"} :
      File(t, kind) \in files \cup lost \/ scans[t].at = "forgotten"

\* A download answers "asset file not found" only if a cleanup overlapped it, or an earlier
\* cleanup had failed after removing this file: ResolveAsset and FileExists are two steps of
\* an HTTP thread that takes no lock.
ReadersFindFiles ==
  \A r \in Readers :
    reading[r].at = "file" =>
      \/ File(reading[r].task, reading[r].kind) \in files \cup lost
      \/ reading[r].late \/ reading[r].kind = "ocr"
      \/ scans[reading[r].task].at = "forgotten"

=============================================================================
