------------------------- MODULE MediaAssetsProofs -------------------------
(***************************************************************************)
(* Proofs about MediaAssets: an asset that is offered has its file and a   *)
(* download finds it, whatever uploads, image commands, scans and cleanups *)
(* do meanwhile, for any number of threads, connections and tasks, but for *)
(* the files that a cleanup took before it failed.                         *)
(***************************************************************************)
EXTENDS MediaAssets, TLAPS

\* What TypeOK says of the tables and of the lock.
TableType ==
  /\ files \subseteq FileSet /\ lost \subseteq FileSet
  /\ assets \in [Tasks -> SUBSET Kinds]
  /\ owner \in [Tasks -> Conns \cup {NoConn}]
  /\ nextSeq \in 1..(MaxTasks + 1)
  /\ ocr \in [Tasks -> {"none", "running", "ended"}]

LockInv ==
  /\ lock \in {"free", "io"} \cup Uploaders
  /\ \A u \in Uploaders : upload[u] # UploadIdle <=> lock = u
  /\ lock = "io" => io.at # "idle"

\* The values of the local states.
IoSet ==
  [op : ImageMethods \cup ReadingMethods \cup {"idle", "ocr.recognize", "scan", "cleanup"},
   at : {"idle", "lock", "resolve", "scan", "task", "exists", "provider", "register", "forget"},
   conn : Conns \cup {NoConn}, task : Tasks \cup {NoTask}, inputs : SUBSET Tasks,
   own : BOOLEAN, todo : SUBSET Kinds, raw : SUBSET Kinds]
UploadSet ==
  [at : {"idle", "write", "register"}, conn : Conns \cup {NoConn}, task : Tasks \cup {NoTask}]
ReadSet == {ReadIdle} \cup [at : {"file"}, task : Tasks, kind : Kinds, late : BOOLEAN]
ScanSet ==
  [at : {"none", "scanning", "written", "done", "failed", "forgotten"},
   conn : Conns \cup {NoConn}]

LocalType ==
  /\ io \in IoSet
  /\ upload \in [Uploaders -> UploadSet]
  /\ reading \in [Readers -> ReadSet]
  /\ scans \in [Tasks -> ScanSet]

\* What the handler on the io thread knows at its place: it has a connection and, once it
\* has one, a task; what it is going to register is an output and is written; the second
\* half of a cleanup still has the lock.
IoInv ==
  /\ io.at \notin {"idle", "forget"} => io.conn \in Conns
  /\ io.at \in {"exists", "provider"} /\ io.op \notin ReadingMethods => io.task \in Tasks
  /\ io.at = "register" => /\ io.task \in Tasks
                           /\ io.todo \subseteq {"output", "output-2"}
                           /\ \A kind \in io.todo \ io.raw : File(io.task, kind) \in files
  /\ io.at = "forget" => lock = "io"

UploadInv ==
  \A u \in Uploaders :
    /\ upload[u].at # "idle" => upload[u].conn \in Conns /\ upload[u].task \in Tasks
    /\ upload[u].at = "register" => File(upload[u].task, "original") \in files

\* A scan's pages stay from the moment they are written until they are registered, and stay
\* registered until a cleanup has let the service forget the task.
ScanInv ==
  \A t \in Tasks :
    /\ scans[t].at # "none" => scans[t].conn \in Conns
    /\ scans[t].at = "written" => File(t, "scan") \in files
    /\ scans[t].at = "done" => "scan" \in assets[t]
    /\ t >= nextSeq => scans[t].at = "none"

\* A download that no cleanup has overtaken is of an asset that is still in the index.
ReaderInv ==
  \A r \in Readers :
    reading[r].at = "file" /\ ~reading[r].late =>
      /\ reading[r].kind \in assets[reading[r].task]
      /\ io.at # "forget"

Inv ==
  /\ TableType /\ LockInv /\ LocalType
  /\ IoInv /\ UploadInv /\ ScanInv /\ ReaderInv
  /\ AssetsHaveFiles /\ ReadersFindFiles

-----------------------------------------------------------------------------
LEMMA RegisterType ==
  ASSUME TableType, NEW c \in Conns, NEW t \in Tasks, NEW kind \in Kinds,
         RegisterImageAsset(c, t, kind)
  PROVE  owner' \in [Tasks -> Conns \cup {NoConn}] /\ assets' \in [Tasks -> SUBSET Kinds]
BY DEF TableType, RegisterImageAsset

LEMMA FileIn ==
  ASSUME NEW t \in Tasks, NEW kind \in Kinds
  PROVE  File(t, kind) \in FileSet /\ Raw(t, kind) \in FileSet
BY DEF File, Raw, FileSet

LEMMA FilesStay ==
  ASSUME RegisterOutput, NEW t, NEW kind, File(t, kind) \in files
  PROVE  File(t, kind) \in files'
BY DEF RegisterOutput, ConvertPage, File, Raw

\* What is written again is no longer lost, and nothing else changes about what is.
LEMMA LostStay ==
  ASSUME RegisterOutput, NEW t, NEW kind, File(t, kind) \in files \cup lost
  PROVE  File(t, kind) \in files' \cup lost'
<1>1. lost' = lost \ files'
  BY DEF RegisterOutput, Rewritten
<1> QED BY <1>1, FilesStay

\* A failed conversion is followed for the named files and for other kinds of file.
LEMMA NamedStay ==
  ASSUME ConversionFails, NEW t, NEW kind, File(t, kind) \in files,
         kind \in assets[t] \/ kind \notin io.todo
  PROVE  File(t, kind) \in files'
BY DEF ConversionFails, File, Raw

\* A cleanup that fails takes nothing that the index names without a record.
LEMMA CleanupLoses ==
  ASSUME NEW c, CleanupFails(c), NEW t, NEW kind \in assets[t],
         File(t, kind) \in files \cup lost
  PROVE  File(t, kind) \in files' \cup lost'
<1>1. PICK removed \in SUBSET files : /\ files' = files \ removed
                                     /\ lost' = lost \cup (removed \cap Named)
  BY DEF CleanupFails
<1>2. File(t, kind) \in files => File(t, kind) \in Named
  BY DEF Named, File
<1> QED BY <1>1, <1>2

LEMMA OvertakenType ==
  ASSUME reading \in [Readers -> ReadSet]
  PROVE  Overtaken \in [Readers -> ReadSet]
<1> SUFFICES ASSUME NEW r \in Readers PROVE Overtaken[r] \in ReadSet
  BY DEF Overtaken
<1>1. \/ Overtaken[r] = ReadIdle
      \/ reading[r] # ReadIdle /\ Overtaken[r] = [reading[r] EXCEPT !.late = TRUE]
  BY DEF Overtaken
<1>2. reading[r] # ReadIdle => [reading[r] EXCEPT !.late = TRUE] \in ReadSet
  BY DEF ReadSet
<1> QED BY <1>1, <1>2 DEF ReadSet

LEMMA OvertakenLate ==
  ASSUME reading \in [Readers -> ReadSet], NEW r \in Readers, Overtaken[r].at = "file"
  PROVE  Overtaken[r].late
<1>1. reading[r] # ReadIdle /\ Overtaken[r] = [reading[r] EXCEPT !.late = TRUE]
  BY DEF Overtaken, ReadIdle
<1> QED BY <1>1 DEF ReadSet

LEMMA RegisterGrows ==
  ASSUME assets \in [Tasks -> SUBSET Kinds], NEW c, NEW t, NEW kind,
         RegisterImageAsset(c, t, kind)
  PROVE  \A e \in Tasks : assets[e] \subseteq assets'[e]
BY DEF RegisterImageAsset

LEMMA OutputKinds ==
  \A op : Outputs(op) \subseteq Kinds /\ Outputs(op) \subseteq {"output", "output-2"}
BY DEF Outputs, Kinds

LEMMA TablesKept ==
  ASSUME TableType, LocalType, IoInv, UploadInv, ScanInv, [Next]_vars
  PROVE  TableType'
<1> USE DEF tables
<1>1. ASSUME NEW c \in Conns,
             NEW op \in ImageMethods \cup ReadingMethods \cup {"ocr.recognize"},
             NEW inputs \in SUBSET Tasks, NEW own \in BOOLEAN, Receive(c, op, inputs, own)
      PROVE  TableType'
  BY <1>1 DEF Receive, TableType
<1>2. ASSUME NEW c \in Conns, NEW t \in Tasks, OcrGet(c, t) PROVE TableType'
  <2>1. owner' \in [Tasks -> Conns \cup {NoConn}] /\ assets' \in [Tasks -> SUBSET Kinds]
    BY <1>2, RegisterType DEF OcrGet, Kinds
  <2> QED BY <1>2, <2>1 DEF OcrGet, TableType
<1>3. ASSUME NEW c \in Conns, NEW t \in Tasks, OcrCancel(c, t) PROVE TableType'
  BY <1>3 DEF OcrCancel, TableType
<1>4. ASSUME NEW c \in Conns, NEW t \in Tasks, ScanGet(c, t) PROVE TableType'
  <2>1. owner' \in [Tasks -> Conns \cup {NoConn}] /\ assets' \in [Tasks -> SUBSET Kinds]
    BY <1>4, RegisterType DEF ScanGet, Kinds
  <2> QED BY <1>4, <2>1 DEF ScanGet, TableType
<1>5. ASSUME NEW c \in Conns, ScanRequest(c) PROVE TableType'
  BY <1>5 DEF ScanRequest, TableType
<1>6. ASSUME NEW c \in Conns, CleanupTemp(c) PROVE TableType'
  BY <1>6 DEF CleanupTemp, TableType
<1>34. ASSUME NEW c \in Conns, CleanupFails(c) PROVE TableType'
  <2>1. files' \subseteq files /\ lost' \subseteq lost \cup files
    BY <1>34 DEF CleanupFails
  <2> QED BY <1>34, <2>1 DEF CleanupFails, TableType
<1>7. CASE LockStorage
  BY <1>7 DEF LockStorage, TableType
<1>8. CASE RefuseRequest
  BY <1>8 DEF RefuseRequest, TableType
<1>9. CASE ResolveInputs
  BY <1>9 DEF ResolveInputs, TableType
<1>10. CASE ChooseTask
  <2>a. nextSeq' = nextSeq \/ (nextSeq' = nextSeq + 1 /\ nextSeq \in Tasks)
    BY <1>10 DEF ChooseTask
  <2>1. nextSeq' \in 1..(MaxTasks + 1)
    BY <2>a, MediaAssumption DEF TableType, Tasks
  <2> QED BY <1>10, <2>1 DEF ChooseTask, TableType
<1>11. CASE InputsExist
  BY <1>11 DEF InputsExist, TableType
<1>12. CASE ProviderFails
  BY <1>12 DEF ProviderFails, TableType
<1>13. CASE ProviderReads
  BY <1>13 DEF ProviderReads, TableType
<1>14. CASE ProviderWrites
  <2>1. io.task \in Tasks
    BY <1>14 DEF ProviderWrites, IoInv, ImageMethods, ReadingMethods
  <2>2. files' \subseteq FileSet
    BY <1>14, <2>1, FileIn, OutputKinds DEF ProviderWrites, TableType
  <2> QED BY <1>14, <2>2 DEF ProviderWrites, Rewritten, TableType
<1>15. CASE RegisterOutput
  <2>1. PICK kind \in io.todo : /\ RegisterImageAsset(io.conn, io.task, kind)
                                /\ files' = files \/ ConvertPage(io.task, kind)
    BY <1>15 DEF RegisterOutput
  <2>2. io.conn \in Conns /\ io.task \in Tasks /\ kind \in Kinds
    BY <1>15 DEF RegisterOutput, IoInv, LocalType, IoSet
  <2>3. files' \subseteq FileSet
    BY <2>1, <2>2, FileIn DEF ConvertPage, TableType
  <2>4. owner' \in [Tasks -> Conns \cup {NoConn}] /\ assets' \in [Tasks -> SUBSET Kinds]
    BY <2>1, <2>2 DEF RegisterImageAsset, TableType
  <2> QED BY <1>15, <2>3, <2>4 DEF RegisterOutput, Rewritten, TableType
<1>16. CASE ConversionFails
  BY <1>16 DEF ConversionFails, TableType
<1>17. CASE OutputsRegistered
  BY <1>17 DEF OutputsRegistered, TableType
<1>18. CASE OcrRecognize
  <2>1. io.conn \in Conns /\ io.task \in Tasks
    BY <1>18 DEF OcrRecognize, IoInv, ReadingMethods
  <2>2. owner' \in [Tasks -> Conns \cup {NoConn}] /\ assets' \in [Tasks -> SUBSET Kinds]
    BY <1>18, <2>1, RegisterType DEF OcrRecognize, Kinds
  <2> QED BY <1>18, <2>1, <2>2 DEF OcrRecognize, TableType
<1>19. CASE ScanStarts
  <2>1. nextSeq' \in 1..(MaxTasks + 1)
    BY <1>19, MediaAssumption DEF ScanStarts, TableType, Tasks
  <2> QED BY <1>19, <2>1 DEF ScanStarts, TableType
<1>20. CASE ForgetAssets
  BY <1>20 DEF ForgetAssets, TableType
<1>21. ASSUME NEW t \in Tasks, OcrEnds(t) PROVE TableType'
  BY <1>21 DEF OcrEnds, TableType
<1>22. ASSUME NEW t \in Tasks, ScanWrites(t) PROVE TableType'
  BY <1>22, FileIn DEF ScanWrites, Rewritten, TableType, Kinds
<1>23. ASSUME NEW t \in Tasks, DispatchScanTaskEvent(t) PROVE TableType'
  <2>1. scans[t].conn \in Conns
    BY <1>23 DEF DispatchScanTaskEvent, ScanInv
  <2>2. owner' \in [Tasks -> Conns \cup {NoConn}] /\ assets' \in [Tasks -> SUBSET Kinds]
    BY <1>23, <2>1, RegisterType DEF DispatchScanTaskEvent, Kinds
  <2> QED BY <1>23, <2>2 DEF DispatchScanTaskEvent, TableType
<1>24. ASSUME NEW t \in Tasks, DispatchScanFailed(t) PROVE TableType'
  BY <1>24 DEF DispatchScanFailed, TableType
<1>25. ASSUME NEW u \in Uploaders, UploadWritten(u) PROVE TableType'
  <2>1. upload[u].task \in Tasks
    BY <1>25 DEF UploadWritten, UploadInv
  <2> QED BY <1>25, <2>1, FileIn DEF UploadWritten, Rewritten, TableType, Kinds
<1>26. ASSUME NEW u \in Uploaders, UploadFails(u) PROVE TableType'
  BY <1>26 DEF UploadFails, TableType
<1>27. ASSUME NEW u \in Uploaders, UploadRegisters(u) PROVE TableType'
  <2>1. upload[u].conn \in Conns /\ upload[u].task \in Tasks
    BY <1>27 DEF UploadRegisters, UploadInv
  <2>2. owner' \in [Tasks -> Conns \cup {NoConn}] /\ assets' \in [Tasks -> SUBSET Kinds]
    BY <1>27, <2>1, RegisterType DEF UploadRegisters, Kinds
  <2> QED BY <1>27, <2>2 DEF UploadRegisters, TableType
<1>28. ASSUME NEW u \in Uploaders, NEW c \in Conns, UploadImage(u, c) PROVE TableType'
  <2>1. nextSeq' \in 1..(MaxTasks + 1)
    BY <1>28, MediaAssumption DEF UploadImage, TableType, Tasks
  <2> QED BY <1>28, <2>1 DEF UploadImage, TableType
<1>29. ASSUME NEW r \in Readers, SendFile(r) PROVE TableType'
  BY <1>29 DEF SendFile, TableType
<1>30. ASSUME NEW r \in Readers, NEW c \in Conns, NEW t \in Tasks, NEW kind \in Kinds,
              ResolveAsset(r, c, t, kind)
       PROVE  TableType'
  BY <1>30 DEF ResolveAsset, TableType
<1>31. CASE UNCHANGED vars
  BY <1>31 DEF vars, TableType
<1>32. CASE ClientCommand
  BY <1>32, <1>1, <1>2, <1>3, <1>4, <1>5, <1>6, <1>34
     DEF ClientCommand
<1>33. CASE IoStep
  BY <1>33, <1>8, <1>9, <1>10, <1>11, <1>12, <1>13, <1>14, <1>15, <1>16, <1>17, <1>18,
     <1>19, <1>20
     DEF IoStep
<1> QED
  BY <1>7, <1>21, <1>22, <1>23, <1>24, <1>25, <1>26, <1>27, <1>28, <1>29, <1>30, <1>31,
     <1>32, <1>33
     DEF Next, UploadStep, ScanStep

LEMMA LockKept ==
  ASSUME LockInv, LocalType, IoInv, [Next]_vars
  PROVE  LockInv'
<1> USE DEF LockInv, Released, Reply, IoIdle, UploadIdle
<1>a. /\ io \in IoSet /\ upload \in [Uploaders -> UploadSet]
      /\ io.at = "forget" => lock = "io"
  BY DEF LocalType, IoInv
<1> USE DEF IoSet, UploadSet
<1>1. ASSUME NEW c \in Conns,
             NEW op \in ImageMethods \cup ReadingMethods \cup {"ocr.recognize"},
             NEW inputs \in SUBSET Tasks, NEW own \in BOOLEAN, Receive(c, op, inputs, own)
      PROVE  LockInv'
  BY <1>1, <1>a, MediaAssumption DEF Receive
<1>2. ASSUME NEW c \in Conns, NEW t \in Tasks, OcrGet(c, t) PROVE LockInv'
  BY <1>2, <1>a, MediaAssumption DEF OcrGet
<1>3. ASSUME NEW c \in Conns, NEW t \in Tasks, OcrCancel(c, t) PROVE LockInv'
  BY <1>3, <1>a, MediaAssumption DEF OcrCancel
<1>4. ASSUME NEW c \in Conns, NEW t \in Tasks, ScanGet(c, t) PROVE LockInv'
  BY <1>4, <1>a, MediaAssumption DEF ScanGet
<1>5. ASSUME NEW c \in Conns, ScanRequest(c) PROVE LockInv'
  BY <1>5, <1>a, MediaAssumption DEF ScanRequest
<1>6. ASSUME NEW c \in Conns, CleanupTemp(c) PROVE LockInv'
  <2>1. \A u \in Uploaders : u # "io" /\ u # "free"
    BY MediaAssumption
  <2> QED BY <1>6, <2>1 DEF CleanupTemp, MayCleanup
<1>34. ASSUME NEW c \in Conns, CleanupFails(c) PROVE LockInv'
  BY <1>34, <1>a DEF CleanupFails
<1>7. CASE LockStorage
  BY <1>7, <1>a, MediaAssumption DEF LockStorage
<1>8. CASE RefuseRequest
  BY <1>8, <1>a, MediaAssumption DEF RefuseRequest
<1>9. CASE ResolveInputs
  BY <1>9, <1>a, MediaAssumption DEF ResolveInputs
<1>10. CASE ChooseTask
  BY <1>10, <1>a, MediaAssumption DEF ChooseTask
<1>11. CASE InputsExist
  BY <1>11, <1>a, MediaAssumption DEF InputsExist
<1>12. CASE ProviderFails
  BY <1>12, <1>a, MediaAssumption DEF ProviderFails
<1>13. CASE ProviderReads
  BY <1>13, <1>a, MediaAssumption DEF ProviderReads
<1>14. CASE ProviderWrites
  BY <1>14, <1>a, MediaAssumption DEF ProviderWrites
<1>15. CASE RegisterOutput
  BY <1>15, <1>a, MediaAssumption DEF RegisterOutput
<1>16. CASE ConversionFails
  BY <1>16, <1>a, MediaAssumption DEF ConversionFails
<1>17. CASE OutputsRegistered
  BY <1>17, <1>a, MediaAssumption DEF OutputsRegistered
<1>18. CASE OcrRecognize
  BY <1>18, <1>a, MediaAssumption DEF OcrRecognize
<1>19. CASE ScanStarts
  BY <1>19, <1>a, MediaAssumption DEF ScanStarts
<1>20. CASE ForgetAssets
  BY <1>20, <1>a, MediaAssumption DEF ForgetAssets
<1>21. ASSUME NEW t \in Tasks, OcrEnds(t) PROVE LockInv'
  BY <1>21, <1>a, MediaAssumption DEF OcrEnds
<1>22. ASSUME NEW t \in Tasks, ScanWrites(t) PROVE LockInv'
  BY <1>22, <1>a, MediaAssumption DEF ScanWrites
<1>23. ASSUME NEW t \in Tasks, DispatchScanTaskEvent(t) PROVE LockInv'
  BY <1>23, <1>a, MediaAssumption DEF DispatchScanTaskEvent
<1>24. ASSUME NEW t \in Tasks, DispatchScanFailed(t) PROVE LockInv'
  BY <1>24, <1>a, MediaAssumption DEF DispatchScanFailed
<1>25. ASSUME NEW u \in Uploaders, UploadWritten(u) PROVE LockInv'
  BY <1>25, <1>a, MediaAssumption DEF UploadWritten
<1>26. ASSUME NEW u \in Uploaders, UploadFails(u) PROVE LockInv'
  BY <1>26, <1>a, MediaAssumption DEF UploadFails
<1>27. ASSUME NEW u \in Uploaders, UploadRegisters(u) PROVE LockInv'
  BY <1>27, <1>a, MediaAssumption DEF UploadRegisters
<1>28. ASSUME NEW u \in Uploaders, NEW c \in Conns, UploadImage(u, c) PROVE LockInv'
  BY <1>28, <1>a, MediaAssumption DEF UploadImage
<1>29. ASSUME NEW r \in Readers, SendFile(r) PROVE LockInv'
  BY <1>29, <1>a, MediaAssumption DEF SendFile
<1>30. ASSUME NEW r \in Readers, NEW c \in Conns, NEW t \in Tasks, NEW kind \in Kinds,
              ResolveAsset(r, c, t, kind)
       PROVE  LockInv'
  BY <1>30, <1>a, MediaAssumption DEF ResolveAsset
<1>31. CASE UNCHANGED vars
  BY <1>31, <1>a, MediaAssumption DEF vars, tables
<1> HIDE DEF LockInv
<1>32. CASE ClientCommand
  BY <1>32, <1>1, <1>2, <1>3, <1>4, <1>5, <1>6, <1>34
     DEF ClientCommand
<1>33. CASE IoStep
  BY <1>33, <1>8, <1>9, <1>10, <1>11, <1>12, <1>13, <1>14, <1>15, <1>16, <1>17, <1>18,
     <1>19, <1>20
     DEF IoStep
<1> QED
  BY <1>7, <1>21, <1>22, <1>23, <1>24, <1>25, <1>26, <1>27, <1>28, <1>29, <1>30, <1>31,
     <1>32, <1>33
     DEF Next, UploadStep, ScanStep

LEMMA LocalsKept ==
  ASSUME TableType, LocalType, IoInv, UploadInv, ScanInv, [Next]_vars
  PROVE  LocalType'
<1> USE DEF LocalType, IoSet, UploadSet, ReadSet, ScanSet, IoIdle, UploadIdle, ReadIdle,
            ScanIdle, tables, Released, Reply, RegisterImageAsset
<1>a. nextSeq \in 1..(MaxTasks + 1) /\ (io.at \in {"lock", "scan"} => io.conn \in Conns)
  BY DEF TableType, IoInv
<1>1. ASSUME NEW c \in Conns,
             NEW op \in ImageMethods \cup ReadingMethods \cup {"ocr.recognize"},
             NEW inputs \in SUBSET Tasks, NEW own \in BOOLEAN, Receive(c, op, inputs, own)
      PROVE  LocalType'
  <2>1. io' \in IoSet
    <3>1. PICK place \in {"lock", "resolve"} :
            io' = [op |-> op, at |-> place, conn |-> c, task |-> NoTask, inputs |-> inputs,
                   own |-> own, todo |-> {}, raw |-> {}]
      BY <1>1 DEF Receive
    <3> QED BY <3>1
  <2> HIDE DEF IoSet
  <2> QED BY <1>1, <2>1 DEF Receive
<1>2. ASSUME NEW c \in Conns, NEW t \in Tasks, OcrGet(c, t) PROVE LocalType'
  BY <1>2, <1>a, MediaAssumption DEF OcrGet
<1>3. ASSUME NEW c \in Conns, NEW t \in Tasks, OcrCancel(c, t) PROVE LocalType'
  BY <1>3, <1>a, MediaAssumption DEF OcrCancel
<1>4. ASSUME NEW c \in Conns, NEW t \in Tasks, ScanGet(c, t) PROVE LocalType'
  BY <1>4, <1>a, MediaAssumption DEF ScanGet
<1>5. ASSUME NEW c \in Conns, ScanRequest(c) PROVE LocalType'
  BY <1>5, <1>a, MediaAssumption DEF ScanRequest
<1>6. ASSUME NEW c \in Conns, CleanupTemp(c) PROVE LocalType'
  <2>1. io' \in IoSet
    BY <1>6 DEF CleanupTemp
  <2>2. reading' \in [Readers -> ReadSet]
    BY <1>6, OvertakenType DEF CleanupTemp
  <2> HIDE DEF IoSet, ReadSet, UploadSet, ScanSet
  <2> QED BY <1>6, <2>1, <2>2 DEF CleanupTemp
<1>34. ASSUME NEW c \in Conns, CleanupFails(c) PROVE LocalType'
  <2>1. reading' \in [Readers -> ReadSet]
    BY <1>34, OvertakenType DEF CleanupFails
  <2> HIDE DEF IoSet, ReadSet, UploadSet, ScanSet
  <2> QED BY <1>34, <2>1 DEF CleanupFails
<1>7. CASE LockStorage
  BY <1>7, <1>a, MediaAssumption DEF LockStorage
<1>8. CASE RefuseRequest
  BY <1>8, <1>a, MediaAssumption DEF RefuseRequest
<1>9. CASE ResolveInputs
  BY <1>9, <1>a, MediaAssumption DEF ResolveInputs
<1>10. CASE ChooseTask
  <2>1. io' = [io EXCEPT !.at = "exists"]
        \/ \E t \in Tasks : io' = [io EXCEPT !.at = "exists", !.task = t]
    BY <1>10 DEF ChooseTask
  <2>2. io' \in IoSet
    <3>1. CASE io' = [io EXCEPT !.at = "exists"]
      BY <3>1
    <3>2. ASSUME NEW t \in Tasks, io' = [io EXCEPT !.at = "exists", !.task = t]
          PROVE  io' \in IoSet
      BY <3>2
    <3> QED BY <2>1, <3>1, <3>2
  <2> HIDE DEF IoSet
  <2> QED BY <1>10, <2>2 DEF ChooseTask
<1>11. CASE InputsExist
  <2>1. io' = IoIdle \/ io' = [io EXCEPT !.at = "provider"]
    BY <1>11 DEF InputsExist
  <2>2. io' \in IoSet
    <3>1. CASE io' = IoIdle
      BY <3>1
    <3>2. CASE io' = [io EXCEPT !.at = "provider"]
      BY <3>2
    <3> QED BY <2>1, <3>1, <3>2
  <2> HIDE DEF IoSet
  <2> QED BY <1>11, <2>2 DEF InputsExist
<1>12. CASE ProviderFails
  BY <1>12, <1>a, MediaAssumption DEF ProviderFails
<1>13. CASE ProviderReads
  BY <1>13, <1>a, MediaAssumption DEF ProviderReads
<1>14. CASE ProviderWrites
  <2>1. PICK kinds \in SUBSET Kinds, raw \in SUBSET Kinds :
          io' = [io EXCEPT !.at = "register", !.todo = kinds, !.raw = raw]
    BY <1>14, OutputKinds DEF ProviderWrites
  <2>2. io' \in IoSet
    <3>1. io \in IoSet
      OBVIOUS
    <3> QED BY ONLY <2>1, <3>1 DEF IoSet
  <2> HIDE DEF IoSet
  <2> QED BY <1>14, <2>2 DEF ProviderWrites
<1>15. CASE RegisterOutput
  <2>1. PICK kind \in io.todo : io' = [io EXCEPT !.todo = @ \ {kind}]
    BY <1>15 DEF RegisterOutput
  <2>2. io' \in IoSet
    BY <2>1
  <2> HIDE DEF IoSet
  <2> QED BY <1>15, <2>2 DEF RegisterOutput
<1>16. CASE ConversionFails
  BY <1>16, <1>a, MediaAssumption DEF ConversionFails
<1>17. CASE OutputsRegistered
  BY <1>17, <1>a, MediaAssumption DEF OutputsRegistered
<1>18. CASE OcrRecognize
  BY <1>18, <1>a, MediaAssumption DEF OcrRecognize
<1>19. CASE ScanStarts
  BY <1>19, <1>a, MediaAssumption DEF ScanStarts
<1>20. CASE ForgetAssets
  <2>1. \A t \in Tasks : Forgotten(scans[t]) \in ScanSet
    BY DEF Forgotten
  <2> QED BY <1>20, <2>1 DEF ForgetAssets
<1>21. ASSUME NEW t \in Tasks, OcrEnds(t) PROVE LocalType'
  BY <1>21, <1>a, MediaAssumption DEF OcrEnds
<1>22. ASSUME NEW t \in Tasks, ScanWrites(t) PROVE LocalType'
  BY <1>22, <1>a, MediaAssumption DEF ScanWrites
<1>23. ASSUME NEW t \in Tasks, DispatchScanTaskEvent(t) PROVE LocalType'
  BY <1>23, <1>a, MediaAssumption DEF DispatchScanTaskEvent
<1>24. ASSUME NEW t \in Tasks, DispatchScanFailed(t) PROVE LocalType'
  BY <1>24, <1>a, MediaAssumption DEF DispatchScanFailed
<1>25. ASSUME NEW u \in Uploaders, UploadWritten(u) PROVE LocalType'
  BY <1>25, <1>a, MediaAssumption DEF UploadWritten
<1>26. ASSUME NEW u \in Uploaders, UploadFails(u) PROVE LocalType'
  BY <1>26, <1>a, MediaAssumption DEF UploadFails
<1>27. ASSUME NEW u \in Uploaders, UploadRegisters(u) PROVE LocalType'
  BY <1>27, <1>a, MediaAssumption DEF UploadRegisters
<1>28. ASSUME NEW u \in Uploaders, NEW c \in Conns, UploadImage(u, c) PROVE LocalType'
  BY <1>28, <1>a, MediaAssumption DEF UploadImage
<1>29. ASSUME NEW r \in Readers, SendFile(r) PROVE LocalType'
  BY <1>29, <1>a, MediaAssumption DEF SendFile
<1>30. ASSUME NEW r \in Readers, NEW c \in Conns, NEW t \in Tasks, NEW kind \in Kinds,
              ResolveAsset(r, c, t, kind)
       PROVE  LocalType'
  BY <1>30, <1>a, MediaAssumption DEF ResolveAsset
<1>31. CASE UNCHANGED vars
  BY <1>31, <1>a, MediaAssumption DEF vars, tables
<1> HIDE DEF LocalType
<1>32. CASE ClientCommand
  BY <1>32, <1>1, <1>2, <1>3, <1>4, <1>5, <1>6, <1>34
     DEF ClientCommand
<1>33. CASE IoStep
  BY <1>33, <1>8, <1>9, <1>10, <1>11, <1>12, <1>13, <1>14, <1>15, <1>16, <1>17, <1>18,
     <1>19, <1>20
     DEF IoStep
<1> QED
  BY <1>7, <1>21, <1>22, <1>23, <1>24, <1>25, <1>26, <1>27, <1>28, <1>29, <1>30, <1>31,
     <1>32, <1>33
     DEF Next, UploadStep, ScanStep

LEMMA HandlerKept ==
  ASSUME TableType, LockInv, LocalType, IoInv, [Next]_vars
  PROVE  IoInv'
<1> USE DEF IoInv, Released, Reply, IoIdle
<1>a. /\ io \in IoSet /\ (lock = "io" => io.at # "idle")
      /\ \A u \in Uploaders : upload[u] # UploadIdle <=> lock = u
  BY DEF LocalType, LockInv
<1> USE DEF IoSet
<1>1. ASSUME NEW c \in Conns,
             NEW op \in ImageMethods \cup ReadingMethods \cup {"ocr.recognize"},
             NEW inputs \in SUBSET Tasks, NEW own \in BOOLEAN, Receive(c, op, inputs, own)
      PROVE  IoInv'
  BY <1>1, <1>a, MediaAssumption DEF Receive
<1>2. ASSUME NEW c \in Conns, NEW t \in Tasks, OcrGet(c, t) PROVE IoInv'
  BY <1>2, <1>a, MediaAssumption DEF OcrGet
<1>3. ASSUME NEW c \in Conns, NEW t \in Tasks, OcrCancel(c, t) PROVE IoInv'
  BY <1>3, <1>a, MediaAssumption DEF OcrCancel
<1>4. ASSUME NEW c \in Conns, NEW t \in Tasks, ScanGet(c, t) PROVE IoInv'
  BY <1>4, <1>a, MediaAssumption DEF ScanGet
<1>5. ASSUME NEW c \in Conns, ScanRequest(c) PROVE IoInv'
  BY <1>5, <1>a, MediaAssumption DEF ScanRequest
<1>6. ASSUME NEW c \in Conns, CleanupTemp(c) PROVE IoInv'
  BY <1>6, <1>a, MediaAssumption DEF CleanupTemp
<1>34. ASSUME NEW c \in Conns, CleanupFails(c) PROVE IoInv'
  BY <1>34, <1>a DEF CleanupFails
<1>7. CASE LockStorage
  BY <1>7, <1>a, MediaAssumption DEF LockStorage
<1>8. CASE RefuseRequest
  BY <1>8, <1>a, MediaAssumption DEF RefuseRequest
<1>9. CASE ResolveInputs
  BY <1>9, <1>a, MediaAssumption DEF ResolveInputs
<1>10. CASE ChooseTask
  <2>1. /\ io.at = "task" /\ io'.at = "exists" /\ io'.conn = io.conn /\ io'.op = io.op
        /\ io.op \notin ReadingMethods => io'.task \in Tasks
    BY <1>10, <1>a DEF ChooseTask
  <2> QED BY <2>1
<1>11. CASE InputsExist
  BY <1>11, <1>a, MediaAssumption DEF InputsExist
<1>12. CASE ProviderFails
  BY <1>12, <1>a, MediaAssumption DEF ProviderFails
<1>13. CASE ProviderReads
  BY <1>13, <1>a, MediaAssumption DEF ProviderReads
<1>14. CASE ProviderWrites
  <2>1. PICK kinds \in SUBSET Outputs(io.op), raw \in SUBSET Outputs(io.op) :
          /\ files' = files \cup {File(io.task, k) : k \in kinds \ raw}
                           \cup {Raw(io.task, k) : k \in raw}
          /\ io' = [io EXCEPT !.at = "register", !.todo = kinds, !.raw = raw]
    BY <1>14 DEF ProviderWrites
  <2>4. \A kind \in kinds \ raw : File(io.task, kind) \in files'
    BY <2>1
  <2>2. /\ io.task \in Tasks /\ io.conn \in Conns
        /\ kinds \subseteq {"output", "output-2"}
    BY <1>14, OutputKinds DEF ProviderWrites, ImageMethods, ReadingMethods
  <2>3. io'.task = io.task /\ io'.conn = io.conn /\ io'.at = "register"
        /\ io'.todo = kinds /\ io'.raw = raw
    BY <1>a, <2>1
  <2> QED BY <2>2, <2>3, <2>4
<1>15. CASE RegisterOutput
  <2>1. /\ io'.at = "register" /\ io'.todo \subseteq io.todo /\ io'.raw = io.raw
        /\ io'.task = io.task /\ io'.conn = io.conn
    BY <1>15, <1>a DEF RegisterOutput
  <2>2. io.at = "register"
    BY <1>15 DEF RegisterOutput
  <2> QED BY <1>15, <2>1, <2>2, FilesStay
<1>16. CASE ConversionFails
  BY <1>16, <1>a, MediaAssumption DEF ConversionFails
<1>17. CASE OutputsRegistered
  BY <1>17, <1>a, MediaAssumption DEF OutputsRegistered
<1>18. CASE OcrRecognize
  BY <1>18, <1>a, MediaAssumption DEF OcrRecognize
<1>19. CASE ScanStarts
  BY <1>19, <1>a, MediaAssumption DEF ScanStarts
<1>20. CASE ForgetAssets
  BY <1>20, <1>a, MediaAssumption DEF ForgetAssets
<1>21. ASSUME NEW t \in Tasks, OcrEnds(t) PROVE IoInv'
  BY <1>21, <1>a, MediaAssumption DEF OcrEnds
<1>22. ASSUME NEW t \in Tasks, ScanWrites(t) PROVE IoInv'
  BY <1>22, <1>a, MediaAssumption DEF ScanWrites
<1>23. ASSUME NEW t \in Tasks, DispatchScanTaskEvent(t) PROVE IoInv'
  BY <1>23, <1>a, MediaAssumption DEF DispatchScanTaskEvent
<1>24. ASSUME NEW t \in Tasks, DispatchScanFailed(t) PROVE IoInv'
  BY <1>24, <1>a, MediaAssumption DEF DispatchScanFailed
<1>25. ASSUME NEW u \in Uploaders, UploadWritten(u) PROVE IoInv'
  BY <1>25, <1>a, MediaAssumption DEF UploadWritten
<1>26. ASSUME NEW u \in Uploaders, UploadFails(u) PROVE IoInv'
  BY <1>26, <1>a, MediaAssumption DEF UploadFails
<1>27. ASSUME NEW u \in Uploaders, UploadRegisters(u) PROVE IoInv'
  BY <1>27, <1>a, MediaAssumption DEF UploadRegisters
<1>28. ASSUME NEW u \in Uploaders, NEW c \in Conns, UploadImage(u, c) PROVE IoInv'
  BY <1>28, <1>a, MediaAssumption DEF UploadImage
<1>29. ASSUME NEW r \in Readers, SendFile(r) PROVE IoInv'
  BY <1>29, <1>a, MediaAssumption DEF SendFile
<1>30. ASSUME NEW r \in Readers, NEW c \in Conns, NEW t \in Tasks, NEW kind \in Kinds,
              ResolveAsset(r, c, t, kind)
       PROVE  IoInv'
  BY <1>30, <1>a, MediaAssumption DEF ResolveAsset
<1>31. CASE UNCHANGED vars
  BY <1>31, <1>a, MediaAssumption DEF vars, tables
<1> HIDE DEF IoInv
<1>32. CASE ClientCommand
  BY <1>32, <1>1, <1>2, <1>3, <1>4, <1>5, <1>6, <1>34
     DEF ClientCommand
<1>33. CASE IoStep
  BY <1>33, <1>8, <1>9, <1>10, <1>11, <1>12, <1>13, <1>14, <1>15, <1>16, <1>17, <1>18,
     <1>19, <1>20
     DEF IoStep
<1> QED
  BY <1>7, <1>21, <1>22, <1>23, <1>24, <1>25, <1>26, <1>27, <1>28, <1>29, <1>30, <1>31,
     <1>32, <1>33
     DEF Next, UploadStep, ScanStep

LEMMA UploadsKept ==
  ASSUME TableType, LockInv, LocalType, IoInv, UploadInv, [Next]_vars
  PROVE  UploadInv'
<1> USE DEF UploadInv, UploadIdle
<1>a. /\ upload \in [Uploaders -> UploadSet]
      /\ \A u \in Uploaders : upload[u] # UploadIdle <=> lock = u
  BY DEF LocalType, LockInv
<1> USE DEF UploadSet
<1>1. ASSUME NEW c \in Conns,
             NEW op \in ImageMethods \cup ReadingMethods \cup {"ocr.recognize"},
             NEW inputs \in SUBSET Tasks, NEW own \in BOOLEAN, Receive(c, op, inputs, own)
      PROVE  UploadInv'
  BY <1>1, <1>a, MediaAssumption DEF Receive
<1>2. ASSUME NEW c \in Conns, NEW t \in Tasks, OcrGet(c, t) PROVE UploadInv'
  BY <1>2, <1>a, MediaAssumption DEF OcrGet
<1>3. ASSUME NEW c \in Conns, NEW t \in Tasks, OcrCancel(c, t) PROVE UploadInv'
  BY <1>3, <1>a, MediaAssumption DEF OcrCancel
<1>4. ASSUME NEW c \in Conns, NEW t \in Tasks, ScanGet(c, t) PROVE UploadInv'
  BY <1>4, <1>a, MediaAssumption DEF ScanGet
<1>5. ASSUME NEW c \in Conns, ScanRequest(c) PROVE UploadInv'
  BY <1>5, <1>a, MediaAssumption DEF ScanRequest
<1>6. ASSUME NEW c \in Conns, CleanupTemp(c) PROVE UploadInv'
  <2>1. \A u \in Uploaders : u # "free"
    BY MediaAssumption
  <2> QED BY <1>6, <1>a, <2>1 DEF CleanupTemp, MayCleanup
<1>34. ASSUME NEW c \in Conns, CleanupFails(c) PROVE UploadInv'
  <2>1. \A u \in Uploaders : u # "free"
    BY MediaAssumption
  <2> QED BY <1>34, <1>a, <2>1 DEF CleanupFails, MayCleanup
<1>7. CASE LockStorage
  BY <1>7, <1>a, MediaAssumption DEF LockStorage
<1>8. CASE RefuseRequest
  BY <1>8, <1>a, MediaAssumption DEF RefuseRequest
<1>9. CASE ResolveInputs
  BY <1>9, <1>a, MediaAssumption DEF ResolveInputs
<1>10. CASE ChooseTask
  BY <1>10, <1>a, MediaAssumption DEF ChooseTask
<1>11. CASE InputsExist
  BY <1>11, <1>a, MediaAssumption DEF InputsExist
<1>12. CASE ProviderFails
  BY <1>12, <1>a, MediaAssumption DEF ProviderFails
<1>13. CASE ProviderReads
  BY <1>13, <1>a, MediaAssumption DEF ProviderReads
<1>14. CASE ProviderWrites
  BY <1>14, <1>a, MediaAssumption DEF ProviderWrites
<1>15. CASE RegisterOutput
  BY <1>15, FilesStay DEF RegisterOutput
<1>16. CASE ConversionFails
  <2>1. "original" \notin io.todo /\ UNCHANGED upload
    BY <1>16 DEF ConversionFails, IoInv
  <2> QED BY <1>16, <2>1, NamedStay
<1>17. CASE OutputsRegistered
  BY <1>17, <1>a, MediaAssumption DEF OutputsRegistered
<1>18. CASE OcrRecognize
  BY <1>18, <1>a, MediaAssumption DEF OcrRecognize
<1>19. CASE ScanStarts
  BY <1>19, <1>a, MediaAssumption DEF ScanStarts
<1>20. CASE ForgetAssets
  BY <1>20, <1>a, MediaAssumption DEF ForgetAssets
<1>21. ASSUME NEW t \in Tasks, OcrEnds(t) PROVE UploadInv'
  BY <1>21, <1>a, MediaAssumption DEF OcrEnds
<1>22. ASSUME NEW t \in Tasks, ScanWrites(t) PROVE UploadInv'
  BY <1>22, <1>a, MediaAssumption DEF ScanWrites
<1>23. ASSUME NEW t \in Tasks, DispatchScanTaskEvent(t) PROVE UploadInv'
  BY <1>23, <1>a, MediaAssumption DEF DispatchScanTaskEvent
<1>24. ASSUME NEW t \in Tasks, DispatchScanFailed(t) PROVE UploadInv'
  BY <1>24, <1>a, MediaAssumption DEF DispatchScanFailed
<1>25. ASSUME NEW u \in Uploaders, UploadWritten(u) PROVE UploadInv'
  BY <1>25, <1>a, MediaAssumption DEF UploadWritten
<1>26. ASSUME NEW u \in Uploaders, UploadFails(u) PROVE UploadInv'
  BY <1>26, <1>a, MediaAssumption DEF UploadFails
<1>27. ASSUME NEW u \in Uploaders, UploadRegisters(u) PROVE UploadInv'
  BY <1>27, <1>a, MediaAssumption DEF UploadRegisters
<1>28. ASSUME NEW u \in Uploaders, NEW c \in Conns, UploadImage(u, c) PROVE UploadInv'
  BY <1>28, <1>a, MediaAssumption DEF UploadImage
<1>29. ASSUME NEW r \in Readers, SendFile(r) PROVE UploadInv'
  BY <1>29, <1>a, MediaAssumption DEF SendFile
<1>30. ASSUME NEW r \in Readers, NEW c \in Conns, NEW t \in Tasks, NEW kind \in Kinds,
              ResolveAsset(r, c, t, kind)
       PROVE  UploadInv'
  BY <1>30, <1>a, MediaAssumption DEF ResolveAsset
<1>31. CASE UNCHANGED vars
  BY <1>31, <1>a, MediaAssumption DEF vars, tables
<1> HIDE DEF UploadInv
<1>32. CASE ClientCommand
  BY <1>32, <1>1, <1>2, <1>3, <1>4, <1>5, <1>6, <1>34
     DEF ClientCommand
<1>33. CASE IoStep
  BY <1>33, <1>8, <1>9, <1>10, <1>11, <1>12, <1>13, <1>14, <1>15, <1>16, <1>17, <1>18,
     <1>19, <1>20
     DEF IoStep
<1> QED
  BY <1>7, <1>21, <1>22, <1>23, <1>24, <1>25, <1>26, <1>27, <1>28, <1>29, <1>30, <1>31,
     <1>32, <1>33
     DEF Next, UploadStep, ScanStep

LEMMA ScansKept ==
  ASSUME TableType, LockInv, LocalType, IoInv, ScanInv, [Next]_vars
  PROVE  ScanInv'
<1> USE DEF ScanInv, IoIdle, Reply, tables
<1>a. /\ scans \in [Tasks -> ScanSet] /\ io \in IoSet /\ nextSeq \in 1..(MaxTasks + 1)
      /\ io.at # "idle" /\ io.at # "forget" => io.conn \in Conns
      /\ io.at = "forget" => lock = "io"
      /\ assets \in [Tasks -> SUBSET Kinds]
  BY DEF LocalType, IoInv, TableType
<1> USE DEF ScanSet, IoSet
<1>1. ASSUME NEW c \in Conns,
             NEW op \in ImageMethods \cup ReadingMethods \cup {"ocr.recognize"},
             NEW inputs \in SUBSET Tasks, NEW own \in BOOLEAN, Receive(c, op, inputs, own)
      PROVE  ScanInv'
  BY <1>1, <1>a, MediaAssumption DEF Receive
<1>2. ASSUME NEW c \in Conns, NEW t \in Tasks, OcrGet(c, t) PROVE ScanInv'
  BY <1>2, <1>a, RegisterGrows DEF OcrGet
<1>3. ASSUME NEW c \in Conns, NEW t \in Tasks, OcrCancel(c, t) PROVE ScanInv'
  BY <1>3, <1>a, MediaAssumption DEF OcrCancel
<1>4. ASSUME NEW c \in Conns, NEW t \in Tasks, ScanGet(c, t) PROVE ScanInv'
  BY <1>4, <1>a, RegisterGrows DEF ScanGet
<1>5. ASSUME NEW c \in Conns, ScanRequest(c) PROVE ScanInv'
  BY <1>5, <1>a, MediaAssumption DEF ScanRequest
<1>6. ASSUME NEW c \in Conns, CleanupTemp(c) PROVE ScanInv'
  <2>1. \A t \in Tasks : scans[t].at \notin {"scanning", "written"}
    BY <1>6 DEF CleanupTemp, MayCleanup, Active
  <2>2. UNCHANGED <<scans, nextSeq, assets>>
    BY <1>6 DEF CleanupTemp
  <2> QED BY <2>1, <2>2
<1>34. ASSUME NEW c \in Conns, CleanupFails(c) PROVE ScanInv'
  <2>1. \A t \in Tasks : scans[t].at \notin {"scanning", "written"}
    BY <1>34 DEF CleanupFails, MayCleanup, Active
  <2> QED BY <1>34, <2>1 DEF CleanupFails
<1>7. CASE LockStorage
  BY <1>7, <1>a, MediaAssumption DEF LockStorage
<1>8. CASE RefuseRequest
  BY <1>8, <1>a, MediaAssumption DEF RefuseRequest
<1>9. CASE ResolveInputs
  BY <1>9, <1>a, MediaAssumption DEF ResolveInputs
<1>10. CASE ChooseTask
  <2>1. nextSeq' = nextSeq \/ nextSeq' = nextSeq + 1
    BY <1>10 DEF ChooseTask
  <2>2. \A t \in Tasks : t >= nextSeq' => t >= nextSeq
    BY <2>1, <1>a DEF Tasks
  <2>3. UNCHANGED <<scans, files, assets>>
    BY <1>10 DEF ChooseTask
  <2> QED BY <2>2, <2>3
<1>11. CASE InputsExist
  BY <1>11, <1>a, MediaAssumption DEF InputsExist
<1>12. CASE ProviderFails
  BY <1>12, <1>a, MediaAssumption DEF ProviderFails
<1>13. CASE ProviderReads
  BY <1>13, <1>a, MediaAssumption DEF ProviderReads
<1>14. CASE ProviderWrites
  BY <1>14, <1>a, MediaAssumption DEF ProviderWrites
<1>15. CASE RegisterOutput
  <2>1. io.at = "register" /\ io'.at = "register" /\ UNCHANGED <<scans, nextSeq>>
    BY <1>15, <1>a DEF RegisterOutput
  <2>2. \A e \in Tasks : assets[e] \subseteq assets'[e]
    BY <1>15, <1>a, RegisterGrows DEF RegisterOutput
  <2> QED BY <1>15, <2>1, <2>2, FilesStay
<1>16. CASE ConversionFails
  <2>1. "scan" \notin io.todo /\ UNCHANGED <<scans, assets, nextSeq>>
    BY <1>16 DEF ConversionFails, IoInv
  <2> QED BY <1>16, <2>1, NamedStay
<1>17. CASE OutputsRegistered
  BY <1>17, <1>a, MediaAssumption DEF OutputsRegistered
<1>18. CASE OcrRecognize
  BY <1>18, <1>a, RegisterGrows DEF OcrRecognize
<1>19. CASE ScanStarts
  BY <1>19, <1>a, MediaAssumption DEF ScanStarts
<1>20. CASE ForgetAssets
  <2>1. \A t \in Tasks : /\ scans'[t].conn = scans[t].conn /\ scans'[t].at # "done"
                         /\ scans'[t].at \in {scans[t].at, "forgotten"}
                         /\ scans'[t].at = "none" <=> scans[t].at = "none"
    BY <1>20, <1>a DEF ForgetAssets, Forgotten
  <2> QED BY <1>20, <2>1 DEF ForgetAssets
<1>21. ASSUME NEW t \in Tasks, OcrEnds(t) PROVE ScanInv'
  BY <1>21, <1>a, MediaAssumption DEF OcrEnds
<1>22. ASSUME NEW t \in Tasks, ScanWrites(t) PROVE ScanInv'
  BY <1>22, <1>a, MediaAssumption DEF ScanWrites
<1>23. ASSUME NEW t \in Tasks, DispatchScanTaskEvent(t) PROVE ScanInv'
  <2>1. \A e \in Tasks : assets[e] \subseteq assets'[e]
    BY <1>23, <1>a, RegisterGrows DEF DispatchScanTaskEvent
  <2>2. "scan" \in assets'[t]
    BY <1>23, <1>a DEF DispatchScanTaskEvent, RegisterImageAsset
  <2> QED BY <1>23, <1>a, <2>1, <2>2 DEF DispatchScanTaskEvent
<1>24. ASSUME NEW t \in Tasks, DispatchScanFailed(t) PROVE ScanInv'
  BY <1>24, <1>a, MediaAssumption DEF DispatchScanFailed
<1>25. ASSUME NEW u \in Uploaders, UploadWritten(u) PROVE ScanInv'
  BY <1>25, <1>a, MediaAssumption DEF UploadWritten
<1>26. ASSUME NEW u \in Uploaders, UploadFails(u) PROVE ScanInv'
  BY <1>26, <1>a, MediaAssumption DEF UploadFails
<1>27. ASSUME NEW u \in Uploaders, UploadRegisters(u) PROVE ScanInv'
  BY <1>27, <1>a, RegisterGrows DEF UploadRegisters
<1>28. ASSUME NEW u \in Uploaders, NEW c \in Conns, UploadImage(u, c) PROVE ScanInv'
  <2>1. \A t \in Tasks : t >= nextSeq' => t >= nextSeq
    BY <1>28, <1>a DEF UploadImage, Tasks
  <2> QED BY <1>28, <2>1 DEF UploadImage
<1>29. ASSUME NEW r \in Readers, SendFile(r) PROVE ScanInv'
  BY <1>29, <1>a, MediaAssumption DEF SendFile
<1>30. ASSUME NEW r \in Readers, NEW c \in Conns, NEW t \in Tasks, NEW kind \in Kinds,
              ResolveAsset(r, c, t, kind)
       PROVE  ScanInv'
  BY <1>30, <1>a, MediaAssumption DEF ResolveAsset
<1>31. CASE UNCHANGED vars
  BY <1>31, <1>a, MediaAssumption DEF vars, tables
<1> HIDE DEF ScanInv
<1>32. CASE ClientCommand
  BY <1>32, <1>1, <1>2, <1>3, <1>4, <1>5, <1>6, <1>34
     DEF ClientCommand
<1>33. CASE IoStep
  BY <1>33, <1>8, <1>9, <1>10, <1>11, <1>12, <1>13, <1>14, <1>15, <1>16, <1>17, <1>18,
     <1>19, <1>20
     DEF IoStep
<1> QED
  BY <1>7, <1>21, <1>22, <1>23, <1>24, <1>25, <1>26, <1>27, <1>28, <1>29, <1>30, <1>31,
     <1>32, <1>33
     DEF Next, UploadStep, ScanStep

LEMMA ReadersNamed ==
  ASSUME TableType, LocalType, IoInv, ReaderInv, [Next]_vars
  PROVE  ReaderInv'
<1> USE DEF ReaderInv, tables, Reply, IoIdle
<1>a. /\ reading \in [Readers -> ReadSet] /\ assets \in [Tasks -> SUBSET Kinds] /\ io \in IoSet
      /\ \A r \in Readers : reading[r].at = "file" => reading[r].task \in Tasks
  BY DEF TableType, LocalType, ReadSet, ReadIdle
<1> USE DEF IoSet
<1>1. ASSUME NEW c \in Conns,
             NEW op \in ImageMethods \cup ReadingMethods \cup {"ocr.recognize"},
             NEW inputs \in SUBSET Tasks, NEW own \in BOOLEAN, Receive(c, op, inputs, own)
      PROVE  ReaderInv'
  BY <1>1, <1>a DEF Receive
<1>2. ASSUME NEW c \in Conns, NEW t \in Tasks, OcrGet(c, t) PROVE ReaderInv'
  BY <1>2, <1>a, RegisterGrows DEF OcrGet
<1>3. ASSUME NEW c \in Conns, NEW t \in Tasks, OcrCancel(c, t) PROVE ReaderInv'
  BY <1>3, <1>a DEF OcrCancel
<1>4. ASSUME NEW c \in Conns, NEW t \in Tasks, ScanGet(c, t) PROVE ReaderInv'
  BY <1>4, <1>a, RegisterGrows DEF ScanGet
<1>5. ASSUME NEW c \in Conns, ScanRequest(c) PROVE ReaderInv'
  BY <1>5, <1>a DEF ScanRequest
<1>6. ASSUME NEW c \in Conns, CleanupTemp(c) PROVE ReaderInv'
  BY <1>6, <1>a, OvertakenLate DEF CleanupTemp
<1>34. ASSUME NEW c \in Conns, CleanupFails(c) PROVE ReaderInv'
  BY <1>34, <1>a, OvertakenLate DEF CleanupFails
<1>7. CASE LockStorage
  BY <1>7, <1>a DEF LockStorage
<1>8. CASE RefuseRequest
  BY <1>8, <1>a DEF RefuseRequest
<1>9. CASE ResolveInputs
  BY <1>9, <1>a DEF ResolveInputs
<1>10. CASE ChooseTask
  <2>1. io'.at # "forget" /\ UNCHANGED <<reading, assets>>
    BY <1>10, <1>a DEF ChooseTask
  <2> QED BY <2>1
<1>11. CASE InputsExist
  BY <1>11, <1>a DEF InputsExist
<1>12. CASE ProviderFails
  BY <1>12, <1>a DEF ProviderFails
<1>13. CASE ProviderReads
  BY <1>13, <1>a DEF ProviderReads
<1>14. CASE ProviderWrites
  BY <1>14, <1>a DEF ProviderWrites
<1>15. CASE RegisterOutput
  BY <1>15, <1>a, RegisterGrows DEF RegisterOutput
<1>16. CASE ConversionFails
  BY <1>16, <1>a DEF ConversionFails
<1>17. CASE OutputsRegistered
  BY <1>17, <1>a DEF OutputsRegistered
<1>18. CASE OcrRecognize
  BY <1>18, <1>a, RegisterGrows DEF OcrRecognize
<1>19. CASE ScanStarts
  BY <1>19, <1>a DEF ScanStarts
<1>20. CASE ForgetAssets
  <2>1. io.at = "forget" /\ UNCHANGED reading
    BY <1>20 DEF ForgetAssets
  <2> QED BY <2>1
<1>21. ASSUME NEW t \in Tasks, OcrEnds(t) PROVE ReaderInv'
  BY <1>21, <1>a DEF OcrEnds
<1>22. ASSUME NEW t \in Tasks, ScanWrites(t) PROVE ReaderInv'
  BY <1>22, <1>a DEF ScanWrites
<1>23. ASSUME NEW t \in Tasks, DispatchScanTaskEvent(t) PROVE ReaderInv'
  BY <1>23, <1>a, RegisterGrows DEF DispatchScanTaskEvent
<1>24. ASSUME NEW t \in Tasks, DispatchScanFailed(t) PROVE ReaderInv'
  BY <1>24, <1>a DEF DispatchScanFailed
<1>25. ASSUME NEW u \in Uploaders, UploadWritten(u) PROVE ReaderInv'
  BY <1>25, <1>a DEF UploadWritten
<1>26. ASSUME NEW u \in Uploaders, UploadFails(u) PROVE ReaderInv'
  BY <1>26, <1>a DEF UploadFails
<1>27. ASSUME NEW u \in Uploaders, UploadRegisters(u) PROVE ReaderInv'
  BY <1>27, <1>a, RegisterGrows DEF UploadRegisters
<1>28. ASSUME NEW u \in Uploaders, NEW c \in Conns, UploadImage(u, c) PROVE ReaderInv'
  BY <1>28, <1>a DEF UploadImage
<1>29. ASSUME NEW r \in Readers, SendFile(r) PROVE ReaderInv'
  BY <1>29, <1>a DEF SendFile, ReadIdle
<1>30. ASSUME NEW r \in Readers, NEW c \in Conns, NEW t \in Tasks, NEW kind \in Kinds,
              ResolveAsset(r, c, t, kind)
       PROVE  ReaderInv'
  <2>1. /\ kind \in assets[t] /\ UNCHANGED <<assets, io>>
        /\ reading' = [reading EXCEPT ![r] = [at |-> "file", task |-> t, kind |-> kind,
                                              late |-> io.at = "forget"]]
    BY <1>30 DEF ResolveAsset, ResolveImageAsset
  <2>2. /\ reading'[r].task = t /\ reading'[r].kind = kind
        /\ io.at = "forget" => reading'[r].late
        /\ \A e \in Readers \ {r} : reading'[e] = reading[e]
    BY <1>a, <2>1
  <2> QED BY <2>1, <2>2
<1>31. CASE UNCHANGED vars
  BY <1>31, <1>a DEF vars
<1> HIDE DEF ReaderInv
<1>32. CASE ClientCommand
  BY <1>32, <1>1, <1>2, <1>3, <1>4, <1>5, <1>6, <1>34
     DEF ClientCommand
<1>33. CASE IoStep
  BY <1>33, <1>8, <1>9, <1>10, <1>11, <1>12, <1>13, <1>14, <1>15, <1>16, <1>17, <1>18,
     <1>19, <1>20
     DEF IoStep
<1> QED
  BY <1>7, <1>21, <1>22, <1>23, <1>24, <1>25, <1>26, <1>27, <1>28, <1>29, <1>30, <1>31,
     <1>32, <1>33
     DEF Next, UploadStep, ScanStep

LEMMA AssetsKept ==
  ASSUME TableType, LocalType, IoInv, UploadInv, ScanInv, AssetsHaveFiles, [Next]_vars
  PROVE  AssetsHaveFiles'
<1> USE DEF AssetsHaveFiles, tables, Released, Reply, RegisterImageAsset, IoIdle
<1>a. /\ assets \in [Tasks -> SUBSET Kinds] /\ io \in IoSet /\ scans \in [Tasks -> ScanSet]
      /\ nextSeq \in 1..(MaxTasks + 1)
  BY DEF TableType, LocalType
<1> USE DEF IoSet, ScanSet
<1>1. ASSUME NEW c \in Conns,
             NEW op \in ImageMethods \cup ReadingMethods \cup {"ocr.recognize"},
             NEW inputs \in SUBSET Tasks, NEW own \in BOOLEAN, Receive(c, op, inputs, own)
      PROVE  AssetsHaveFiles'
  BY <1>1 DEF Receive
<1>2. ASSUME NEW c \in Conns, NEW t \in Tasks, OcrGet(c, t) PROVE AssetsHaveFiles'
  <2>1. UNCHANGED <<files, io, scans, lost>>
    BY <1>2 DEF OcrGet
  <2>2. \A e \in Tasks : assets'[e] \subseteq assets[e] \cup {"ocr"}
    BY <1>2, <1>a DEF OcrGet
  <2> QED BY <2>1, <2>2
<1>3. ASSUME NEW c \in Conns, NEW t \in Tasks, OcrCancel(c, t) PROVE AssetsHaveFiles'
  BY <1>3 DEF OcrCancel
<1>4. ASSUME NEW c \in Conns, NEW t \in Tasks, ScanGet(c, t) PROVE AssetsHaveFiles'
  <2>1. /\ File(t, "scan") \in files \cup lost \/ scans[t].at = "forgotten"
        /\ UNCHANGED <<files, io, scans, lost>>
    BY <1>4 DEF ScanGet, ScanInv, IoIdle
  <2>2. \A e \in Tasks : assets'[e] \subseteq assets[e] \cup (IF e = t THEN {"scan"} ELSE {})
    BY <1>4, <1>a DEF ScanGet
  <2> QED BY <2>1, <2>2
<1>5. ASSUME NEW c \in Conns, ScanRequest(c) PROVE AssetsHaveFiles'
  BY <1>5 DEF ScanRequest
<1>6. ASSUME NEW c \in Conns, CleanupTemp(c) PROVE AssetsHaveFiles'
  <2>1. io'.at = "forget"
    BY <1>6 DEF CleanupTemp
  <2> QED BY <2>1
<1>34. ASSUME NEW c \in Conns, CleanupFails(c) PROVE AssetsHaveFiles'
  <2>1. UNCHANGED <<assets, io, scans>>
    BY <1>34 DEF CleanupFails
  <2> QED BY <1>34, <2>1, CleanupLoses
<1>7. CASE LockStorage
  BY <1>7 DEF LockStorage
<1>8. CASE RefuseRequest
  BY <1>8 DEF RefuseRequest
<1>9. CASE ResolveInputs
  BY <1>9 DEF ResolveInputs
<1>10. CASE ChooseTask
  BY <1>10 DEF ChooseTask
<1>11. CASE InputsExist
  BY <1>11 DEF InputsExist
<1>12. CASE ProviderFails
  BY <1>12 DEF ProviderFails
<1>13. CASE ProviderReads
  BY <1>13 DEF ProviderReads
<1>14. CASE ProviderWrites
  <2>1. files \subseteq files' /\ lost \subseteq lost' \cup files'
    BY <1>14 DEF ProviderWrites, Rewritten
  <2> QED BY <1>14, <2>1 DEF ProviderWrites
<1>15. CASE RegisterOutput
  <2>1. PICK kind \in io.todo : /\ assets' = [assets EXCEPT ![io.task] = @ \cup {kind}]
                                /\ kind \in io.raw => ConvertPage(io.task, kind)
                                /\ kind \notin io.raw => files' = files
    BY <1>15 DEF RegisterOutput
  <2>2. io.at = "register" /\ io.task \in Tasks /\ UNCHANGED scans
    BY <1>15 DEF RegisterOutput, IoInv
  <2>3. File(io.task, kind) \in files'
    BY <2>1, <2>2 DEF IoInv, ConvertPage
  <2>4. \A t \in Tasks : assets'[t] \subseteq assets[t] \cup (IF t = io.task THEN {kind} ELSE {})
    BY <1>a, <2>1, <2>2
  <2> QED BY <1>15, <2>2, <2>3, <2>4, LostStay
<1>16. CASE ConversionFails
  <2>1. UNCHANGED <<assets, scans, lost>> /\ io.at = "register"
    BY <1>16 DEF ConversionFails
  <2> QED BY <1>16, <2>1, NamedStay
<1>17. CASE OutputsRegistered
  BY <1>17 DEF OutputsRegistered
<1>18. CASE OcrRecognize
  <2>1. io.at # "forget" /\ UNCHANGED <<files, scans, lost>>
    BY <1>18 DEF OcrRecognize
  <2>2. \A e \in Tasks : assets'[e] \subseteq assets[e] \cup {"ocr"}
    BY <1>18, <1>a DEF OcrRecognize
  <2> QED BY <2>1, <2>2
<1>19. CASE ScanStarts
  <2>1. nextSeq \in Tasks /\ scans[nextSeq].at = "none"
    BY <1>19 DEF ScanStarts, ScanInv, TableType
  <2>2. \A e \in Tasks : scans[e].at = "forgotten" => scans'[e].at = "forgotten"
    BY <1>19, <1>a, <2>1 DEF ScanStarts
  <2>3. io.at # "forget" /\ UNCHANGED <<files, assets, lost>>
    BY <1>19 DEF ScanStarts
  <2> QED BY <2>2, <2>3
<1>20. CASE ForgetAssets
  <2>1. \A t \in Tasks : assets'[t] = {}
    BY <1>20 DEF ForgetAssets
  <2> QED BY <2>1
<1>21. ASSUME NEW t \in Tasks, OcrEnds(t) PROVE AssetsHaveFiles'
  BY <1>21 DEF OcrEnds
<1>22. ASSUME NEW t \in Tasks, ScanWrites(t) PROVE AssetsHaveFiles'
  <2>1. \A e \in Tasks : scans[e].at = "forgotten" => scans'[e].at = "forgotten"
    BY <1>22, <1>a DEF ScanWrites
  <2>2. files \subseteq files' /\ lost \subseteq lost' \cup files'
    BY <1>22 DEF ScanWrites, Rewritten
  <2> QED BY <1>22, <2>1, <2>2 DEF ScanWrites
<1>23. ASSUME NEW t \in Tasks, DispatchScanTaskEvent(t) PROVE AssetsHaveFiles'
  <2>1. File(t, "scan") \in files /\ UNCHANGED <<files, io, lost>>
    BY <1>23 DEF DispatchScanTaskEvent, ScanInv
  <2>2. \A e \in Tasks : /\ assets'[e] \subseteq assets[e] \cup (IF e = t THEN {"scan"} ELSE {})
                         /\ scans[e].at = "forgotten" => scans'[e].at = "forgotten"
    BY <1>23, <1>a DEF DispatchScanTaskEvent
  <2> QED BY <2>1, <2>2
<1>24. ASSUME NEW t \in Tasks, DispatchScanFailed(t) PROVE AssetsHaveFiles'
  <2>1. \A e \in Tasks : scans[e].at = "forgotten" => scans'[e].at = "forgotten"
    BY <1>24, <1>a DEF DispatchScanFailed
  <2> QED BY <1>24, <2>1 DEF DispatchScanFailed
<1>25. ASSUME NEW u \in Uploaders, UploadWritten(u) PROVE AssetsHaveFiles'
  <2>1. files \subseteq files' /\ lost \subseteq lost' \cup files'
    BY <1>25 DEF UploadWritten, Rewritten
  <2> QED BY <1>25, <2>1 DEF UploadWritten
<1>26. ASSUME NEW u \in Uploaders, UploadFails(u) PROVE AssetsHaveFiles'
  BY <1>26 DEF UploadFails
<1>27. ASSUME NEW u \in Uploaders, UploadRegisters(u) PROVE AssetsHaveFiles'
  <2>1. File(upload[u].task, "original") \in files /\ UNCHANGED <<files, io, scans, lost>>
    BY <1>27 DEF UploadRegisters, UploadInv
  <2>2. \A e \in Tasks : assets'[e] \subseteq
                           assets[e] \cup (IF e = upload[u].task THEN {"original"} ELSE {})
    BY <1>27, <1>a DEF UploadRegisters
  <2> QED BY <2>1, <2>2
<1>28. ASSUME NEW u \in Uploaders, NEW c \in Conns, UploadImage(u, c) PROVE AssetsHaveFiles'
  BY <1>28 DEF UploadImage
<1>29. ASSUME NEW r \in Readers, SendFile(r) PROVE AssetsHaveFiles'
  BY <1>29 DEF SendFile
<1>30. ASSUME NEW r \in Readers, NEW c \in Conns, NEW t \in Tasks, NEW kind \in Kinds,
              ResolveAsset(r, c, t, kind)
       PROVE  AssetsHaveFiles'
  BY <1>30 DEF ResolveAsset
<1>31. CASE UNCHANGED vars
  BY <1>31 DEF vars, tables
<1> HIDE DEF AssetsHaveFiles
<1>32. CASE ClientCommand
  BY <1>32, <1>1, <1>2, <1>3, <1>4, <1>5, <1>6, <1>34
     DEF ClientCommand
<1>33. CASE IoStep
  BY <1>33, <1>8, <1>9, <1>10, <1>11, <1>12, <1>13, <1>14, <1>15, <1>16, <1>17, <1>18,
     <1>19, <1>20
     DEF IoStep
<1> QED
  BY <1>7, <1>21, <1>22, <1>23, <1>24, <1>25, <1>26, <1>27, <1>28, <1>29, <1>30, <1>31,
     <1>32, <1>33
     DEF Next, UploadStep, ScanStep

LEMMA ReadersKept ==
  ASSUME TableType, LocalType, IoInv, UploadInv, ScanInv, ReaderInv, AssetsHaveFiles,
         ReadersFindFiles, [Next]_vars
  PROVE  ReadersFindFiles'
<1> USE DEF ReadersFindFiles, ReadIdle
<1>a. /\ reading \in [Readers -> ReadSet] /\ scans \in [Tasks -> ScanSet]
      /\ \A r \in Readers : reading[r].at = "file" => reading[r].task \in Tasks
  BY DEF TableType, LocalType, ReadSet, ReadIdle
<1> USE DEF ReadSet, ScanSet
<1>1. ASSUME NEW c \in Conns,
             NEW op \in ImageMethods \cup ReadingMethods \cup {"ocr.recognize"},
             NEW inputs \in SUBSET Tasks, NEW own \in BOOLEAN, Receive(c, op, inputs, own)
      PROVE  ReadersFindFiles'
  BY <1>1, <1>a DEF Receive
<1>2. ASSUME NEW c \in Conns, NEW t \in Tasks, OcrGet(c, t) PROVE ReadersFindFiles'
  BY <1>2, <1>a DEF OcrGet
<1>3. ASSUME NEW c \in Conns, NEW t \in Tasks, OcrCancel(c, t) PROVE ReadersFindFiles'
  BY <1>3, <1>a DEF OcrCancel
<1>4. ASSUME NEW c \in Conns, NEW t \in Tasks, ScanGet(c, t) PROVE ReadersFindFiles'
  BY <1>4, <1>a DEF ScanGet
<1>5. ASSUME NEW c \in Conns, ScanRequest(c) PROVE ReadersFindFiles'
  BY <1>5, <1>a DEF ScanRequest
<1>6. ASSUME NEW c \in Conns, CleanupTemp(c) PROVE ReadersFindFiles'
  <2>1. \A r \in Readers : reading'[r].at = "file" => reading'[r].late
    BY <1>6, <1>a, OvertakenLate DEF CleanupTemp
  <2> QED BY <2>1
<1>34. ASSUME NEW c \in Conns, CleanupFails(c) PROVE ReadersFindFiles'
  <2>1. \A r \in Readers : reading'[r].at = "file" => reading'[r].late
    BY <1>34, <1>a, OvertakenLate DEF CleanupFails
  <2> QED BY <2>1
<1>7. CASE LockStorage
  BY <1>7, <1>a DEF LockStorage
<1>8. CASE RefuseRequest
  BY <1>8, <1>a DEF RefuseRequest
<1>9. CASE ResolveInputs
  BY <1>9, <1>a DEF ResolveInputs
<1>10. CASE ChooseTask
  BY <1>10, <1>a DEF ChooseTask
<1>11. CASE InputsExist
  BY <1>11, <1>a DEF InputsExist
<1>12. CASE ProviderFails
  BY <1>12, <1>a DEF ProviderFails
<1>13. CASE ProviderReads
  BY <1>13, <1>a DEF ProviderReads
<1>14. CASE ProviderWrites
  <2>1. files \subseteq files' /\ lost \subseteq lost' \cup files'
    BY <1>14 DEF ProviderWrites, Rewritten
  <2> QED BY <1>14, <1>a, <2>1 DEF ProviderWrites
<1>15. CASE RegisterOutput
  <2>1. UNCHANGED <<reading, scans>>
    BY <1>15 DEF RegisterOutput
  <2> QED BY <1>15, <2>1, LostStay
<1>16. CASE ConversionFails
  <2>1. UNCHANGED <<reading, scans, lost>>
    BY <1>16 DEF ConversionFails
  <2> QED BY <1>16, <2>1, NamedStay DEF ReaderInv
<1>17. CASE OutputsRegistered
  BY <1>17, <1>a DEF OutputsRegistered
<1>18. CASE OcrRecognize
  BY <1>18, <1>a DEF OcrRecognize
<1>19. CASE ScanStarts
  <2>1. nextSeq \in Tasks /\ scans[nextSeq].at = "none"
    BY <1>19 DEF ScanStarts, ScanInv, TableType
  <2>2. \A e \in Tasks : scans[e].at = "forgotten" => scans'[e].at = "forgotten"
    BY <1>19, <1>a, <2>1 DEF ScanStarts
  <2>3. UNCHANGED <<files, reading, lost>>
    BY <1>19 DEF ScanStarts
  <2> QED BY <1>a, <2>2, <2>3
<1>20. CASE ForgetAssets
  <2>1. \A e \in Tasks : scans[e].at = "forgotten" => scans'[e].at = "forgotten"
    BY <1>20, <1>a DEF ForgetAssets, Forgotten
  <2> QED BY <1>20, <1>a, <2>1 DEF ForgetAssets
<1>21. ASSUME NEW t \in Tasks, OcrEnds(t) PROVE ReadersFindFiles'
  BY <1>21, <1>a DEF OcrEnds
<1>22. ASSUME NEW t \in Tasks, ScanWrites(t) PROVE ReadersFindFiles'
  <2>1. \A e \in Tasks : scans[e].at = "forgotten" => scans'[e].at = "forgotten"
    BY <1>22, <1>a DEF ScanWrites
  <2>2. files \subseteq files' /\ lost \subseteq lost' \cup files'
    BY <1>22 DEF ScanWrites, Rewritten
  <2> QED BY <1>22, <1>a, <2>1, <2>2 DEF ScanWrites
<1>23. ASSUME NEW t \in Tasks, DispatchScanTaskEvent(t) PROVE ReadersFindFiles'
  <2>1. \A e \in Tasks : scans[e].at = "forgotten" => scans'[e].at = "forgotten"
    BY <1>23, <1>a DEF DispatchScanTaskEvent
  <2> QED BY <1>23, <1>a, <2>1 DEF DispatchScanTaskEvent
<1>24. ASSUME NEW t \in Tasks, DispatchScanFailed(t) PROVE ReadersFindFiles'
  <2>1. \A e \in Tasks : scans[e].at = "forgotten" => scans'[e].at = "forgotten"
    BY <1>24, <1>a DEF DispatchScanFailed
  <2> QED BY <1>24, <1>a, <2>1 DEF DispatchScanFailed
<1>25. ASSUME NEW u \in Uploaders, UploadWritten(u) PROVE ReadersFindFiles'
  <2>1. files \subseteq files' /\ lost \subseteq lost' \cup files'
    BY <1>25 DEF UploadWritten, Rewritten
  <2> QED BY <1>25, <1>a, <2>1 DEF UploadWritten
<1>26. ASSUME NEW u \in Uploaders, UploadFails(u) PROVE ReadersFindFiles'
  BY <1>26, <1>a DEF UploadFails
<1>27. ASSUME NEW u \in Uploaders, UploadRegisters(u) PROVE ReadersFindFiles'
  BY <1>27, <1>a DEF UploadRegisters
<1>28. ASSUME NEW u \in Uploaders, NEW c \in Conns, UploadImage(u, c) PROVE ReadersFindFiles'
  BY <1>28, <1>a DEF UploadImage
<1>29. ASSUME NEW r \in Readers, SendFile(r) PROVE ReadersFindFiles'
  BY <1>29, <1>a DEF SendFile
<1>30. ASSUME NEW r \in Readers, NEW c \in Conns, NEW t \in Tasks, NEW kind \in Kinds,
              ResolveAsset(r, c, t, kind)
       PROVE  ReadersFindFiles'
  <2>1. /\ kind \in assets[t] /\ UNCHANGED <<files, scans, lost>>
        /\ reading' = [reading EXCEPT ![r] = [at |-> "file", task |-> t, kind |-> kind,
                                              late |-> io.at = "forget"]]
    BY <1>30 DEF ResolveAsset, ResolveImageAsset
  <2>2. io.at = "forget" \/ kind = "ocr" \/ File(t, kind) \in files \cup lost
        \/ scans[t].at = "forgotten"
    BY <2>1 DEF AssetsHaveFiles
  <2>3. /\ reading'[r].task = t /\ reading'[r].kind = kind
        /\ io.at = "forget" => reading'[r].late
        /\ \A e \in Readers \ {r} : reading'[e] = reading[e]
    BY <1>a, <2>1
  <2> QED BY <2>1, <2>2, <2>3
<1>31. CASE UNCHANGED vars
  BY <1>31, <1>a DEF vars, tables
<1> HIDE DEF ReadersFindFiles
<1>32. CASE ClientCommand
  BY <1>32, <1>1, <1>2, <1>3, <1>4, <1>5, <1>6, <1>34
     DEF ClientCommand
<1>33. CASE IoStep
  BY <1>33, <1>8, <1>9, <1>10, <1>11, <1>12, <1>13, <1>14, <1>15, <1>16, <1>17, <1>18,
     <1>19, <1>20
     DEF IoStep
<1> QED
  BY <1>7, <1>21, <1>22, <1>23, <1>24, <1>25, <1>26, <1>27, <1>28, <1>29, <1>30, <1>31,
     <1>32, <1>33
     DEF Next, UploadStep, ScanStep

-----------------------------------------------------------------------------
LEMMA InitInv == Init => Inv
<1> SUFFICES ASSUME Init PROVE Inv
  OBVIOUS
<1> USE DEF Init, IoIdle, UploadIdle, ScanIdle
<1>1. TableType
  BY MediaAssumption DEF TableType
<1>2. LockInv
  BY MediaAssumption DEF LockInv
<1>3. LocalType
  BY DEF LocalType, IoSet, UploadSet, ReadSet, ScanSet
<1>4. IoInv /\ UploadInv /\ ScanInv /\ ReaderInv
  BY DEF IoInv, UploadInv, ScanInv, ReaderInv, ReadIdle
<1>5. AssetsHaveFiles /\ ReadersFindFiles
  BY DEF AssetsHaveFiles, ReadersFindFiles, ReadIdle
<1> QED BY <1>1, <1>2, <1>3, <1>4, <1>5 DEF Inv

LEMMA NextInv == Inv /\ [Next]_vars => Inv'
<1> SUFFICES ASSUME Inv, [Next]_vars PROVE Inv'
  OBVIOUS
<1>1. /\ TableType /\ LockInv /\ LocalType /\ IoInv /\ UploadInv /\ ScanInv
      /\ ReaderInv /\ AssetsHaveFiles /\ ReadersFindFiles
  BY DEF Inv
<1>2. TableType' /\ LockInv' /\ LocalType'
  BY <1>1, TablesKept, LockKept, LocalsKept
<1>3. IoInv' /\ UploadInv' /\ ScanInv' /\ ReaderInv'
  BY <1>1, HandlerKept, UploadsKept, ScansKept, ReadersNamed
<1>4. AssetsHaveFiles' /\ ReadersFindFiles'
  BY <1>1, AssetsKept, ReadersKept
<1> QED BY <1>2, <1>3, <1>4 DEF Inv

LEMMA Invariance == Spec => []Inv
<1>1. Init => Inv
  BY InitInv
<1>2. Inv /\ [Next]_vars => Inv'
  BY NextInv
<1> QED BY <1>1, <1>2, PTL DEF Spec

\* The tables have the types their declarations give them, and the lifecycle lock is held
\* by exactly the HTTP thread whose upload is under way, or by the io thread at work.
THEOREM TypeCorrect == Spec => []TypeOK
<1>1. Inv => TypeOK
  BY DEF Inv, TableType, LockInv, LocalType, ScanSet, TypeOK
<1> QED BY <1>1, Invariance, PTL

\* An asset that the service offers has its file on the disk: outputs are registered after
\* they are written, the conversion of a page takes away only the file of the provider that no
\* asset names, and the cleanup waits for uploads and scans and lets no command in before the
\* tables are empty.  A cleanup whose provider fails leaves the index as it is, so the files it
\* did remove, and no others, are the exception.
THEOREM AssetsOnDisk == Spec => []AssetsHaveFiles
<1>1. Inv => AssetsHaveFiles
  BY DEF Inv
<1> QED BY <1>1, Invariance, PTL

\* A download that has resolved its asset finds the file, unless a cleanup came between or an
\* earlier cleanup had failed after it removed this very file: no other command takes a file
\* away that an asset names.
THEOREM DownloadsFindFiles == Spec => []ReadersFindFiles
<1>1. Inv => ReadersFindFiles
  BY DEF Inv
<1> QED BY <1>1, Invariance, PTL

=============================================================================
