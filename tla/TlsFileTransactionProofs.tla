---------------------- MODULE TlsFileTransactionProofs ----------------------
(***************************************************************************)
(* Proofs about TlsFileTransaction, without any assumption on what fails.  *)
(* Part 1: the types, and where the running function is in its loops.      *)
(* Part 2: the backups, and the installation of whole bundles, with the    *)
(* journals that a failed write leaves followed by the history variables.  *)
(***************************************************************************)
EXTENDS TlsFileTransaction, TLAPS, FiniteSetTheorems

\* A list of paths no longer than the managed files, each of them once.
PathList(s) == s \in Seq(Files) /\ Len(s) <= NumFiles /\ Increasing(s)

Distinct(es) == \A j, k \in DOMAIN es : es[j].file = es[k].file => j = k

\* The journal a function has in memory or on disk names each file once.
EntryList(es) == es \in Seq(Entry) /\ Len(es) <= NumFiles /\ Distinct(es)

Installing == pc \in {"stage", "pending", "rename", "complete"}

\* CommitTlsTransaction works through its paths, and its entries name them
\* in the same order.
CommitControl ==
  /\ purpose = "precommit" \/ Installing => paths \in Bundles
  /\ pc = "mkdir" => purpose = "precommit" /\ entries = <<>>
  /\ Installing => \A k \in DOMAIN entries : entries[k].file = paths[k]
  /\ pc = "stage" => Len(entries) = index - 1 /\ index <= Len(paths) + 1
  /\ pc \in {"pending", "rename", "complete"} => Len(entries) = Len(paths)

ControlInv ==
  /\ TypeOK
  /\ PathList(paths) /\ EntryList(entries) /\ EntryList(journal.entries)
  /\ CommitControl

-----------------------------------------------------------------------------
\* What the journal on disk is while a function runs.
JournalPhase ==
  /\ ~dir => journal = NoJournal /\ stray = "none"
  /\ pc \in {"recovered", "mkdir"} => ~dir
  /\ pc \in {"stage", "pending"} => dir /\ stray = "none" /\ journal.state # "PENDING"
  /\ pc \in {"rename", "complete"} =>
       dir /\ stray = "none" /\ journal.state = "PENDING" /\ journal.entries = entries
  /\ pc \in {"rollback", "mark"} =>
       dir /\ journal.entries = entries /\ (stray = "none" => journal.state = "PENDING")
  /\ pc \in {"removeFiles", "removeJournal"} /\ stray = "none" => journal.state # "PENDING"
  /\ pc = "removeDir" => stray = "none" /\ journal.state # "PENDING"
  /\ stray = "undoing" => pc \in {"rollback", "mark", "removeFiles", "removeJournal"}

\* The file of entry k as it was when it was staged.
Before(k) == IF entries[k].existed THEN old[k] ELSE Missing

\* What has been staged, renamed and restored so far.
Progress ==
  /\ pc \in {"stage", "pending"} =>
       \A k \in DOMAIN entries : Before(k) = dest[paths[k]] /\ new[k] = gen
                                 /\ (entries[k].existed => dest[paths[k]] # Missing)
  /\ pc = "rename" =>
       \A k \in DOMAIN paths : IF k < index THEN dest[paths[k]] = gen ELSE new[k] = gen
  /\ pc = "complete" => \A k \in DOMAIN paths : dest[paths[k]] = gen
  /\ pc = "rollback" => \A k \in DOMAIN entries : k < index => dest[entries[k].file] = Before(k)
  /\ pc = "mark" => \A k \in DOMAIN entries : dest[entries[k].file] = Before(k)

DiskInv == JournalPhase /\ Progress /\ BackupsSuffice

\* What the running commit, or the undoing of its stray journal, keeps of the
\* files it found: they are former, or a rollback to the backups makes them so.
FormerInv ==
  /\ purpose = "precommit" => pc \in {"recover", "mkdir"} /\ ~dir /\ dest = former
  /\ pc \in {"stage", "pending"} => dest = former
  /\ pc \in {"rename", "complete"} => Effective = former
  /\ stray = "undoing" =>
       IF pc \in {"rollback", "mark"}
       THEN Recovered(dest, [state |-> "PENDING", entries |-> entries], old) = former
       ELSE dest = former

-----------------------------------------------------------------------------
(* Part 1: types and control.                                              *)

LEMMA BundlePaths == \A b \in Bundles : PathList(b)
<1> SUFFICES ASSUME NEW b \in Bundles PROVE PathList(b)
  OBVIOUS
<1>1. b \in Seq(Files) /\ Increasing(b)
  BY TlsAssumption
<1>2. ASSUME Len(b) > NumFiles PROVE FALSE
  <2>1. IsFiniteSet(1..Len(b)) /\ Cardinality(1..Len(b)) = Len(b)
    <3>1. Len(b) \in Nat /\ 1 \in Int /\ Len(b) \in Int
      BY <1>1
    <3> QED BY <3>1, FS_Interval, <1>2, TlsAssumption
  <2>2. IsFiniteSet(Files) /\ Cardinality(Files) = NumFiles
    BY TlsAssumption, FS_Interval DEF Files
  <2>3. b \in [1..Len(b) -> Files]
    BY <1>1
  <2>4. PICK j, k \in 1..Len(b) : j # k /\ b[j] = b[k]
    BY <1>2, <2>1, <2>2, <2>3, FS_PigeonHole
  <2> QED BY <1>1, <2>3, <2>4 DEF Increasing, Files
<1> QED BY <1>1, <1>2, TlsAssumption DEF PathList

LEMMA ManagedPaths == PathList(AllPaths) /\ PathList(<<>>)
<1>1. AllPaths \in Seq(Files) /\ Len(AllPaths) = NumFiles
  BY TlsAssumption DEF AllPaths, Files
<1> QED BY <1>1, TlsAssumption DEF PathList, Increasing, AllPaths, Files

LEMMA NoEntries == EntryList(<<>>)
BY TlsAssumption DEF EntryList, Distinct

LEMMA ControlInit == Init => ControlInv
<1> SUFFICES ASSUME Init PROVE ControlInv
  OBVIOUS
<1>1. TypeOK
  <2>1. dest \in [Files -> Gens \cup {Missing}]
    BY TlsAssumption DEF Init, Gens, Missing
  <2>2. journal.entries \in Seq(Entry) /\ Len(journal.entries) = 0
    BY DEF Init, NoJournal
  <2>3. 1 \in Gens /\ 0..NumFiles # {} /\ index \in 1..(NumFiles + 1) /\ faults \in 0..MaxFaults
    BY TlsAssumption DEF Init, Gens
  <2>4. /\ old \in [Files -> Gens \cup {Missing}] /\ new \in [Files -> Gens \cup {Missing}]
        /\ former = dest /\ stray = "none"
    BY DEF Init
  <2>5. entries \in Seq(Entry) /\ paths \in Seq(Files)
    BY DEF Init
  <2>6. dir \in BOOLEAN
    BY DEF Init
  <2>7. /\ pc = "idle" /\ purpose = "none" /\ count = 0 /\ gen = 1 /\ outcome = "none"
        /\ journal.state = "none"
    BY DEF Init, NoJournal
  <2> QED BY <2>1, <2>2, <2>3, <2>4, <2>5, <2>6, <2>7, TlsAssumption DEF TypeOK
<1>2. PathList(paths) /\ EntryList(entries) /\ EntryList(journal.entries)
  BY ManagedPaths, NoEntries DEF Init, NoJournal
<1>3. CommitControl
  BY DEF Init, CommitControl, Installing
<1> QED BY <1>1, <1>2, <1>3 DEF ControlInv

\* Whoever called a recovery or a removal goes on or returns.
LEMMA SucceedControl ==
  ASSUME ControlInv, Succeed
  PROVE  /\ CommitControl' /\ EntryList(entries')
         /\ pc' \in {"recovered", "mkdir", "idle"} /\ index' = 1
         /\ purpose' \in {"none", "recover", "precommit"}
         /\ outcome' \in {"none", "ok", "failed"}
         /\ UNCHANGED <<paths, count, gen>>
<1> USE DEF ControlInv, CommitControl, Installing, Goto, Succeed, Return
<1>1. CASE purpose \in {"recover", "precommit"}
  BY <1>1, NoEntries DEF TypeOK
<1>2. CASE purpose \notin {"recover", "precommit"}
  BY <1>2
<1> QED BY <1>1, <1>2

LEMMA RecoveryKeepsControl ==
  ASSUME ControlInv, RecoveryStep \/ Call \/ ReturnRecovered \/ Commit
  PROVE  ControlInv'
<1> USE TlsAssumption DEF ControlInv, CommitControl, Installing, Goto, Step, Loop, history, Interrupted
<1>1. CASE Call
  BY <1>1, ManagedPaths, NoEntries DEF Call, TypeOK, PathList, EntryList, disk
<1>2. CASE NothingToRecover
  BY <1>2, SucceedControl DEF NothingToRecover, TypeOK, EntryList, disk
<1>3. CASE RecoverUnjournalled
  BY <1>3 DEF RecoverUnjournalled, StartRemoval, TypeOK, PathList, disk
<1>4. CASE RecoverJournalled
  BY <1>4 DEF RecoverJournalled, Return, TypeOK, EntryList, disk
<1>5. CASE RestoreOne
  <2>1. index \in DOMAIN entries /\ index \in Files /\ index + 1 \in 1..(NumFiles + 1)
    BY <1>5 DEF RestoreOne, TypeOK, EntryList, Files
  <2>2. dest' \in [Files -> Gens \cup {Missing}]
    BY <1>5, <2>1 DEF RestoreOne, TypeOK, Entry
  <2>3. TypeOK'
    BY <1>5, <2>1, <2>2 DEF RestoreOne, Return, TypeOK
  <2> QED BY <1>5, <2>3 DEF RestoreOne, Return
<1>6. CASE Restored
  BY <1>6 DEF Restored, AfterRollback, TypeOK, EntryList, disk
<1>7. CASE MarkRolledBack
  BY <1>7 DEF MarkRolledBack, StartRemoval, Return, TypeOK, EntryList
<1>8. CASE RemoveOne
  <2>1. index \in Files /\ index + 1 \in 1..(NumFiles + 1)
    BY <1>8 DEF RemoveOne, TypeOK, Files
  <2>2. TypeOK'
    BY <1>8, <2>1 DEF RemoveOne, TypeOK
  <2> QED BY <1>8, <2>2 DEF RemoveOne
<1>9. CASE FilesRemoved
  BY <1>9 DEF FilesRemoved, TypeOK, disk
<1>10. CASE RemoveJournal
  BY <1>10, NoEntries DEF RemoveJournal, NoJournal, TypeOK, EntryList
<1>11. CASE RemoveDir
  <2>1. CASE DirEmpty
    <3>1. dir' \in BOOLEAN /\ Succeed /\ UNCHANGED <<dest, journal, old, new, faults, history>>
      BY <1>11, <2>1 DEF RemoveDir
    <3>2. TypeOK'
      BY <3>1, SucceedControl DEF TypeOK, EntryList
    <3> QED BY <3>1, <3>2, SucceedControl DEF EntryList
  <2>2. CASE ~DirEmpty
    BY <1>11, <2>2 DEF RemoveDir, Return, TypeOK, EntryList
  <2> QED BY <2>1, <2>2
<1>12. CASE ReturnRecovered
  BY <1>12 DEF ReturnRecovered, Return, TypeOK, disk
<1>13. CASE Commit
  BY <1>13, BundlePaths DEF Commit, TypeOK, PathList, Gens, disk
<1> QED BY <1>1, <1>2, <1>3, <1>4, <1>5, <1>6, <1>7, <1>8, <1>9, <1>10, <1>11, <1>12, <1>13
    DEF RecoveryStep

LEMMA CommitKeepsControl ==
  ASSUME ControlInv, CommitStep
  PROVE  ControlInv'
<1> USE TlsAssumption DEF ControlInv, CommitControl, Installing, Goto, Step, Loop, history, Interrupted
<1>1. CASE MakeDir
  BY <1>1 DEF MakeDir, TypeOK, PathList
<1>2. CASE Stage
  <2> DEFINE e == [file |-> paths[index], existed |-> dest[paths[index]] # Missing]
  <2>1. /\ index \in 1..Len(paths) /\ index \in Files /\ index + 1 \in 1..(NumFiles + 1)
        /\ Len(entries) = index - 1 /\ paths[index] \in Files
    BY <1>2 DEF Stage, TypeOK, PathList, Files
  <2>2. entries' = Append(entries, e) /\ e \in Entry
    BY <1>2, <2>1 DEF Stage, Entry
  <2>3. /\ entries' \in Seq(Entry) /\ Len(entries') = index
        /\ \A k \in 1..index : entries'[k] = IF k = index THEN e ELSE entries[k]
    BY <2>1, <2>2 DEF EntryList
  <2>4. \A k \in DOMAIN entries' : entries'[k].file = paths[k]
    BY <1>2, <2>1, <2>3 DEF Stage, EntryList
  <2>5. Distinct(entries')
    <3>1. DOMAIN entries' = 1..index /\ \A j, k \in 1..index : j < k => paths[j] < paths[k]
      BY <2>1, <2>3 DEF PathList, Increasing
    <3>2. \A k \in 1..index : paths[k] \in Int
      BY <2>1 DEF PathList, Files
    <3> QED BY ONLY <2>1, <2>4, <3>1, <3>2 DEF Distinct, Files
  <2>6. dest[paths[index]] \in Gens \cup {Missing}
    BY <2>1 DEF TypeOK
  <2>7. TypeOK'
    BY <1>2, <2>1, <2>3, <2>6 DEF Stage, TypeOK
  <2> QED BY <1>2, <2>1, <2>3, <2>4, <2>5, <2>7 DEF Stage, EntryList
<1>3. CASE Staged
  BY <1>3 DEF Staged, TypeOK, disk
<1>4. CASE WritePending
  BY <1>4 DEF WritePending, TypeOK, EntryList
<1>5. CASE Rename
  <2>1. index \in 1..Len(paths) /\ index \in Files /\ index + 1 \in 1..(NumFiles + 1)
    BY <1>5 DEF Rename, TypeOK, PathList, Files
  <2>2. TypeOK'
    BY <1>5, <2>1 DEF Rename, TypeOK, PathList
  <2> QED BY <1>5, <2>2 DEF Rename
<1>6. CASE Renamed
  BY <1>6 DEF Renamed, TypeOK, disk
<1>7. CASE WriteComplete
  BY <1>7 DEF WriteComplete, StartRemoval, TypeOK, EntryList
<1> QED BY <1>1, <1>2, <1>3, <1>4, <1>5, <1>6, <1>7 DEF CommitStep

LEMMA FaultKeepsControl ==
  ASSUME ControlInv, FaultStep
  PROVE  ControlInv'
<1> USE TlsAssumption DEF ControlInv, CommitControl, Installing, Goto, Fault, Interrupted, history
<1>1. CASE Crash
  BY <1>1, ManagedPaths, NoEntries DEF Crash, TypeOK, disk
<1>2. CASE RecoveryFails
  <2>1. dir' \in BOOLEAN
    BY <1>2 DEF RecoveryFails, TypeOK
  <2>a. /\ Return("failed") /\ UNCHANGED <<dest, journal, old, new>>
        /\ faults > 0 /\ faults' = faults - 1 /\ former' = former
        /\ stray' \in {"none", "undoing", "left"}
    BY <1>2 DEF RecoveryFails, TypeOK
  <2>2. TypeOK'
    BY <2>1, <2>a DEF Return, TypeOK
  <2> QED BY <1>2, <2>2 DEF RecoveryFails, Return
<1>3. CASE MakeDirFails
  BY <1>3 DEF MakeDirFails, Return, TypeOK
<1>4. CASE StageFails
  <2>1. CASE index <= Len(paths)
    <3> DEFINE e == [file |-> paths[index], existed |-> dest[paths[index]] # Missing]
    <3>1. /\ index \in 1..Len(paths) /\ index \in Files
          /\ Len(entries) = index - 1 /\ paths[index] \in Files
      BY <1>4, <2>1 DEF StageFails, TypeOK, PathList, Files
    <3>2. entries' = Append(entries, e) /\ e \in Entry
      BY <1>4, <2>1, <3>1 DEF StageFails, Entry
    <3>3. /\ entries' \in Seq(Entry) /\ Len(entries') = index
          /\ \A k \in 1..index : entries'[k] = IF k = index THEN e ELSE entries[k]
      BY <3>1, <3>2 DEF EntryList
    <3>4. \A k \in DOMAIN entries' : entries'[k].file = paths[k]
      BY <1>4, <3>1, <3>3 DEF StageFails, EntryList
    <3>5. Distinct(entries')
      <4>1. DOMAIN entries' = 1..index /\ \A j, k \in 1..index : j < k => paths[j] < paths[k]
        BY <3>1, <3>3 DEF PathList, Increasing
      <4>2. \A k \in 1..index : paths[k] \in Int
        BY <3>1 DEF PathList, Files
      <4> QED BY ONLY <3>1, <3>4, <4>1, <4>2 DEF Distinct, Files
    <3>6. old' \in [Files -> Gens \cup {Missing}]
      BY <1>4, <2>1, <3>1 DEF StageFails, TypeOK
    <3>7. count' \in 0..NumFiles
      BY <1>4, <3>1, <3>3 DEF StageFails, Files
    <3> QED BY <1>4, <3>1, <3>3, <3>5, <3>6, <3>7 DEF StageFails, TypeOK, EntryList, PathList
  <2>2. CASE index > Len(paths)
    BY <1>4, <2>2 DEF StageFails, TypeOK, PathList, EntryList
  <2> QED BY <2>1, <2>2 DEF TypeOK, PathList
<1>5. CASE PendingFails
  BY <1>5 DEF PendingFails, JournalFails, StartRemoval, TypeOK, EntryList
<1>6. CASE RenameFails
  <2>1. index \in 1..Len(paths) /\ index \in Files
    BY <1>6 DEF RenameFails, TypeOK, PathList, Files
  <2>2. dest' \in [Files -> Gens \cup {Missing}] /\ new' \in [Files -> Gens \cup {Missing}]
    <3>1. CASE UNCHANGED <<dest, new>>
      BY <3>1 DEF TypeOK
    <3>2. CASE ~UNCHANGED <<dest, new>>
      BY <1>6, <2>1, <3>2 DEF RenameFails, TypeOK
    <3> QED BY <3>1, <3>2
  <2>3. TypeOK'
    BY <1>6, <2>1, <2>2 DEF RenameFails, UndoOnRename, StartRollback, TypeOK, PathList
  <2> QED BY <1>6, <2>3 DEF RenameFails, UndoOnRename, StartRollback
<1>7. CASE CompleteFails
  BY <1>7 DEF CompleteFails, JournalFails, StartRollback, TypeOK, EntryList
<1> QED BY <1>1, <1>2, <1>3, <1>4, <1>5, <1>6, <1>7 DEF FaultStep

LEMMA ControlInvariant == Spec => []ControlInv
<1>1. ControlInv /\ UNCHANGED vars => ControlInv'
  BY DEF ControlInv, CommitControl, Installing, TypeOK, vars, disk, history
<1>2. ControlInv /\ [Next]_vars => ControlInv'
  BY <1>1, RecoveryKeepsControl, CommitKeepsControl, FaultKeepsControl DEF Next
<1> QED BY <1>2, ControlInit, PTL DEF Spec

\* The types hold whatever fails, for any number of files and bundles: in
\* particular no entry, backup or replacement is numbered past the last file.
THEOREM TypeCorrect == Spec => []TypeOK
<1>1. ControlInv => TypeOK
  BY DEF ControlInv
<1> QED BY <1>1, ControlInvariant, PTL

-----------------------------------------------------------------------------
(* Part 2: the directory.                                                  *)

LEMMA DiskInit == Init => DiskInv
BY DEF Init, DiskInv, JournalPhase, Progress, BackupsSuffice, NoJournal

LEMMA RecoveryKeepsDisk ==
  ASSUME ControlInv, DiskInv, RecoveryStep \/ Call \/ ReturnRecovered \/ Commit
  PROVE  DiskInv'
<1> USE TlsAssumption DEF DiskInv, JournalPhase, Goto, Step, Loop, history, Interrupted
<1>a. TypeOK /\ EntryList(entries) /\ EntryList(journal.entries)
  BY DEF ControlInv
<1>1. CASE Call
  BY <1>1 DEF Call, disk, Progress, BackupsSuffice
<1>2. CASE NothingToRecover
  BY <1>2 DEF NothingToRecover, Succeed, Return, disk, Progress, BackupsSuffice
<1>3. CASE RecoverUnjournalled
  BY <1>3 DEF RecoverUnjournalled, StartRemoval, disk, Progress, BackupsSuffice
<1>4. CASE RecoverJournalled
  <2>1. CASE pc' = "idle"
    BY <1>4, <2>1 DEF RecoverJournalled, disk, Progress, BackupsSuffice
  <2>2. CASE pc' = "removeFiles"
    <3>1. journal' = journal /\ journal.state # "PENDING"
      BY <1>4, <2>2 DEF RecoverJournalled, NeedsRollback, Return, disk
    <3> QED BY <1>4, <2>2, <3>1 DEF RecoverJournalled, disk, Progress, BackupsSuffice
  <2>3. CASE pc' = "rollback"
    <3>1. journal'.state = "PENDING" /\ journal'.entries = entries'
      BY <1>4, <2>3 DEF RecoverJournalled, NeedsRollback, Return, disk
    <3> QED BY <1>4, <2>3, <3>1 DEF RecoverJournalled, Return, disk, Progress, BackupsSuffice
  <2> QED BY <1>4, <2>1, <2>2, <2>3 DEF RecoverJournalled, Return
<1>5. CASE RestoreOne
  <2>1. /\ pc = "rollback" /\ index \in DOMAIN entries /\ entries[index].file \in Files
        /\ UNCHANGED <<dir, journal, old, new>>
    <3>1. pc = "rollback" /\ index <= Len(entries) /\ UNCHANGED <<dir, journal, old, new>>
      BY <1>5 DEF RestoreOne
    <3>2. index \in 1..Len(entries)
      BY <1>a, <3>1 DEF EntryList, TypeOK
    <3>3. entries[index] \in Entry
      BY <1>a, <3>2 DEF EntryList
    <3> QED BY <1>a, <3>1, <3>2, <3>3 DEF Entry, EntryList
  <2>2. CASE BackupMissing
    BY <1>5, <2>1, <2>2 DEF RestoreOne, Return, Progress, BackupsSuffice
  <2>3. CASE ~BackupMissing
    <3>1. /\ dest' = [dest EXCEPT ![entries[index].file] = Before(index)]
          /\ pc' = pc /\ index' = index + 1 /\ entries' = entries /\ stray' = stray
      BY <1>5, <2>3 DEF RestoreOne, Before
    <3>2. \A k \in DOMAIN entries : Before(k)' = Before(k)
      BY <2>1, <3>1 DEF Before
    <3>3. ASSUME NEW k \in DOMAIN entries, k < index + 1
          PROVE  dest'[entries[k].file] = Before(k)
      <4>1. CASE k = index
        BY <1>a, <2>1, <3>1, <4>1 DEF TypeOK
      <4>2. CASE k # index
        <5>1. k < index /\ entries[k].file # entries[index].file
          BY <1>a, <2>1, <3>3, <4>2 DEF EntryList, Distinct, TypeOK
        <5> QED BY <2>1, <3>1, <5>1 DEF Progress
      <4> QED BY <4>1, <4>2
    <3>4. Progress'
      BY <2>1, <3>1, <3>2, <3>3 DEF Progress
    <3> QED BY <2>1, <3>1, <3>4 DEF BackupsSuffice
  <2> QED BY <2>2, <2>3
<1>6. CASE Restored
  BY <1>6, <1>a DEF Restored, AfterRollback, disk, Progress, Before, BackupsSuffice, TypeOK
<1>7. CASE MarkRolledBack
  BY <1>7 DEF MarkRolledBack, StartRemoval, Return, Progress, BackupsSuffice
<1>8. CASE RemoveOne
  BY <1>8 DEF RemoveOne, Progress, BackupsSuffice
<1>9. CASE FilesRemoved
  BY <1>9 DEF FilesRemoved, disk, Progress, BackupsSuffice
<1>10. CASE RemoveJournal
  BY <1>10 DEF RemoveJournal, NoJournal, Progress, BackupsSuffice
<1>11. CASE RemoveDir
  BY <1>11 DEF RemoveDir, DirEmpty, Succeed, Return, Progress, BackupsSuffice
<1>12. CASE ReturnRecovered
  BY <1>12 DEF ReturnRecovered, Return, disk, Progress, BackupsSuffice
<1>13. CASE Commit
  BY <1>13 DEF Commit, disk, Progress, BackupsSuffice
<1> QED BY <1>1, <1>2, <1>3, <1>4, <1>5, <1>6, <1>7, <1>8, <1>9, <1>10, <1>11, <1>12, <1>13
    DEF RecoveryStep

LEMMA CommitKeepsDisk ==
  ASSUME ControlInv, ControlInv', DiskInv, CommitStep
  PROVE  DiskInv'
<1> USE TlsAssumption DEF DiskInv, JournalPhase, Goto, Step, Loop, history, Interrupted
<1>a. TypeOK /\ PathList(paths) /\ EntryList(entries) /\ CommitControl
  BY DEF ControlInv
<1>b. EntryList(entries') /\ CommitControl'
  BY DEF ControlInv
<1>1. CASE MakeDir
  <2>1. /\ ~dir /\ dir' = TRUE /\ pc' = "stage" /\ entries' = <<>> /\ UNCHANGED <<journal, stray>>
    BY <1>1, <1>a DEF MakeDir, CommitControl
  <2>2. journal.state = "none"
    BY <2>1, <1>1 DEF MakeDir, NoJournal
  <2>3. Progress'
    BY <2>1 DEF Progress
  <2> QED BY <2>1, <2>2, <2>3 DEF BackupsSuffice
<1>2. CASE Stage
  <2> DEFINE f == paths[index]
  <2>1. /\ pc = "stage" /\ pc' = "stage" /\ index \in DOMAIN paths /\ Len(entries) = index - 1
        /\ index \in Files /\ f \in Files /\ UNCHANGED <<dest, dir, journal, paths, gen, stray>>
    BY <1>2, <1>a DEF Stage, CommitControl, PathList, TypeOK, Files
  <2>2. /\ entries' = Append(entries, [file |-> f, existed |-> dest[f] # Missing])
        /\ old' = [old EXCEPT ![index] = IF dest[f] # Missing THEN dest[f] ELSE @]
        /\ new' = [new EXCEPT ![index] = gen]
    BY <1>2 DEF Stage
  <2>3. /\ DOMAIN entries' = 1..index
        /\ \A k \in 1..index : entries'[k] = IF k = index
             THEN [file |-> f, existed |-> dest[f] # Missing] ELSE entries[k]
    <3> DEFINE e == [file |-> f, existed |-> dest[f] # Missing]
    <3>1. e \in Entry
      BY <2>1 DEF Entry
    <3>2. entries' = Append(entries, e) /\ entries \in Seq(Entry) /\ Len(entries) = index - 1
      BY <1>a, <2>1, <2>2 DEF EntryList
    <3> HIDE DEF e
    <3>3. /\ entries' \in Seq(Entry) /\ Len(entries') = index
          /\ \A k \in 1..index : entries'[k] = IF k = index THEN e ELSE entries[k]
      BY <2>1, <3>1, <3>2
    <3> QED BY <3>3 DEF e
  <2>4. ASSUME NEW k \in DOMAIN entries'
        PROVE  /\ (IF entries'[k].existed THEN old'[k] ELSE Missing) = dest[paths[k]]
               /\ new'[k] = gen
               /\ entries'[k].existed => dest[paths[k]] # Missing
    <3>1. CASE k = index
      <4>1. /\ entries'[k].existed = (dest[f] # Missing) /\ paths[k] = f
            /\ old'[k] = (IF dest[f] # Missing THEN dest[f] ELSE old[k]) /\ new'[k] = gen
        BY <1>a, <2>1, <2>2, <2>3, <3>1 DEF TypeOK
      <4> QED BY <4>1
    <3>2. CASE k # index
      <4>1. k \in DOMAIN entries /\ k \in Files
        BY <1>a, <2>1, <2>3, <3>2 DEF EntryList, Files
      <4>2. entries'[k] = entries[k] /\ old'[k] = old[k] /\ new'[k] = new[k]
        BY <1>a, <2>1, <2>2, <2>3, <3>2, <4>1 DEF TypeOK
      <4> QED BY <2>1, <4>1, <4>2 DEF Progress, Before
    <3> QED BY <3>1, <3>2
  <2>5. Progress'
    BY <2>1, <2>4 DEF Progress, Before
  <2> QED BY <2>1, <2>5 DEF BackupsSuffice
<1>3. CASE Staged
  BY <1>3 DEF Staged, disk, Progress, Before, BackupsSuffice
<1>4. CASE WritePending
  BY <1>4, <1>a DEF WritePending, Progress, Before, BackupsSuffice, CommitControl, Installing,
     EntryList, PathList
<1>5. CASE Rename
  BY <1>5, <1>a DEF Rename, Progress, BackupsSuffice, PathList, Increasing, TypeOK, Files
<1>6. CASE Renamed
  BY <1>6, <1>a DEF Renamed, disk, Progress, BackupsSuffice, PathList, TypeOK
<1>7. CASE WriteComplete
  BY <1>7 DEF WriteComplete, StartRemoval, Progress, BackupsSuffice
<1> QED BY <1>1, <1>2, <1>3, <1>4, <1>5, <1>6, <1>7 DEF CommitStep

LEMMA FaultKeepsDisk ==
  ASSUME ControlInv, DiskInv, FaultStep
  PROVE  DiskInv'
<1> USE TlsAssumption DEF DiskInv, JournalPhase, Goto, Fault, Interrupted, history
<1>a. TypeOK /\ PathList(paths) /\ EntryList(entries) /\ CommitControl
  BY DEF ControlInv
<1>1. CASE Crash
  BY <1>1 DEF Crash, disk, Progress, BackupsSuffice
<1>2. CASE RecoveryFails
  BY <1>2 DEF RecoveryFails, DirEmpty, Return, Progress, BackupsSuffice
<1>3. CASE MakeDirFails
  BY <1>3 DEF MakeDirFails, Return, Progress, BackupsSuffice, NoJournal
<1>4. CASE StageFails
  BY <1>4 DEF StageFails, Progress, BackupsSuffice
<1>5. CASE PendingFails
  BY <1>5 DEF PendingFails, JournalFails, StartRemoval, Progress, BackupsSuffice
<1>6. CASE RenameFails
  BY <1>6, <1>a DEF RenameFails, UndoOnRename, StartRollback, Progress, BackupsSuffice, EntryList
<1>7. CASE CompleteFails
  BY <1>7, <1>a DEF CompleteFails, JournalFails, StartRollback, Progress, BackupsSuffice,
     EntryList
<1> QED BY <1>1, <1>2, <1>3, <1>4, <1>5, <1>6, <1>7 DEF FaultStep

LEMMA DiskInvariant == Spec => []DiskInv
<1>1. ControlInv /\ DiskInv /\ UNCHANGED vars => DiskInv'
  BY DEF DiskInv, JournalPhase, Progress, Before, BackupsSuffice, vars, disk, history
<1>2. ControlInv /\ ControlInv' /\ DiskInv /\ [Next]_vars => DiskInv'
  BY <1>1, RecoveryKeepsDisk, CommitKeepsDisk, FaultKeepsDisk DEF Next
<1> QED BY <1>2, ControlInvariant, DiskInit, PTL DEF Spec

\* Whatever fails or crashes, the rollback of a PENDING journal that was written
\* without an error finds every backup.
THEOREM RollbackFindsBackups == Spec => []BackupsSuffice
<1>1. DiskInv => BackupsSuffice
  BY DEF DiskInv
<1> QED BY <1>1, DiskInvariant, PTL

-----------------------------------------------------------------------------
(* The refinement of TlsSuite: what recovery would make of the directory   *)
(* changes in one step only, the rename of the COMPLETE journal.           *)

\* Without a PENDING journal the files are what they are.
LEMMA RecoveredSettled ==
  ASSUME NEW files, NEW left, NEW backups,
         files = [f \in Files |-> files[f]], left.state # "PENDING"
  PROVE  Recovered(files, left, backups) = files
BY DEF Recovered

\* A file a PENDING journal names goes back to its backup.
LEMMA RecoveredEntry ==
  ASSUME NEW files, NEW left, NEW backups,
         left.state = "PENDING", Distinct(left.entries),
         NEW k \in DOMAIN left.entries, left.entries[k].file \in Files
  PROVE  Recovered(files, left, backups)[left.entries[k].file] =
           IF left.entries[k].existed THEN backups[k] ELSE Missing
<1> DEFINE j == CHOOSE j \in DOMAIN left.entries : left.entries[j].file = left.entries[k].file
<1>1. j \in DOMAIN left.entries /\ left.entries[j].file = left.entries[k].file
  OBVIOUS
<1>2. j = k
  BY <1>1 DEF Distinct
<1> QED BY <1>2 DEF Recovered

\* A file it does not name stays.
LEMMA RecoveredElsewhere ==
  ASSUME NEW files, NEW left, NEW backups, NEW f \in Files,
         \A k \in DOMAIN left.entries : left.entries[k].file # f
  PROVE  Recovered(files, left, backups)[f] = files[f]
BY DEF Recovered

\* While the journal is PENDING, the files it names may change.
LEMMA RecoveredPending ==
  ASSUME NEW files, NEW files2, NEW left, NEW backups, left.state = "PENDING",
         \A f \in Files : files2[f] = files[f] \/ \E k \in DOMAIN left.entries : left.entries[k].file = f
  PROVE  Recovered(files2, left, backups) = Recovered(files, left, backups)
BY DEF Recovered

\* A PENDING journal whose backups are the files themselves changes nothing.
LEMMA RecoveredBackups ==
  ASSUME NEW files, NEW left, NEW backups,
         files = [f \in Files |-> files[f]], EntryList(left.entries), left.state = "PENDING",
         \A k \in DOMAIN left.entries : files[left.entries[k].file] =
           IF left.entries[k].existed THEN backups[k] ELSE Missing
  PROVE  Recovered(files, left, backups) = files
<1>1. ASSUME NEW f \in Files PROVE Recovered(files, left, backups)[f] = files[f]
  <2>1. CASE \E k \in DOMAIN left.entries : left.entries[k].file = f
    <3>1. PICK k \in DOMAIN left.entries : left.entries[k].file = f
      BY <2>1
    <3> QED BY <3>1, RecoveredEntry DEF EntryList
  <2>2. CASE \A k \in DOMAIN left.entries : left.entries[k].file # f
    BY <2>2, RecoveredElsewhere
  <2> QED BY <2>1, <2>2
<1>2. Recovered(files, left, backups) = [f \in Files |-> Recovered(files, left, backups)[f]]
  BY DEF Recovered
<1> QED BY <1>1, <1>2

LEMMA RecoveryKeepsSuite ==
  ASSUME ControlInv, DiskInv, RecoveryStep, stray = "none"
  PROVE  UNCHANGED Effective
<1> USE DEF DiskInv, JournalPhase, Effective
<1>a. /\ dest = [f \in Files |-> dest[f]] /\ EntryList(entries) /\ TypeOK
  BY DEF ControlInv, TypeOK
<1>1. CASE UNCHANGED disk
  BY <1>1 DEF disk
<1>2. CASE RestoreOne
  <2>1. journal.state = "PENDING" /\ journal.entries = entries /\ UNCHANGED <<journal, old>>
    BY <1>2 DEF RestoreOne
  <2>2. \A f \in Files : dest'[f] = dest[f] \/ \E k \in DOMAIN entries : entries[k].file = f
    <3>1. index \in DOMAIN entries
      BY <1>2, <1>a DEF RestoreOne, TypeOK, EntryList
    <3> QED BY <1>2, <1>a, <3>1 DEF RestoreOne, BackupMissing
  <2> QED BY <2>1, <2>2, RecoveredPending
<1>3. CASE MarkRolledBack
  <2>1. journal.state = "PENDING" /\ journal.entries = entries
        /\ journal'.state # "PENDING" /\ UNCHANGED <<dest, old>>
    BY <1>3 DEF MarkRolledBack
  <2>2. \A k \in DOMAIN entries : dest[entries[k].file] =
          IF entries[k].existed THEN old[k] ELSE Missing
    BY <1>3 DEF MarkRolledBack, Progress, Before
  <2>3. Recovered(dest, journal, old) = dest
    BY <1>a, <2>1, <2>2, RecoveredBackups
  <2>4. Recovered(dest', journal', old') = dest'
    BY <1>a, <2>1, RecoveredSettled
  <2> QED BY <2>1, <2>3, <2>4
<1>4. CASE RemoveOne \/ RemoveJournal \/ RemoveDir
  <2>1. journal.state # "PENDING" /\ journal'.state # "PENDING" /\ dest' = dest
    BY <1>4 DEF RemoveOne, RemoveJournal, RemoveDir, NoJournal
  <2> QED BY <1>a, <2>1, RecoveredSettled
<1> QED BY <1>1, <1>2, <1>3, <1>4
    DEF RecoveryStep, NothingToRecover, RecoverUnjournalled, RecoverJournalled, Restored, FilesRemoved

\* The one step that installs a bundle.
LEMMA CompleteInstalls ==
  ASSUME ControlInv, DiskInv, WriteComplete
  PROVE  Suite!Next
<1> USE DEF DiskInv, JournalPhase, Effective
<1>s. stray = "none" /\ stray' = "none"
  BY DEF WriteComplete, history
<1> DEFINE bundle == {paths[k] : k \in DOMAIN paths}
<1>a. /\ dest = [f \in Files |-> dest[f]] /\ EntryList(entries) /\ gen \in Gens
      /\ paths \in Bundles /\ Len(entries) = Len(paths) /\ paths \in Seq(Files)
      /\ \A k \in DOMAIN entries : entries[k].file = paths[k]
  BY DEF ControlInv, TypeOK, CommitControl, Installing, WriteComplete
<1>b. DOMAIN entries = DOMAIN paths
  BY <1>a DEF EntryList
<1>1. journal.state = "PENDING" /\ journal.entries = entries /\ journal'.state # "PENDING"
      /\ UNCHANGED <<dest, old>>
  BY DEF WriteComplete
<1>2. \A k \in DOMAIN paths : dest[paths[k]] = gen
  BY DEF WriteComplete, Progress
<1>3. Effective' = dest
  BY <1>a, <1>1, RecoveredSettled
<1>4. ASSUME NEW f \in Files PROVE dest[f] = IF f \in bundle THEN gen ELSE Effective[f]
  <2>1. CASE f \in bundle
    BY <1>2, <2>1
  <2>2. CASE f \notin bundle
    BY <1>a, <1>b, <1>1, <2>2, RecoveredElsewhere
  <2> QED BY <2>1, <2>2
<1>5. Effective' = [f \in Files |-> IF f \in bundle THEN gen ELSE Effective[f]]
  BY <1>a, <1>3, <1>4
<1>6. bundle \in {{b[k] : k \in DOMAIN b} : b \in Bundles}
  BY <1>a
<1>7. Suite!Install(bundle, gen)
  BY <1>s, <1>5 DEF Suite!Install, Shown
<1> QED BY <1>a, <1>6, <1>7 DEF Suite!Next

LEMMA CommitKeepsSuite ==
  ASSUME ControlInv, DiskInv, CommitStep, ~WriteComplete
  PROVE  UNCHANGED Effective
<1> USE DEF DiskInv, JournalPhase, Effective
<1>a. /\ dest = [f \in Files |-> dest[f]] /\ EntryList(entries) /\ CommitControl
      /\ PathList(paths) /\ TypeOK
  BY DEF ControlInv, TypeOK
<1>1. CASE UNCHANGED disk
  BY <1>1 DEF disk
<1>2. CASE MakeDir \/ Stage
  <2>1. journal.state # "PENDING" /\ UNCHANGED <<journal, dest>>
    BY <1>2 DEF MakeDir, Stage, NoJournal
  <2> QED BY <1>a, <2>1, RecoveredSettled
<1>3. CASE WritePending
  <2>1. journal.state # "PENDING" /\ journal'.state = "PENDING" /\ journal'.entries = entries
        /\ UNCHANGED <<dest, old>>
    BY <1>3 DEF WritePending
  <2>2. \A k \in DOMAIN entries : dest[entries[k].file] =
          IF entries[k].existed THEN old[k] ELSE Missing
    BY <1>3, <1>a DEF WritePending, Progress, Before, CommitControl, Installing
  <2>3. Recovered(dest', journal', old') = dest
    BY <1>a, <2>1, <2>2, RecoveredBackups
  <2>4. Recovered(dest, journal, old) = dest
    BY <1>a, <2>1, RecoveredSettled
  <2> QED BY <2>3, <2>4
<1>4. CASE Rename
  <2>1. journal.state = "PENDING" /\ journal.entries = entries /\ UNCHANGED <<journal, old>>
    BY <1>4 DEF Rename
  <2>2. index \in DOMAIN entries /\ entries[index].file = paths[index]
    BY <1>4, <1>a DEF Rename, CommitControl, Installing, EntryList, PathList, TypeOK
  <2>3. \A f \in Files : dest'[f] = dest[f] \/ \E k \in DOMAIN entries : entries[k].file = f
    BY <1>4, <1>a, <2>2 DEF Rename
  <2> QED BY <2>1, <2>3, RecoveredPending
<1> QED BY <1>1, <1>2, <1>3, <1>4 DEF CommitStep, Staged, Renamed

LEMMA FaultKeepsSuite ==
  ASSUME ControlInv, DiskInv, FaultStep, stray = "none", stray' = "none"
  PROVE  UNCHANGED Effective
<1> USE DEF DiskInv, JournalPhase, Effective
<1>a. /\ dest = [f \in Files |-> dest[f]] /\ EntryList(entries) /\ CommitControl
      /\ PathList(paths) /\ TypeOK
  BY DEF ControlInv, TypeOK
<1>1. CASE Crash \/ RecoveryFails \/ MakeDirFails \/ PendingFails \/ CompleteFails
  BY <1>1 DEF Crash, RecoveryFails, MakeDirFails, PendingFails, CompleteFails,
     JournalFails, disk
<1>2. CASE StageFails
  <2>1. journal.state # "PENDING" /\ UNCHANGED <<journal, dest>>
    BY <1>2 DEF StageFails
  <2> QED BY <1>a, <2>1, RecoveredSettled
<1>3. CASE RenameFails
  <2>1. journal.state = "PENDING" /\ journal.entries = entries /\ UNCHANGED <<journal, old>>
    BY <1>3 DEF RenameFails
  <2>2. index \in DOMAIN entries /\ entries[index].file = paths[index]
    BY <1>3, <1>a DEF RenameFails, CommitControl, Installing, EntryList, PathList, TypeOK
  <2>3. \A f \in Files : dest'[f] = dest[f] \/ \E k \in DOMAIN entries : entries[k].file = f
    BY <1>3, <1>a, <2>2 DEF RenameFails
  <2> QED BY <2>1, <2>3, RecoveredPending
<1> QED BY <1>1, <1>2, <1>3 DEF FaultStep

-----------------------------------------------------------------------------
(* Stray journals: what the files are while their call undoes them.        *)

\* An undoing that reaches its end gives the files back as they were.
LEMMA UndoingEnds ==
  ASSUME ControlInv, DiskInv, FormerInv, RecoveryStep, stray = "undoing", stray' = "none"
  PROVE  Effective' = former
<1> USE DEF DiskInv, JournalPhase, Effective
<1>a. dest = [f \in Files |-> dest[f]] /\ EntryList(entries)
  BY DEF ControlInv, TypeOK
<1>1. CASE MarkRolledBack
  <2> DEFINE pending == [state |-> "PENDING", entries |-> entries]
  <2>1. /\ pc = "mark" /\ journal'.state # "PENDING" /\ dest' = dest
        /\ Recovered(dest, pending, old) = former
    BY <1>1 DEF MarkRolledBack, FormerInv
  <2>2. \A k \in DOMAIN pending.entries : dest[pending.entries[k].file] =
          IF pending.entries[k].existed THEN old[k] ELSE Missing
    BY <2>1 DEF Progress, Before
  <2>3. EntryList(pending.entries) /\ pending.state = "PENDING"
    BY <1>a
  <2> HIDE DEF pending
  <2>4. Recovered(dest, pending, old) = dest
    BY <1>a, <2>2, <2>3, RecoveredBackups
  <2>5. dest = former
    BY <2>1, <2>4
  <2> QED BY <1>a, <2>1, <2>5, RecoveredSettled
<1>2. CASE RemoveJournal
  <2>1. pc = "removeJournal" /\ journal'.state # "PENDING" /\ dest' = dest /\ dest = former
    BY <1>2 DEF RemoveJournal, NoJournal, FormerInv
  <2> QED BY <1>a, <2>1, RecoveredSettled
<1> QED BY <1>1, <1>2
    DEF RecoveryStep, NothingToRecover, RecoverUnjournalled, RecoverJournalled, RestoreOne,
        Restored, RemoveOne, FilesRemoved, RemoveDir, Interrupted, history

\* A stray journal appears while a rollback or nothing at all is needed to
\* have the former files.
LEMMA StrayAppears ==
  ASSUME ControlInv, DiskInv, FormerInv, FaultStep, stray = "none", stray' # "none"
  PROVE  Effective = former
<1> USE DEF DiskInv, JournalPhase, Effective
<1>a. dest = [f \in Files |-> dest[f]]
  BY DEF ControlInv, TypeOK
<1>1. pc = "pending" \/ pc = "complete"
  BY DEF FaultStep, Crash, RecoveryFails, MakeDirFails, StageFails, PendingFails, RenameFails,
     CompleteFails, Interrupted
<1>2. CASE pc = "pending"
  BY <1>a, <1>2, RecoveredSettled DEF FormerInv
<1>3. CASE pc = "complete"
  BY <1>3 DEF FormerInv
<1> QED BY <1>1, <1>2, <1>3

LEMMA RecoveryKeepsFormer ==
  ASSUME ControlInv, ControlInv', DiskInv, DiskInv', FormerInv,
         RecoveryStep \/ Call \/ ReturnRecovered \/ Commit
  PROVE  FormerInv'
<1> USE DEF DiskInv, JournalPhase, Goto, Step, Loop, history, Interrupted
<1>a. /\ dest = [f \in Files |-> dest[f]] /\ EntryList(entries) /\ TypeOK
  BY DEF ControlInv, TypeOK
<1>1. CASE Call
  BY <1>1 DEF Call, FormerInv, disk
<1>2. CASE NothingToRecover
  BY <1>2 DEF NothingToRecover, Succeed, Return, FormerInv, disk
<1>3. CASE RecoverUnjournalled
  BY <1>3 DEF RecoverUnjournalled, StartRemoval, FormerInv, disk
<1>4. CASE RecoverJournalled
  BY <1>4 DEF RecoverJournalled, Return, FormerInv, disk
<1>5. CASE RestoreOne
  <2> DEFINE pending == [state |-> "PENDING", entries |-> entries]
  <2>1. pc = "rollback" /\ UNCHANGED <<dir, journal, old, former, entries>> /\ purpose # "precommit"
    BY <1>5 DEF RestoreOne, Return, FormerInv
  <2>2. CASE stray' = "undoing"
    <3>1. \A f \in Files : dest'[f] = dest[f] \/ \E k \in DOMAIN entries : entries[k].file = f
      <4>1. index \in DOMAIN entries
        BY <1>5, <1>a DEF RestoreOne, TypeOK, EntryList
      <4> QED BY <1>5, <1>a, <4>1 DEF RestoreOne, BackupMissing
    <3>2. Recovered(dest', pending, old) = Recovered(dest, pending, old)
      <4>1. pending.state = "PENDING" /\ pending.entries = entries
        OBVIOUS
      <4> HIDE DEF pending
      <4> QED BY <3>1, <4>1, RecoveredPending
    <3>3. pc' = "rollback" /\ purpose' = purpose /\ stray = "undoing"
      BY <1>5, <2>1, <2>2 DEF RestoreOne, Return
    <3> QED BY <2>1, <2>2, <3>2, <3>3 DEF FormerInv
  <2>3. CASE stray' # "undoing"
    BY <1>5, <2>1, <2>3 DEF RestoreOne, Return, FormerInv
  <2> QED BY <2>2, <2>3
<1>6. CASE Restored
  BY <1>6 DEF Restored, AfterRollback, FormerInv, disk
<1>7. CASE MarkRolledBack
  BY <1>7 DEF MarkRolledBack, StartRemoval, Return, FormerInv
<1>8. CASE RemoveOne
  BY <1>8 DEF RemoveOne, FormerInv
<1>9. CASE FilesRemoved
  BY <1>9 DEF FilesRemoved, FormerInv, disk
<1>10. CASE RemoveJournal
  BY <1>10 DEF RemoveJournal, FormerInv
<1>11. CASE RemoveDir
  BY <1>11 DEF RemoveDir, Succeed, Return, FormerInv
<1>12. CASE ReturnRecovered
  BY <1>12 DEF ReturnRecovered, Return, FormerInv, disk
<1>13. CASE Commit
  BY <1>13 DEF Commit, FormerInv, disk
<1> QED BY <1>1, <1>2, <1>3, <1>4, <1>5, <1>6, <1>7, <1>8, <1>9, <1>10, <1>11, <1>12, <1>13
    DEF RecoveryStep

LEMMA CommitKeepsFormer ==
  ASSUME ControlInv, DiskInv, FormerInv, CommitStep
  PROVE  FormerInv'
<1> USE DEF DiskInv, JournalPhase, Goto, Step, Loop, history
<1>a. dest = [f \in Files |-> dest[f]] /\ CommitControl
  BY DEF ControlInv, TypeOK
<1>1. CASE MakeDir
  BY <1>1, <1>a DEF MakeDir, FormerInv, CommitControl
<1>2. CASE Stage
  BY <1>2 DEF Stage, FormerInv
<1>3. CASE Staged
  BY <1>3 DEF Staged, FormerInv, disk
<1>4. CASE WritePending
  <2>1. /\ pc = "pending" /\ dest = former /\ journal.state # "PENDING"
        /\ UNCHANGED <<purpose, former, stray>> /\ pc' = "rename" /\ stray = "none"
    BY <1>4 DEF WritePending, FormerInv
  <2>2. Effective = dest
    BY <1>a, <2>1, RecoveredSettled DEF Effective
  <2>3. UNCHANGED Effective
    BY <1>4, CommitKeepsSuite DEF CommitStep, WritePending, WriteComplete
  <2> QED BY <2>1, <2>2, <2>3 DEF FormerInv
<1>5. CASE Rename \/ Renamed
  <2>1. UNCHANGED Effective
    BY <1>5, CommitKeepsSuite DEF CommitStep, Rename, Renamed, WriteComplete
  <2>2. /\ pc = "rename" /\ pc' \in {"rename", "complete"}
        /\ UNCHANGED <<purpose, former, stray>> /\ stray = "none"
    BY <1>5 DEF Rename, Renamed
  <2> QED BY <2>1, <2>2 DEF FormerInv
<1>6. CASE WriteComplete
  BY <1>6 DEF WriteComplete, StartRemoval, FormerInv
<1> QED BY <1>1, <1>2, <1>3, <1>4, <1>5, <1>6 DEF CommitStep

LEMMA FaultKeepsFormer ==
  ASSUME ControlInv, DiskInv, FormerInv, FaultStep
  PROVE  FormerInv'
<1> USE DEF DiskInv, JournalPhase, Goto, Fault, Interrupted
<1>1. CASE Crash
  BY <1>1 DEF Crash, FormerInv
<1>2. CASE RecoveryFails
  BY <1>2 DEF RecoveryFails, Return, FormerInv
<1>3. CASE MakeDirFails
  BY <1>3 DEF MakeDirFails, Return, FormerInv
<1>4. CASE StageFails
  BY <1>4 DEF StageFails, FormerInv
<1>5. CASE PendingFails
  BY <1>5 DEF PendingFails, StartRemoval, FormerInv
<1>6. CASE RenameFails
  BY <1>6 DEF RenameFails, UndoOnRename, StartRollback, FormerInv
<1>7. CASE CompleteFails
  <2> DEFINE pending == [state |-> "PENDING", entries |-> entries]
  <2>1. /\ pc = "complete" /\ Effective = former /\ journal.state = "PENDING"
        /\ journal.entries = entries
    BY <1>7 DEF CompleteFails, FormerInv
  <2>2. Recovered(dest, pending, old) = Effective
    BY <2>1 DEF Effective, Recovered
  <2>3. UNCHANGED <<dest, old, entries, former>> /\ pc' = "rollback" /\ purpose' = "undoLate"
    BY <1>7 DEF CompleteFails, StartRollback
  <2> QED BY <2>1, <2>2, <2>3 DEF FormerInv
<1> QED BY <1>1, <1>2, <1>3, <1>4, <1>5, <1>6, <1>7 DEF FaultStep

LEMMA FormerInvariant == Spec => []FormerInv
<1>1. Init => FormerInv
  BY DEF Init, FormerInv
<1>2. FormerInv /\ UNCHANGED vars => FormerInv'
  BY DEF FormerInv, Effective, vars, disk, history
<1>3. ControlInv /\ ControlInv' /\ DiskInv /\ DiskInv' /\ FormerInv /\ [Next]_vars => FormerInv'
  BY <1>2, RecoveryKeepsFormer, CommitKeepsFormer, FaultKeepsFormer DEF Next
<1> QED BY <1>1, <1>3, ControlInvariant, DiskInvariant, PTL DEF Spec

\* What callers are shown changes only by whole bundles, until an undoing that
\* was interrupted is cleaned up.
LEMMA ShownStep ==
  ASSUME ControlInv, DiskInv, FormerInv, [Next]_vars, stray # "left"
  PROVE  Suite!Next \/ UNCHANGED Shown
<1> USE DEF Shown
<1>a. stray \in {"none", "undoing"} /\ stray' \in {"none", "undoing", "left"}
  BY DEF ControlInv, TypeOK, Next, Call, Commit, ReturnRecovered, RecoveryStep, CommitStep,
     FaultStep, NothingToRecover, RecoverUnjournalled, RecoverJournalled, RestoreOne, Restored,
     MarkRolledBack, RemoveOne, FilesRemoved, RemoveJournal, RemoveDir, MakeDir, Stage, Staged,
     WritePending, Rename, Renamed, WriteComplete, Crash, RecoveryFails, MakeDirFails,
     StageFails, PendingFails, RenameFails, CompleteFails, JournalFails, Interrupted, vars, history
<1>1. CASE UNCHANGED vars
  BY <1>1 DEF Effective, vars, disk, history
<1>2. CASE Call \/ ReturnRecovered \/ Commit
  <2>1. stray = "none"
    BY <1>2, <1>a DEF Call, ReturnRecovered, Commit, DiskInv, JournalPhase
  <2> QED BY <1>2, <2>1 DEF Call, ReturnRecovered, Commit, Effective, disk, history
<1>3. CASE RecoveryStep
  <2>1. former' = former /\ (stray = "none" => stray' = "none")
    BY <1>3 DEF RecoveryStep, Interrupted, NothingToRecover, RecoverUnjournalled, RecoverJournalled,
       RestoreOne, Restored, MarkRolledBack, RemoveOne, FilesRemoved, RemoveJournal, RemoveDir, history
  <2>2. CASE stray = "none"
    BY <1>3, <2>1, <2>2, RecoveryKeepsSuite
  <2>3. CASE stray = "undoing" /\ stray' = "none"
    BY <1>3, <2>3, UndoingEnds
  <2>4. CASE stray = "undoing" /\ stray' # "none"
    BY <2>1, <2>4
  <2> QED BY <1>a, <2>1, <2>2, <2>3, <2>4
<1>4. CASE CommitStep
  <2>1. stray = "none" /\ stray' = "none"
    BY <1>4, <1>a DEF CommitStep, MakeDir, Stage, Staged, WritePending, Rename, Renamed,
       WriteComplete, DiskInv, JournalPhase, history
  <2> QED BY <1>4, <2>1, CommitKeepsSuite, CompleteInstalls
<1>5. CASE FaultStep
  <2>1. former' = former
    BY <1>5 DEF FaultStep, Crash, RecoveryFails, MakeDirFails, StageFails, PendingFails,
       RenameFails, CompleteFails, Fault
  <2>2. CASE stray = "none" /\ stray' = "none"
    BY <1>5, <2>2, FaultKeepsSuite
  <2>3. CASE stray = "none" /\ stray' # "none"
    BY <1>5, <2>1, <2>3, StrayAppears
  <2>4. CASE stray = "undoing"
    <3>1. stray' # "none"
      BY <1>5, <2>4 DEF FaultStep, Crash, RecoveryFails, MakeDirFails, StageFails, PendingFails,
         RenameFails, CompleteFails, JournalFails, Interrupted
    <3> QED BY <2>1, <2>4, <3>1
  <2> QED BY <1>a, <2>2, <2>3, <2>4
<1> QED BY <1>1, <1>2, <1>3, <1>4, <1>5 DEF Next

\* The transaction implements the atomic installation of TlsSuite, for any
\* bundles of any number of files, whatever crashes and whatever call fails,
\* journal writes that fail after their rename included, until the undoing of
\* such a journal is itself interrupted.
THEOREM Refinement == Spec => InstallsAtomically
<1>1. Init => Suite!Init
  <2> SUFFICES ASSUME Init PROVE Suite!Init
    OBVIOUS
  <2>1. dest = [f \in Files |-> dest[f]] /\ journal.state # "PENDING" /\ stray = "none"
    BY DEF Init, NoJournal
  <2>2. Shown = dest
    BY <2>1, RecoveredSettled DEF Effective, Shown
  <2>3. dest \in [Files -> Gens \cup {Missing}]
    BY TlsAssumption DEF Init, Gens, Missing
  <2> QED BY <2>2, <2>3 DEF Suite!Init, Suite!Missing, Missing
<1>2. ControlInv /\ DiskInv /\ FormerInv /\ [Next]_vars
        => [Suite!Next \/ stray = "left"]_Shown
  BY ShownStep
<1> QED BY <1>1, <1>2, ControlInvariant, DiskInvariant, FormerInvariant, PTL
    DEF Spec, InstallsAtomically
=============================================================================
