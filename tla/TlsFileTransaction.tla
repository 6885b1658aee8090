------------------------- MODULE TlsFileTransaction -------------------------
(***************************************************************************)
(* runtime/sdk_tls_file_transaction.h: the journalled replacement of the   *)
(* TLS files.  A call of the certificate manager takes the file lock,      *)
(* recovers a leftover transaction (RecoverTlsTransaction over all managed *)
(* files) and then installs at most one bundle (CommitTlsTransaction).     *)
(* The lock makes calls exclusive, so one call at a time is modelled; the  *)
(* process may crash between any two changes of the directory, and any     *)
(* system call may fail.                                                   *)
(*                                                                         *)
(* A file's content is the generation that wrote it.  A file is written,   *)
(* synced and (for restore.N and journal.next) renamed in one step: a      *)
(* half-written one is never read, and every cleanup removes it.           *)
(*                                                                         *)
(* One failed call leaves more than the error it returns: WriteJournal     *)
(* renames the journal into place before the fsync that may still fail, so *)
(* the commit undoes a transaction whose journal is there all the same.    *)
(* Two history variables follow it, and only the properties read them.     *)
(***************************************************************************)
EXTENDS Naturals, Sequences, FiniteSets

CONSTANTS
  NumFiles,            \* the managed files, in the order of ManagedFiles
  Bundles,             \* the path lists a caller commits
  MaxGen,              \* bound on the generations, for model checking
  MaxFaults            \* bound on crashes and failed calls, for model checking

Missing == 0
Files == 1..NumFiles
Gens == 1..MaxGen
AllPaths == [k \in Files |-> k]      \* ManagedFiles

Increasing(s) == \A j, k \in DOMAIN s : j < k => s[j] < s[k]

ASSUME TlsAssumption ==
  /\ NumFiles \in Nat \ {0}
  /\ MaxGen \in Nat \ {0}
  /\ MaxFaults \in Nat
  /\ \A b \in Bundles : b \in Seq(Files) /\ b # <<>> /\ Increasing(b)

VARIABLES
  dest,      \* the files of the TLS directory
  dir,       \* does .tls-update exist?
  journal,   \* .tls-update/journal
  old, new,  \* .tls-update/old.N and new.N, N counted from 1
  pc,        \* where the running call is
  purpose,   \* what the running recovery, rollback or removal is for
  paths,     \* the paths argument of the running function
  entries,   \* its JournalEntry vector
  index,     \* its loop counter
  count,     \* the count argument of RemoveKnownTransactionFiles
  gen,       \* the last generation a commit was asked to install
  outcome,   \* what the last commit returned
  faults,    \* crashes and failed system calls still to come
  former,    \* history: the files before the last commit
  stray      \* history: is the journal one that a failed write left, being
             \* undone by its own call or left behind when that call ended?

disk == <<dest, dir, journal, old, new>>
history == <<former, stray>>
vars == <<disk, pc, purpose, paths, entries, index, count, gen, outcome, faults, history>>

Entry == [file : Files, existed : BOOLEAN]
NoJournal == [state |-> "none", entries |-> <<>>]

TypeOK ==
  /\ dest \in [Files -> Gens \cup {Missing}]
  /\ dir \in BOOLEAN
  /\ journal.state \in {"none", "PENDING", "COMPLETE", "ROLLED_BACK"}
  /\ journal.entries \in Seq(Entry) /\ Len(journal.entries) <= NumFiles
  /\ old \in [Files -> Gens \cup {Missing}]
  /\ new \in [Files -> Gens \cup {Missing}]
  /\ pc \in {"idle", "recover", "rollback", "mark", "removeFiles", "removeJournal",
             "removeDir", "recovered", "mkdir", "stage", "pending", "rename", "complete"}
  /\ purpose \in {"none", "recover", "precommit", "undo", "undoLate", "discard", "finish"}
  /\ paths \in Seq(Files)
  /\ entries \in Seq(Entry)
  /\ index \in 1..(NumFiles + 1)
  /\ count \in 0..NumFiles
  /\ gen \in Gens
  /\ outcome \in {"none", "ok", "failed"}
  /\ faults \in 0..MaxFaults
  /\ former \in [Files -> Gens \cup {Missing}]
  /\ stray \in {"none", "undoing", "left"}

Init ==
  /\ dest \in [Files -> {Missing, 1}]
  /\ dir = FALSE /\ journal = NoJournal
  /\ old = [k \in Files |-> Missing] /\ new = [k \in Files |-> Missing]
  /\ pc = "idle" /\ purpose = "none" /\ paths = <<>> /\ entries = <<>>
  /\ index = 1 /\ count = 0 /\ gen = 1 /\ outcome = "none" /\ faults = MaxFaults
  /\ former = dest /\ stray = "none"

-----------------------------------------------------------------------------
(* Control: where the running function goes on.                            *)

Goto(label) == pc' = label /\ index' = 1
Step == pc' = pc /\ index' = index + 1

Return(result) ==
  /\ Goto("idle")
  /\ purpose' = "none" /\ outcome' = result
  /\ UNCHANGED <<paths, entries, count, gen>>

\* The recovery or the removal ended well: what its caller does next.
Succeed ==
  IF purpose \in {"recover", "precommit"}
  THEN /\ Goto(IF purpose = "recover" THEN "recovered" ELSE "mkdir")
       /\ entries' = <<>>
       /\ UNCHANGED <<purpose, paths, count, gen, outcome>>
  ELSE Return(IF purpose = "finish" THEN "ok" ELSE "failed")

StartRollback(why) ==
  /\ Goto("rollback") /\ purpose' = why
  /\ UNCHANGED <<paths, entries, count, gen, outcome>>

StartRemoval(why, n) ==
  /\ Goto("removeFiles") /\ purpose' = why /\ count' = n
  /\ UNCHANGED <<paths, entries, gen, outcome>>

Loop == UNCHANGED <<purpose, paths, entries, count, gen, outcome>>

\* A call that ends before it has undone its stray journal leaves it behind.
Interrupted == stray' = IF stray = "undoing" THEN "left" ELSE stray

-----------------------------------------------------------------------------
(* RecoverTlsTransaction                                                   *)

\* ValidatePathBinding: the journal's names are a subsequence of the paths.
Bound(names, allowed) ==
  /\ \A k \in DOMAIN names : \E j \in DOMAIN allowed : allowed[j] = names[k].file
  /\ \A j, k \in DOMAIN names : j < k => names[j].file < names[k].file

\* Mutant: a complete transaction is rolled back as well.
NeedsRollback_CompleteToo(state) == state \in {"PENDING", "COMPLETE"}
NeedsRollback(state) == state = "PENDING"

\* A call of the certificate manager: lock, then recover every managed file.
Call ==
  /\ pc = "idle"
  /\ Goto("recover") /\ purpose' = "recover" /\ paths' = AllPaths
  /\ outcome' = "none" /\ entries' = <<>>
  /\ UNCHANGED <<disk, count, gen, faults, history>>

NothingToRecover ==
  /\ pc = "recover" /\ ~dir
  /\ Succeed /\ UNCHANGED <<disk, faults, history>>

RecoverUnjournalled ==
  /\ pc = "recover" /\ dir /\ journal.state = "none"
  /\ StartRemoval(purpose, Len(paths)) /\ UNCHANGED <<disk, faults, history>>

RecoverJournalled ==
  /\ pc = "recover" /\ dir /\ journal.state # "none"
  /\ IF Bound(journal.entries, paths)
     THEN /\ Goto(IF NeedsRollback(journal.state) THEN "rollback" ELSE "removeFiles")
          /\ entries' = journal.entries /\ count' = Len(journal.entries)
          /\ UNCHANGED <<purpose, paths, gen, outcome>>
     ELSE Return("failed")
  /\ UNCHANGED <<disk, faults, history>>

-----------------------------------------------------------------------------
(* Rollback, the ROLLED_BACK journal, and RemoveTransactionDirectory       *)

BackupMissing == entries[index].existed /\ old[index] = Missing

RestoreOne ==
  /\ pc = "rollback" /\ index <= Len(entries)
  /\ IF BackupMissing
     THEN dest' = dest /\ Return("failed") /\ Interrupted
     ELSE /\ dest' = [dest EXCEPT ![entries[index].file] =
                        IF entries[index].existed THEN old[index] ELSE Missing]
          /\ Step /\ Loop /\ stray' = stray
  /\ UNCHANGED <<dir, journal, old, new, faults, former>>

\* Mutant: the cleanup follows without a journal that says the rollback is done.
AfterRollback_NoJournal == "removeFiles"
AfterRollback == "mark"

Restored ==
  /\ pc = "rollback" /\ index > Len(entries)
  /\ Goto(AfterRollback)
  /\ count' = Len(entries)
  /\ UNCHANGED <<disk, purpose, paths, entries, gen, outcome, faults, history>>

MarkRolledBack ==
  /\ pc = "mark"
  /\ journal' = [state |-> "ROLLED_BACK", entries |-> entries]
  /\ IF purpose = "undoLate" THEN Return("failed")
     ELSE StartRemoval(purpose, Len(entries))
  /\ stray' = "none"
  /\ UNCHANGED <<dest, dir, old, new, faults, former>>

RemoveOne ==
  /\ pc = "removeFiles" /\ index <= count
  /\ old' = [old EXCEPT ![index] = Missing]
  /\ new' = [new EXCEPT ![index] = Missing]
  /\ Step /\ Loop
  /\ UNCHANGED <<dest, dir, journal, faults, history>>

FilesRemoved ==
  /\ pc = "removeFiles" /\ index > count
  /\ Goto("removeJournal") /\ Loop /\ UNCHANGED <<disk, faults, history>>

RemoveJournal ==
  /\ pc = "removeJournal"
  /\ journal' = NoJournal
  /\ Goto("removeDir") /\ Loop
  /\ stray' = "none"
  /\ UNCHANGED <<dest, dir, old, new, faults, former>>

DirEmpty == journal = NoJournal /\ \A k \in Files : old[k] = Missing /\ new[k] = Missing

RemoveDir ==
  /\ pc = "removeDir"
  /\ IF DirEmpty THEN dir' = FALSE /\ Succeed ELSE dir' = dir /\ Return("failed")
  /\ UNCHANGED <<dest, journal, old, new, faults, history>>

-----------------------------------------------------------------------------
(* CommitTlsTransaction                                                    *)

ReturnRecovered == pc = "recovered" /\ Return("none") /\ UNCHANGED <<disk, faults, history>>

\* The commit checks its paths and recovers over them before anything else.
Commit ==
  /\ pc = "recovered" /\ gen < MaxGen
  /\ gen' = gen + 1
  /\ \E bundle \in Bundles : paths' = bundle
  /\ Goto("recover") /\ purpose' = "precommit"
  /\ former' = dest
  /\ UNCHANGED <<disk, entries, count, outcome, faults, stray>>

MakeDir ==
  /\ pc = "mkdir" /\ ~dir
  /\ dir' = TRUE
  /\ Goto("stage") /\ purpose' = "finish"
  /\ UNCHANGED <<dest, journal, old, new, paths, entries, count, gen, outcome, faults, history>>

\* Back up a file that exists, write its replacement.
Stage ==
  /\ pc = "stage" /\ index <= Len(paths)
  /\ LET existed == dest[paths[index]] # Missing IN
       /\ entries' = Append(entries, [file |-> paths[index], existed |-> existed])
       /\ old' = [old EXCEPT ![index] = IF existed THEN dest[paths[index]] ELSE @]
       /\ new' = [new EXCEPT ![index] = gen]
  /\ Step
  /\ UNCHANGED <<dest, dir, journal, purpose, paths, count, gen, outcome, faults, history>>

Staged ==
  /\ pc = "stage" /\ index > Len(paths)
  /\ Goto("pending") /\ Loop /\ UNCHANGED <<disk, faults, history>>

WritePending ==
  /\ pc = "pending"
  /\ journal' = [state |-> "PENDING", entries |-> entries]
  /\ Goto("rename") /\ Loop
  /\ UNCHANGED <<dest, dir, old, new, faults, history>>

Rename ==
  /\ pc = "rename" /\ index <= Len(paths)
  /\ dest' = [dest EXCEPT ![paths[index]] = new[index]]
  /\ new' = [new EXCEPT ![index] = Missing]
  /\ Step /\ Loop
  /\ UNCHANGED <<dir, journal, old, faults, history>>

Renamed ==
  /\ pc = "rename" /\ index > Len(paths)
  /\ Goto("complete") /\ Loop /\ UNCHANGED <<disk, faults, history>>

WriteComplete ==
  /\ pc = "complete"
  /\ journal' = [state |-> "COMPLETE", entries |-> entries]
  /\ StartRemoval("finish", Len(entries))
  /\ UNCHANGED <<dest, dir, old, new, faults, history>>

-----------------------------------------------------------------------------
(* Failures.  A step whose effect shows although a later fsync fails has    *)
(* the effect and takes the error path.                                     *)

Fault == faults > 0 /\ faults' = faults - 1 /\ former' = former

Crash ==
  /\ Fault /\ pc # "idle"
  /\ Goto("idle") /\ purpose' = "none" /\ outcome' = "none"
  /\ paths' = <<>> /\ entries' = <<>> /\ count' = 0
  /\ Interrupted
  /\ UNCHANGED <<disk, gen>>

\* Recovery, rollback and removal just return false.
RecoveryFails ==
  /\ Fault
  /\ pc \in {"recover", "rollback", "mark", "removeFiles", "removeJournal", "removeDir"}
  /\ Return("failed")
  /\ dir' = IF pc = "removeDir" /\ DirEmpty THEN FALSE ELSE dir
  /\ Interrupted
  /\ UNCHANGED <<dest, journal, old, new>>

MakeDirFails ==
  /\ Fault /\ pc = "mkdir"
  /\ dir' \in BOOLEAN            \* the later openat may fail instead
  /\ Return("failed")
  /\ UNCHANGED <<dest, journal, old, new, stray>>

StageFails ==
  /\ Fault /\ pc = "stage"
  /\ IF index <= Len(paths)
     THEN LET existed == dest[paths[index]] # Missing IN
            /\ entries' = Append(entries, [file |-> paths[index], existed |-> existed])
            /\ \/ old' = old
               \/ old' = [old EXCEPT ![index] = dest[paths[index]]]
     ELSE UNCHANGED <<entries, old>>
  /\ Goto("removeFiles") /\ purpose' = "discard" /\ count' = Len(entries')
  /\ UNCHANGED <<dest, dir, journal, new, paths, gen, outcome, stray>>

\* What a failed WriteJournal leaves: the old journal, or the new one when only
\* the fsync after its rename failed.
JournalFails(state) ==
  \/ UNCHANGED <<journal, stray>>
  \/ journal' = [state |-> state, entries |-> entries] /\ stray' = "undoing"

\* pending stays false: the directory is removed without a rollback.
PendingFails ==
  /\ Fault /\ pc = "pending"
  /\ JournalFails("PENDING")
  /\ StartRemoval("discard", Len(entries))
  /\ UNCHANGED <<dest, dir, old, new>>

\* Mutant: what undoes a failed rename discards the backup.
UndoOnRename_Discard == StartRemoval("discard", Len(entries))
UndoOnRename == StartRollback("undo")

RenameFails ==
  /\ Fault /\ pc = "rename" /\ index <= Len(paths)
  /\ \/ UNCHANGED <<dest, new>>
     \/ /\ dest' = [dest EXCEPT ![paths[index]] = new[index]]
        /\ new' = [new EXCEPT ![index] = Missing]
  /\ UndoOnRename
  /\ UNCHANGED <<dir, journal, old, stray>>

CompleteFails ==
  /\ Fault /\ pc = "complete"
  /\ JournalFails("COMPLETE")
  /\ StartRollback("undoLate")
  /\ UNCHANGED <<dest, dir, old, new>>

-----------------------------------------------------------------------------
RecoveryStep ==
  \/ NothingToRecover \/ RecoverUnjournalled \/ RecoverJournalled
  \/ RestoreOne \/ Restored \/ MarkRolledBack
  \/ RemoveOne \/ FilesRemoved \/ RemoveJournal \/ RemoveDir

CommitStep ==
  \/ MakeDir \/ Stage \/ Staged \/ WritePending
  \/ Rename \/ Renamed \/ WriteComplete

FaultStep ==
  \/ Crash \/ RecoveryFails \/ MakeDirFails \/ StageFails \/ PendingFails
  \/ RenameFails \/ CompleteFails

Next == Call \/ Commit \/ ReturnRecovered \/ RecoveryStep \/ CommitStep \/ FaultStep

\* A started call runs on until it returns or crashes, and the rotation
\* thread calls again every check_interval_seconds.
Fairness ==
  /\ WF_vars(Call)
  /\ WF_vars(RecoveryStep \/ CommitStep \/ ReturnRecovered)

Spec == Init /\ [][Next]_vars
FairSpec == Spec /\ Fairness

-----------------------------------------------------------------------------
(* Properties                                                              *)

\* What recovery makes of the directory: the content of each file once a
\* PENDING journal has been rolled back to its backups.
Recovered(files, left, backups) ==
  [f \in Files |->
     IF left.state = "PENDING" /\ \E k \in DOMAIN left.entries : left.entries[k].file = f
     THEN LET k == CHOOSE k \in DOMAIN left.entries : left.entries[k].file = f
          IN IF left.entries[k].existed THEN backups[k] ELSE Missing
     ELSE files[f]]

Effective == Recovered(dest, journal, old)

\* While a call undoes its own stray journal, the files are to be what they
\* were before its commit; so they are taken to be when it is interrupted.
Shown == IF stray = "none" THEN Effective ELSE former

Suite == INSTANCE TlsSuite WITH
  suite <- Shown,
  Bundles <- {{b[k] : k \in DOMAIN b} : b \in Bundles},
  Generations <- Gens

\* The files a caller gets after recovery change only by a whole bundle at
\* once, never a certificate of one generation beside a key of another,
\* whatever crashes and whatever call fails, with one exception: a journal
\* whose write failed after its rename, left behind because the call that was
\* undoing it crashed or failed in turn.  The step that removes such a journal
\* may show any files; before it and after it the rule holds.
InstallsAtomically == Suite!Init /\ [][Suite!Next \/ stray = "left"]_Shown

\* While a journal that was written says PENDING, every file that existed still
\* has its backup, so Rollback can never end in "Missing TLS transaction
\* backup".  A PENDING journal whose write failed is no such promise: its own
\* call removes the backups before it.
BackupsSuffice ==
  journal.state = "PENDING" /\ stray = "none" =>
    \A k \in DOMAIN journal.entries : journal.entries[k].existed => old[k] # Missing

\* A leftover transaction is resolved once the faults stop: no crash or failed
\* call leaves a state that every later recovery refuses, save a stray journal
\* left behind, which may say PENDING without its backups.
LeftoversResolved == dir ~> (~dir \/ stray = "left")
=============================================================================
