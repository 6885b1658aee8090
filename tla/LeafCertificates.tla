-------------------------- MODULE LeafCertificates --------------------------
(***************************************************************************)
(* The leaf certificate and key of the TLS listeners on Windows and Linux  *)
(* (runtime/sdk_tls_certificate_manager.cpp): processes that provision,    *)
(* renew or rotate the pair, the lock between them, the renames by which a *)
(* new pair replaces the old one, renames that fail and processes that die *)
(* half way.  macOS installs the same files by the TlsFileTransaction.     *)
(*                                                                         *)
(* A pair is a number: a key and a certificate match when their numbers    *)
(* do, and a later pair has a larger number.  A file an updater finds or   *)
(* leaves is one of Slots; nobody but the holder of the lock writes them.  *)
(***************************************************************************)
EXTENDS Naturals, FiniteSets

CONSTANTS
  Updaters,  \* the processes that call the manager
  MaxPairs,  \* bound on generated pairs: then GenerateKey returns NULL
  MaxFaults  \* bound on faults, each kind of which happens once at most

ASSUME LeafAssumption == MaxPairs \in Nat /\ MaxFaults \in Nat

None == 0
Customer == MaxPairs + 1    \* the pair a customer brings
Pairs == 1..Customer
NoOne == "none"
ASSUME NoOneAssumption == NoOne \notin Updaters

Slots == {"key", "cert",           \* what the listeners load
          "oldKey", "oldCert",     \* *.previous
          "newKey", "newCert"}     \* *.rotation

\* A rename of the pair in use, of a staged file or of the undo, a write, a bind that
\* fails, and a process that dies.
FaultKinds == {"move", "install", "restore", "write", "bind", "crash"}

VARIABLES
  disk,    \* the pair each file belongs to
  root,    \* which files of the managed CA exist
  state,   \* tls-state.json: who manages the pair, and leafSha256
  lock,    \* who holds TlsFileLock
  job,     \* the call each process is in, and how its last one ended
  made,    \* how many pairs were generated
  due,     \* pairs that expire soon
  faults   \* the faults there were

leafVars == <<disk, root, state, lock, job, made, due, faults>>

Idle == [op |-> "none", at |-> "idle", result |-> "none"]
Ended(how) == [op |-> "none", at |-> "idle", result |-> how]

Steps == {"idle", "lock", "root", "rootCert", "custom", "stage", "clear", "moveKey", "moveCert",
          "installKey", "installCert", "drop", "record", "undo", "restoreKey", "restoreCert"}
Results == {"none", "kept", "done", "failed"}

LeafTypeOK ==
  /\ disk \in [Slots -> Pairs \cup {None}]
  /\ root \subseteq {"key", "cert"}
  /\ state \in [mode : {"none", "managed", "custom"}, leaf : Pairs \cup {None}]
  /\ lock \in Updaters \cup {NoOne}
  /\ job \in [Updaters -> [op : {"none", "provision", "renew", "rotate"}, at : Steps, result : Results]]
  /\ made \in 0..MaxPairs
  /\ due \subseteq 1..MaxPairs
  /\ faults \subseteq FaultKinds

\* Before the first provisioning: nothing, or the pair the customer has put there.
LeafInit ==
  /\ \E pair \in {None, Customer} :
       disk = [f \in Slots |-> IF f \in {"key", "cert"} THEN pair ELSE None]
  /\ root = {}
  /\ state = [mode |-> "none", leaf |-> None]
  /\ lock = NoOne
  /\ job = [p \in Updaters |-> Idle]
  /\ made = 0
  /\ due = {}
  /\ faults = {}

-----------------------------------------------------------------------------
Exists(f) == disk[f] # None
HasPair == Exists("key") /\ Exists("cert")
HasRoot == root = {"key", "cert"}
IsManagedState == state.mode = "managed"
IsManagedLeaf == IsManagedState /\ Exists("cert") /\ "cert" \in root /\ state.leaf = disk["cert"]
LeafNeedsRotation == disk["cert"] \in due

At(p, step) == job[p].at = step
Goto(p, step) == job' = [job EXCEPT ![p].at = step]

\* The call of p is over; the destructor of the lock releases it.
Finish(p, how) ==
  /\ job' = [job EXCEPT ![p] = Ended(how)]
  /\ lock' = IF lock = p THEN NoOne ELSE lock

CanFail(kind) == kind \notin faults /\ Cardinality(faults) < MaxFaults
Fail(kind) == CanFail(kind) /\ faults' = faults \cup {kind}

Move(from, to) == [disk EXCEPT ![to] = disk[from], ![from] = None]
Remove(fs) == [f \in Slots |-> IF f \in fs THEN None ELSE disk[f]]

-----------------------------------------------------------------------------
\* What Provision, RenewLeaf and RotateIfNeeded look at before they try the lock.
BeginProvision(p) ==
  /\ At(p, "idle")
  /\ job' = [job EXCEPT ![p] = [op |-> "provision", at |-> "lock", result |-> "none"]]
  /\ UNCHANGED <<disk, root, state, lock, made, due, faults>>

\* Mutant: the marker of an earlier installation counts, not the certificate that is there.
BeginRenewByMarker(p) ==
  /\ At(p, "idle")
  /\ job' = [job EXCEPT ![p] =
       IF ~HasRoot THEN Ended("failed")
       ELSE IF ~IsManagedState THEN Ended("kept")
       ELSE [op |-> "renew", at |-> "lock", result |-> "none"]]
  /\ UNCHANGED <<disk, root, state, lock, made, due, faults>>

BeginRenew(p) ==
  /\ At(p, "idle")
  /\ job' = [job EXCEPT ![p] =
       IF ~HasRoot THEN Ended("failed")
       ELSE IF ~IsManagedLeaf THEN Ended("kept")
       ELSE [op |-> "renew", at |-> "lock", result |-> "none"]]
  /\ UNCHANGED <<disk, root, state, lock, made, due, faults>>

BeginRotate(p) ==
  /\ At(p, "idle")
  /\ job' = [job EXCEPT ![p] =
       IF ~IsManagedLeaf THEN Ended("kept")
       ELSE [op |-> "rotate", at |-> "lock", result |-> "none"]]
  /\ UNCHANGED <<disk, root, state, lock, made, due, faults>>

\* Only RotateIfNeeded treats a busy lock as success.
Busy(p) ==
  /\ At(p, "lock")
  /\ lock # NoOne
  /\ job' = [job EXCEPT ![p] = Ended(IF job[p].op = "rotate" THEN "kept" ELSE "failed")]
  /\ UNCHANGED <<disk, root, state, lock, made, due, faults>>

\* What each call decides under the lock: how it ends at once, or its first step.
Decision(p) ==
  CASE job[p].op = "renew" -> "stage"
    [] job[p].op = "rotate" ->
         IF ~HasRoot \/ ~HasPair THEN "failed"
         ELSE IF ~LeafNeedsRotation THEN "kept" ELSE "stage"
    [] job[p].op = "provision" ->
         IF Exists("cert") # Exists("key") THEN "failed"
         ELSE IF HasRoot /\ HasPair /\ IsManagedState THEN "kept"
         ELSE IF root = {} THEN "root"
         ELSE IF ~HasRoot THEN "failed"
         ELSE IF HasPair /\ ~IsManagedState THEN "custom" ELSE "stage"

\* Mutant: a lock that is held does not keep anyone out.
MayAcquireAlways == TRUE

MayAcquire == lock = NoOne

Acquire(p) ==
  /\ At(p, "lock")
  /\ MayAcquire
  /\ IF Decision(p) \in Results
       THEN /\ job' = [job EXCEPT ![p] = Ended(Decision(p))]
            /\ UNCHANGED lock
       ELSE /\ Goto(p, Decision(p))
            /\ lock' = p
  /\ UNCHANGED <<disk, root, state, made, due, faults>>

WriteRoot(p) ==
  /\ \/ /\ At(p, "root")
        /\ root' = root \cup {"key"}
        /\ Goto(p, "rootCert")
     \/ /\ At(p, "rootCert")
        /\ root' = root \cup {"cert"}
        /\ Goto(p, IF HasPair /\ ~IsManagedState THEN "custom" ELSE "stage")
  /\ UNCHANGED <<disk, state, lock, made, due, faults>>

\* A customer's pair stays as it is, but for the marker.
MarkCustom(p) ==
  /\ At(p, "custom")
  /\ state' = [mode |-> "custom", leaf |-> None]
  /\ Finish(p, "done")
  /\ UNCHANGED <<disk, root, made, due, faults>>

WriteFails(p) ==
  /\ job[p].at \in {"root", "rootCert", "custom", "stage", "record"}
  /\ Fail("write")
  /\ Finish(p, "failed")
  /\ \/ UNCHANGED <<disk, made>>
     \/ /\ At(p, "stage") /\ made < MaxPairs   \* the staged certificate, after the staged key
        /\ made' = made + 1
        /\ disk' = [disk EXCEPT !["newKey"] = made + 1]
  /\ UNCHANGED <<root, state, due>>

-----------------------------------------------------------------------------
\* BuildLeaf, a rename or a group of removals at a time.
Stage(p) ==
  /\ At(p, "stage")
  /\ IF made < MaxPairs
       THEN /\ made' = made + 1
            /\ disk' = [disk EXCEPT !["newKey"] = made + 1, !["newCert"] = made + 1]
            /\ Goto(p, "clear")
            /\ UNCHANGED lock
       ELSE /\ Finish(p, "failed")
            /\ UNCHANGED <<disk, made>>
  /\ UNCHANGED <<root, state, due, faults>>

Clear(p) ==
  /\ At(p, "clear")
  /\ disk' = Remove({"oldKey", "oldCert"})
  /\ Goto(p, "moveKey")
  /\ UNCHANGED <<root, state, lock, made, due, faults>>

\* Mutant: the old key is deleted, not kept until both files are there.
MoveKeyDeletes(p) ==
  /\ At(p, "moveKey")
  /\ Goto(p, "moveCert")
  /\ disk' = Remove({"key"})
  /\ UNCHANGED <<root, state, lock, made, due, faults>>

\* The old certificate is moved even when the old key could not be.
MoveKey(p) ==
  /\ At(p, "moveKey")
  /\ Goto(p, "moveCert")
  /\ \/ disk' = Move("key", "oldKey") /\ UNCHANGED faults
     \/ Exists("key") /\ Fail("move") /\ UNCHANGED disk
  /\ UNCHANGED <<root, state, lock, made, due>>

MoveCert(p) ==
  /\ At(p, "moveCert")
  /\ \/ /\ disk' = Move("cert", "oldCert")
        /\ Goto(p, IF Exists("key") THEN "undo" ELSE "installKey")
        /\ UNCHANGED faults
     \/ /\ Exists("cert") /\ Fail("move")
        /\ Goto(p, "undo")
        /\ UNCHANGED disk
  /\ UNCHANGED <<root, state, lock, made, due>>

InstallKey(p) ==
  /\ At(p, "installKey")
  /\ \/ disk' = Move("newKey", "key") /\ Goto(p, "installCert") /\ UNCHANGED faults
     \/ Fail("install") /\ Goto(p, "undo") /\ UNCHANGED disk
  /\ UNCHANGED <<root, state, lock, made, due>>

InstallCert(p) ==
  /\ At(p, "installCert")
  /\ \/ disk' = Move("newCert", "cert") /\ Goto(p, "drop") /\ UNCHANGED faults
     \/ Fail("install") /\ Goto(p, "undo") /\ UNCHANGED disk
  /\ UNCHANGED <<root, state, lock, made, due>>

Drop(p) ==
  /\ At(p, "drop")
  /\ disk' = Remove({"oldKey", "oldCert"})
  /\ Goto(p, "record")
  /\ UNCHANGED <<root, state, lock, made, due, faults>>

Undo(p) ==
  /\ At(p, "undo")
  /\ disk' = Remove({"newKey", "newCert", "key", "cert"})
  /\ Goto(p, "restoreKey")
  /\ UNCHANGED <<root, state, lock, made, due, faults>>

\* Whether the restoring renames work is not looked at.
RestoreKey(p) ==
  /\ At(p, "restoreKey")
  /\ Goto(p, "restoreCert")
  /\ \/ disk' = (IF Exists("oldKey") THEN Move("oldKey", "key") ELSE disk) /\ UNCHANGED faults
     \/ Exists("oldKey") /\ Fail("restore") /\ UNCHANGED disk
  /\ UNCHANGED <<root, state, lock, made, due>>

RestoreCert(p) ==
  /\ At(p, "restoreCert")
  /\ Finish(p, "failed")
  /\ \/ disk' = (IF Exists("oldCert") THEN Move("oldCert", "cert") ELSE disk) /\ UNCHANGED faults
     \/ Exists("oldCert") /\ Fail("restore") /\ UNCHANGED disk
  /\ UNCHANGED <<root, state, made, due>>

\* ManagedStateJson and its atomic write: the last step of all three calls.
Record(p) ==
  /\ At(p, "record")
  /\ state' = [mode |-> "managed", leaf |-> disk["cert"]]
  /\ Finish(p, "done")
  /\ UNCHANGED <<disk, root, made, due, faults>>

-----------------------------------------------------------------------------
\* The lock of a dead process is free.
Dies(p) ==
  /\ Fail("crash")
  /\ job' = [job EXCEPT ![p] = Idle]
  /\ lock' = IF lock = p THEN NoOne ELSE lock
  /\ UNCHANGED <<disk, root, state, made, due>>

\* Time passes.
Ages ==
  /\ disk["cert"] \in (1..MaxPairs) \ due
  /\ due' = due \cup {disk["cert"]}
  /\ UNCHANGED <<disk, root, state, lock, job, made, faults>>

\* A customer installs a pair of their own while no update runs.
CustomerReplaces ==
  /\ \A p \in Updaters : At(p, "idle")
  /\ disk["key"] # Customer \/ disk["cert"] # Customer
  /\ disk' = [disk EXCEPT !["key"] = Customer, !["cert"] = Customer]
  /\ UNCHANGED <<root, state, lock, job, made, due, faults>>

\* A fault of another part of the program, out of the same budget.
FaultElsewhere ==
  /\ Fail("bind")
  /\ UNCHANGED <<disk, root, state, lock, job, made, due>>

LeafStep(p) ==
  \/ Busy(p) \/ Acquire(p) \/ WriteRoot(p) \/ MarkCustom(p) \/ WriteFails(p)
  \/ Stage(p) \/ Clear(p) \/ MoveKey(p) \/ MoveCert(p) \/ InstallKey(p) \/ InstallCert(p)
  \/ Drop(p) \/ Undo(p) \/ RestoreKey(p) \/ RestoreCert(p) \/ Record(p)

LeafNext ==
  \/ \E p \in Updaters :
       \/ BeginProvision(p) \/ BeginRenew(p) \/ BeginRotate(p)
       \/ LeafStep(p)
       \/ Dies(p)
  \/ Ages
  \/ CustomerReplaces
  \/ FaultElsewhere

LeafSpec == LeafInit /\ [][LeafNext]_leafVars
-----------------------------------------------------------------------------
HasCustomerPair == disk["key"] = Customer /\ disk["cert"] = Customer

\* Nobody is at work and nothing but renames of staged files ever failed: then the key and
\* the certificate belong together, and a generated pair is the one the state file names.
\* Two updaters at once, or an undo that stops half way, would leave parts of two pairs.
AtRestConsistent ==
  lock = NoOne /\ faults \subseteq {"install", "bind"} =>
    /\ disk["key"] = disk["cert"]
    /\ disk["cert"] \notin {None, Customer} =>
         state = [mode |-> "managed", leaf |-> disk["cert"]]

\* Once there was a pair, any one failed write, failed rename of a staged file or death of
\* a process, at any point of any call, leaves a whole pair under some name.  (A rename of
\* the pair in use that fails does not: the undo removes the file it could not move.)
PairSurvives ==
  state.mode # "none" /\ Cardinality(faults) <= 1 /\ "move" \notin faults =>
    \E k \in {"key", "oldKey", "newKey"}, c \in {"cert", "oldCert", "newCert"} :
      disk[k] # None /\ disk[k] = disk[c]

\* No call ever touches a pair a customer installed, whatever the state file says.
CustomerPairStays == [][HasCustomerPair => HasCustomerPair']_leafVars
=============================================================================
