---------------------------- MODULE SdkAppProofs ----------------------------
(***************************************************************************)
(* Proofs about LeafCertificates, for any number of updaters, pairs and    *)
(* faults, and about SdkApp: the service is one of the updaters, whatever  *)
(* its threads do, so that what is proved of the files holds beside it.    *)
(***************************************************************************)
EXTENDS SdkApp, FiniteSetTheorems, TLAPS

Building == {"stage", "clear", "moveKey", "moveCert", "installKey", "installCert", "drop",
             "record", "undo", "restoreKey", "restoreCert"}
UnderLock == Building \cup {"root", "rootCert", "custom"}
Undoing == {"undo", "restoreKey", "restoreCert"}

TypeInv ==
  /\ LeafTypeOK
  /\ \A p \in Updaters : ~At(p, "idle") => job[p].op # "none"

LockInv == \A p \in Updaters : job[p].at \in UnderLock <=> lock = p

\* The customer's pair is in the two files together or nowhere.
CustomerInv ==
  /\ \A f \in Slots \ {"key", "cert"} : disk[f] # Customer
  /\ disk["key"] = Customer <=> disk["cert"] = Customer
  /\ state.leaf # Customer
  /\ IsManagedState => HasRoot

\* What a step relies on, whatever faults there were.
StepInv ==
  \A p \in Updaters :
    /\ At(p, "root") => root = {}
    /\ At(p, "rootCert") => root = {"key"}
    /\ At(p, "custom") => HasRoot /\ HasPair /\ ~IsManagedState
    /\ job[p].at \in Building => HasRoot /\ disk["cert"] # Customer
    /\ At(p, "lock") /\ job[p].op \in {"renew", "rotate"} => HasRoot /\ disk["cert"] # Customer
    /\ job[p].at \in {"clear", "moveKey", "moveCert", "installKey"} =>
         disk["newKey"] = disk["newCert"] /\ Exists("newKey")
    /\ At(p, "moveCert") /\ Exists("key") => "move" \in faults
    /\ At(p, "installKey") => ~Exists("key") /\ ~Exists("cert")
    /\ At(p, "installCert") =>
         disk["key"] = disk["newCert"] /\ Exists("key") /\ ~Exists("cert")
    /\ job[p].at \in {"drop", "record"} => disk["key"] = disk["cert"] /\ Exists("key")
    /\ job[p].at \in Undoing => faults \cap {"install", "move"} # {}
    /\ At(p, "restoreKey") => ~Exists("key") /\ ~Exists("cert")
    /\ At(p, "restoreCert") => ~Exists("cert")

\* The pair in use, under the names k and c, is whole, and recorded when it is a made one.
Good(k, c) ==
  /\ disk[k] = disk[c]
  /\ disk[c] \notin {None, Customer} => state = [mode |-> "managed", leaf |-> disk[c]]
  /\ state.mode # "none" => disk[c] # None

\* With nothing worse than a failed install, the old pair is good where it is.
QuietInv ==
  faults \subseteq {"install", "bind"} =>
    /\ lock = NoOne => Good("key", "cert")
    /\ \A p \in Updaters :
         /\ job[p].at \in {"root", "rootCert", "custom", "stage", "clear", "moveKey"} =>
              Good("key", "cert")
         /\ At(p, "moveCert") => ~Exists("key") /\ Good("oldKey", "cert")
         /\ job[p].at \in {"installKey", "installCert", "undo", "restoreKey"} =>
              Good("oldKey", "oldCert")
         /\ At(p, "restoreCert") => Good("key", "oldCert")

OneFault == \A a, b \in faults : a = b
Bare == OneFault /\ "move" \notin faults

\* One fault never leaves the halves of two pairs in use.
UnmixedInv ==
  Bare =>
    /\ HasPair => disk["key"] = disk["cert"]
    /\ \A p \in Updaters : At(p, "undo") => ~HasPair

Whole ==
  \E k \in {"key", "oldKey", "newKey"}, c \in {"cert", "oldCert", "newCert"} :
    disk[k] # None /\ disk[k] = disk[c]

\* While no pair is being replaced, there is a whole one, even after a crash.
WholeInv ==
  /\ Bare
  /\ state.mode # "none"
  /\ \A p \in Updaters : job[p].at \notin Building \ {"stage"}
  => Whole

Inv == TypeInv /\ LockInv /\ CustomerInv /\ StepInv /\ QuietInv /\ UnmixedInv /\ WholeInv
-----------------------------------------------------------------------------
LEMMA DecisionType ==
  ASSUME NEW p \in Updaters, TypeInv, At(p, "lock")
  PROVE  /\ job[p].op \in {"renew", "rotate", "provision"}
         /\ Decision(p) \in {"kept", "failed", "root", "custom", "stage"}
  <1>1. job[p].op \in {"renew", "rotate", "provision"}
    BY DEF TypeInv, LeafTypeOK, At
  <1> QED
    BY <1>1 DEF Decision

LEMMA MoveType ==
  ASSUME LeafTypeOK, NEW from \in Slots, NEW to \in Slots
  PROVE  /\ Move(from, to) \in [Slots -> Pairs \cup {None}]
         /\ from # to => Move(from, to)[to] = disk[from] /\ Move(from, to)[from] = None
         /\ \A f \in Slots \ {from, to} : Move(from, to)[f] = disk[f]
  BY DEF LeafTypeOK, Move

LEMMA JobType ==
  ASSUME TypeInv, NEW p \in Updaters, ~At(p, "idle")
  PROVE  /\ \A step \in Steps : Goto(p, step) => 
              /\ job' \in [Updaters -> [op : {"none", "provision", "renew", "rotate"}, at : Steps, result : Results]]
              /\ \A o \in Updaters : ~At(o, "idle")' => job'[o].op # "none"
         /\ \A how \in Results : Finish(p, how) =>
              /\ job' \in [Updaters -> [op : {"none", "provision", "renew", "rotate"}, at : Steps, result : Results]]
              /\ \A o \in Updaters : ~At(o, "idle")' => job'[o].op # "none"
              /\ lock' \in Updaters \cup {NoOne}
  BY DEF TypeInv, LeafTypeOK, At, Goto, Finish, Ended, Steps, Results

LEMMA TypeStep ==
  ASSUME TypeInv, [LeafNext]_leafVars
  PROVE  TypeInv'
  <1> USE LeafAssumption DEF TypeInv, LeafTypeOK, At, Goto, Finish, Fail, CanFail, Ended, Idle, Move, Remove,
      Steps, Results, Slots, Pairs, Customer, None, FaultKinds
  <1>1. ASSUME NEW p \in Updaters, BeginProvision(p) PROVE TypeInv'
    BY <1>1 DEF BeginProvision
  <1>2. ASSUME NEW p \in Updaters, BeginRenew(p) PROVE TypeInv'
    BY <1>2 DEF BeginRenew
  <1>3. ASSUME NEW p \in Updaters, BeginRotate(p) PROVE TypeInv'
    BY <1>3 DEF BeginRotate
  <1>4. ASSUME NEW p \in Updaters, Busy(p) PROVE TypeInv'
    BY <1>4 DEF Busy
  <1>5. ASSUME NEW p \in Updaters, Acquire(p) PROVE TypeInv'
    BY <1>5, DecisionType DEF Acquire
  <1>6. ASSUME NEW p \in Updaters, WriteRoot(p) PROVE TypeInv'
    BY <1>6 DEF WriteRoot
  <1>7. ASSUME NEW p \in Updaters, MarkCustom(p) PROVE TypeInv'
    BY <1>7 DEF MarkCustom
  <1>8. ASSUME NEW p \in Updaters, WriteFails(p) PROVE TypeInv'
    BY <1>8 DEF WriteFails
  <1>9. ASSUME NEW p \in Updaters, Stage(p) PROVE TypeInv'
    BY <1>9 DEF Stage
  <1>10. ASSUME NEW p \in Updaters, Clear(p) PROVE TypeInv'
    BY <1>10 DEF Clear
  <1>11. ASSUME NEW p \in Updaters, MoveKey(p) PROVE TypeInv'
    <2>1. Goto(p, "moveCert")
      BY <1>11 DEF MoveKey
    <2>2. disk' \in [Slots -> Pairs \cup {None}]
      <3>1. disk' = disk \/ disk' = Move("key", "oldKey")
        BY <1>11 DEF MoveKey
      <3>2. "key" \in Slots /\ "oldKey" \in Slots
        BY DEF Slots
      <3> QED
        BY <3>1, <3>2, MoveType DEF TypeInv, LeafTypeOK
    <2>3. UNCHANGED <<root, state, lock, made, due>> /\ faults' \subseteq FaultKinds
      BY <1>11 DEF MoveKey, Fail, CanFail, TypeInv, LeafTypeOK, FaultKinds
    <2> QED
      BY <1>11, <2>1, <2>2, <2>3, JobType DEF MoveKey, At, Steps, Results, TypeInv, LeafTypeOK
  <1>12. ASSUME NEW p \in Updaters, MoveCert(p) PROVE TypeInv'
    <2>1. Goto(p, "undo") \/ Goto(p, "installKey")
      BY <1>12 DEF MoveCert
    <2>2. disk' \in [Slots -> Pairs \cup {None}]
      <3>1. disk' = disk \/ disk' = Move("cert", "oldCert")
        BY <1>12 DEF MoveCert
      <3>2. "cert" \in Slots /\ "oldCert" \in Slots
        BY DEF Slots
      <3> QED
        BY <3>1, <3>2, MoveType DEF TypeInv, LeafTypeOK
    <2>3. UNCHANGED <<root, state, lock, made, due>> /\ faults' \subseteq FaultKinds
      BY <1>12 DEF MoveCert, Fail, CanFail, TypeInv, LeafTypeOK, FaultKinds
    <2> QED
      BY <1>12, <2>1, <2>2, <2>3, JobType DEF MoveCert, At, Steps, Results, TypeInv, LeafTypeOK
  <1>13. ASSUME NEW p \in Updaters, InstallKey(p) PROVE TypeInv'
    <2>1. Goto(p, "installCert") \/ Goto(p, "undo")
      BY <1>13 DEF InstallKey
    <2>2. disk' \in [Slots -> Pairs \cup {None}]
      <3>1. disk' = disk \/ disk' = Move("newKey", "key")
        BY <1>13 DEF InstallKey
      <3>2. "newKey" \in Slots /\ "key" \in Slots
        BY DEF Slots
      <3> QED
        BY <3>1, <3>2, MoveType DEF TypeInv, LeafTypeOK
    <2>3. UNCHANGED <<root, state, lock, made, due>> /\ faults' \subseteq FaultKinds
      BY <1>13 DEF InstallKey, Fail, CanFail, TypeInv, LeafTypeOK, FaultKinds
    <2> QED
      BY <1>13, <2>1, <2>2, <2>3, JobType DEF InstallKey, At, Steps, Results, TypeInv, LeafTypeOK
  <1>14. ASSUME NEW p \in Updaters, InstallCert(p) PROVE TypeInv'
    <2>1. Goto(p, "drop") \/ Goto(p, "undo")
      BY <1>14 DEF InstallCert
    <2>2. disk' \in [Slots -> Pairs \cup {None}]
      <3>1. disk' = disk \/ disk' = Move("newCert", "cert")
        BY <1>14 DEF InstallCert
      <3>2. "newCert" \in Slots /\ "cert" \in Slots
        BY DEF Slots
      <3> QED
        BY <3>1, <3>2, MoveType DEF TypeInv, LeafTypeOK
    <2>3. UNCHANGED <<root, state, lock, made, due>> /\ faults' \subseteq FaultKinds
      BY <1>14 DEF InstallCert, Fail, CanFail, TypeInv, LeafTypeOK, FaultKinds
    <2> QED
      BY <1>14, <2>1, <2>2, <2>3, JobType DEF InstallCert, At, Steps, Results, TypeInv, LeafTypeOK
  <1>15. ASSUME NEW p \in Updaters, Drop(p) PROVE TypeInv'
    BY <1>15 DEF Drop
  <1>16. ASSUME NEW p \in Updaters, Undo(p) PROVE TypeInv'
    BY <1>16 DEF Undo
  <1>17. ASSUME NEW p \in Updaters, RestoreKey(p) PROVE TypeInv'
    <2>1. Goto(p, "restoreCert")
      BY <1>17 DEF RestoreKey
    <2>2. disk' \in [Slots -> Pairs \cup {None}]
      <3>1. disk' = disk \/ disk' = Move("oldKey", "key")
        BY <1>17 DEF RestoreKey
      <3>2. "oldKey" \in Slots /\ "key" \in Slots
        BY DEF Slots
      <3> QED
        BY <3>1, <3>2, MoveType DEF TypeInv, LeafTypeOK
    <2>3. UNCHANGED <<root, state, lock, made, due>> /\ faults' \subseteq FaultKinds
      BY <1>17 DEF RestoreKey, Fail, CanFail, TypeInv, LeafTypeOK, FaultKinds
    <2> QED
      BY <1>17, <2>1, <2>2, <2>3, JobType DEF RestoreKey, At, Steps, Results, TypeInv, LeafTypeOK
  <1>18. ASSUME NEW p \in Updaters, RestoreCert(p) PROVE TypeInv'
    <2>1. Finish(p, "failed")
      BY <1>18 DEF RestoreCert
    <2>2. disk' \in [Slots -> Pairs \cup {None}]
      <3>1. disk' = disk \/ disk' = Move("oldCert", "cert")
        BY <1>18 DEF RestoreCert
      <3>2. "oldCert" \in Slots /\ "cert" \in Slots
        BY DEF Slots
      <3> QED
        BY <3>1, <3>2, MoveType DEF TypeInv, LeafTypeOK
    <2>3. UNCHANGED <<root, state, made, due>> /\ faults' \subseteq FaultKinds
      BY <1>18 DEF RestoreCert, Fail, CanFail, TypeInv, LeafTypeOK, FaultKinds
    <2> QED
      BY <1>18, <2>1, <2>2, <2>3, JobType DEF RestoreCert, At, Steps, Results, TypeInv, LeafTypeOK
  <1>19. ASSUME NEW p \in Updaters, Record(p) PROVE TypeInv'
    BY <1>19 DEF Record
  <1>20. ASSUME NEW p \in Updaters, Dies(p) PROVE TypeInv'
    BY <1>20 DEF Dies
  <1>21. CASE Ages
    BY <1>21 DEF Ages
  <1>22. CASE CustomerReplaces
    BY <1>22 DEF CustomerReplaces
  <1>23. CASE FaultElsewhere
    BY <1>23 DEF FaultElsewhere
  <1>24. CASE UNCHANGED leafVars
    BY <1>24 DEF leafVars
  <1> QED
    BY <1>1, <1>2, <1>3, <1>4, <1>5, <1>6, <1>7, <1>8, <1>9, <1>10, <1>11, <1>12, <1>13, <1>14, <1>15, <1>16, <1>17, <1>18, <1>19, <1>20, <1>21, <1>22, <1>23, <1>24 DEF LeafNext, LeafStep

LEMMA LockStep ==
  ASSUME TypeInv, LockInv, [LeafNext]_leafVars
  PROVE  LockInv'
  <1> USE LeafAssumption, NoOneAssumption DEF LockInv, TypeInv, LeafTypeOK, At, Goto, Finish, Fail, CanFail, Ended, Idle, Move, Remove,
      Steps, Results, Slots, Pairs, Customer, None, FaultKinds, Exists, HasPair, HasRoot, IsManagedState, IsManagedLeaf,
      Building, UnderLock, Undoing
  <1>1. ASSUME NEW p \in Updaters, BeginProvision(p) PROVE LockInv'
    BY <1>1 DEF BeginProvision
  <1>2. ASSUME NEW p \in Updaters, BeginRenew(p) PROVE LockInv'
    BY <1>2 DEF BeginRenew
  <1>3. ASSUME NEW p \in Updaters, BeginRotate(p) PROVE LockInv'
    BY <1>3 DEF BeginRotate
  <1>4. ASSUME NEW p \in Updaters, Busy(p) PROVE LockInv'
    BY <1>4 DEF Busy
  <1>5. ASSUME NEW p \in Updaters, Acquire(p) PROVE LockInv'
    BY <1>5, DecisionType DEF Acquire, MayAcquire
  <1>6. ASSUME NEW p \in Updaters, WriteRoot(p) PROVE LockInv'
    BY <1>6 DEF WriteRoot
  <1>7. ASSUME NEW p \in Updaters, MarkCustom(p) PROVE LockInv'
    BY <1>7 DEF MarkCustom
  <1>8. ASSUME NEW p \in Updaters, WriteFails(p) PROVE LockInv'
    BY <1>8 DEF WriteFails
  <1>9. ASSUME NEW p \in Updaters, Stage(p) PROVE LockInv'
    BY <1>9 DEF Stage
  <1>10. ASSUME NEW p \in Updaters, Clear(p) PROVE LockInv'
    BY <1>10 DEF Clear
  <1>11. ASSUME NEW p \in Updaters, MoveKey(p) PROVE LockInv'
    BY <1>11 DEF MoveKey
  <1>12. ASSUME NEW p \in Updaters, MoveCert(p) PROVE LockInv'
    BY <1>12 DEF MoveCert
  <1>13. ASSUME NEW p \in Updaters, InstallKey(p) PROVE LockInv'
    BY <1>13 DEF InstallKey
  <1>14. ASSUME NEW p \in Updaters, InstallCert(p) PROVE LockInv'
    BY <1>14 DEF InstallCert
  <1>15. ASSUME NEW p \in Updaters, Drop(p) PROVE LockInv'
    BY <1>15 DEF Drop
  <1>16. ASSUME NEW p \in Updaters, Undo(p) PROVE LockInv'
    BY <1>16 DEF Undo
  <1>17. ASSUME NEW p \in Updaters, RestoreKey(p) PROVE LockInv'
    BY <1>17 DEF RestoreKey
  <1>18. ASSUME NEW p \in Updaters, RestoreCert(p) PROVE LockInv'
    BY <1>18 DEF RestoreCert
  <1>19. ASSUME NEW p \in Updaters, Record(p) PROVE LockInv'
    BY <1>19 DEF Record
  <1>20. ASSUME NEW p \in Updaters, Dies(p) PROVE LockInv'
    BY <1>20 DEF Dies
  <1>21. CASE Ages
    BY <1>21 DEF Ages
  <1>22. CASE CustomerReplaces
    BY <1>22 DEF CustomerReplaces
  <1>23. CASE FaultElsewhere
    BY <1>23 DEF FaultElsewhere
  <1>24. CASE UNCHANGED leafVars
    BY <1>24 DEF leafVars
  <1> QED
    BY <1>1, <1>2, <1>3, <1>4, <1>5, <1>6, <1>7, <1>8, <1>9, <1>10, <1>11, <1>12, <1>13, <1>14, <1>15, <1>16, <1>17, <1>18, <1>19, <1>20, <1>21, <1>22, <1>23, <1>24 DEF LeafNext, LeafStep

LEMMA CustomerStep ==
  ASSUME TypeInv, LockInv, CustomerInv, StepInv, [LeafNext]_leafVars
  PROVE  CustomerInv'
  <1> USE LeafAssumption, NoOneAssumption DEF CustomerInv, StepInv, TypeInv, LeafTypeOK, At, Goto, Finish, Fail, CanFail, Ended, Idle, Move, Remove,
      Steps, Results, Slots, Pairs, Customer, None, FaultKinds, Exists, HasPair, HasRoot, IsManagedState, IsManagedLeaf,
      Building, UnderLock, Undoing
  <1>1. ASSUME NEW p \in Updaters, BeginProvision(p) PROVE CustomerInv'
    BY <1>1 DEF BeginProvision
  <1>2. ASSUME NEW p \in Updaters, BeginRenew(p) PROVE CustomerInv'
    BY <1>2 DEF BeginRenew
  <1>3. ASSUME NEW p \in Updaters, BeginRotate(p) PROVE CustomerInv'
    BY <1>3 DEF BeginRotate
  <1>4. ASSUME NEW p \in Updaters, Busy(p) PROVE CustomerInv'
    BY <1>4 DEF Busy
  <1>5. ASSUME NEW p \in Updaters, Acquire(p) PROVE CustomerInv'
    BY <1>5 DEF Acquire
  <1>6. ASSUME NEW p \in Updaters, WriteRoot(p) PROVE CustomerInv'
    BY <1>6 DEF WriteRoot
  <1>7. ASSUME NEW p \in Updaters, MarkCustom(p) PROVE CustomerInv'
    BY <1>7 DEF MarkCustom
  <1>8. ASSUME NEW p \in Updaters, WriteFails(p) PROVE CustomerInv'
    BY <1>8 DEF WriteFails
  <1>9. ASSUME NEW p \in Updaters, Stage(p) PROVE CustomerInv'
    BY <1>9 DEF Stage
  <1>10. ASSUME NEW p \in Updaters, Clear(p) PROVE CustomerInv'
    BY <1>10 DEF Clear
  <1>11. ASSUME NEW p \in Updaters, MoveKey(p) PROVE CustomerInv'
    BY <1>11 DEF MoveKey
  <1>12. ASSUME NEW p \in Updaters, MoveCert(p) PROVE CustomerInv'
    BY <1>12 DEF MoveCert
  <1>13. ASSUME NEW p \in Updaters, InstallKey(p) PROVE CustomerInv'
    BY <1>13 DEF InstallKey
  <1>14. ASSUME NEW p \in Updaters, InstallCert(p) PROVE CustomerInv'
    BY <1>14 DEF InstallCert
  <1>15. ASSUME NEW p \in Updaters, Drop(p) PROVE CustomerInv'
    BY <1>15 DEF Drop
  <1>16. ASSUME NEW p \in Updaters, Undo(p) PROVE CustomerInv'
    BY <1>16 DEF Undo
  <1>17. ASSUME NEW p \in Updaters, RestoreKey(p) PROVE CustomerInv'
    BY <1>17 DEF RestoreKey
  <1>18. ASSUME NEW p \in Updaters, RestoreCert(p) PROVE CustomerInv'
    BY <1>18 DEF RestoreCert
  <1>19. ASSUME NEW p \in Updaters, Record(p) PROVE CustomerInv'
    BY <1>19 DEF Record
  <1>20. ASSUME NEW p \in Updaters, Dies(p) PROVE CustomerInv'
    BY <1>20 DEF Dies
  <1>21. CASE Ages
    BY <1>21 DEF Ages
  <1>22. CASE CustomerReplaces
    BY <1>22 DEF CustomerReplaces
  <1>23. CASE FaultElsewhere
    BY <1>23 DEF FaultElsewhere
  <1>24. CASE UNCHANGED leafVars
    BY <1>24 DEF leafVars
  <1> QED
    BY <1>1, <1>2, <1>3, <1>4, <1>5, <1>6, <1>7, <1>8, <1>9, <1>10, <1>11, <1>12, <1>13, <1>14, <1>15, <1>16, <1>17, <1>18, <1>19, <1>20, <1>21, <1>22, <1>23, <1>24 DEF LeafNext, LeafStep

LEMMA StepsStep ==
  ASSUME TypeInv, LockInv, CustomerInv, StepInv, [LeafNext]_leafVars
  PROVE  StepInv'
  <1> USE LeafAssumption, NoOneAssumption DEF LockInv, CustomerInv, StepInv, TypeInv, LeafTypeOK, At, Goto, Finish, Fail, CanFail, Ended, Idle, Move, Remove,
      Steps, Results, Slots, Pairs, Customer, None, FaultKinds, Exists, HasPair, HasRoot, IsManagedState, IsManagedLeaf,
      Building, UnderLock, Undoing
  <1>1. ASSUME NEW p \in Updaters, BeginProvision(p) PROVE StepInv'
    BY <1>1 DEF BeginProvision
  <1>2. ASSUME NEW p \in Updaters, BeginRenew(p) PROVE StepInv'
    BY <1>2 DEF BeginRenew
  <1>3. ASSUME NEW p \in Updaters, BeginRotate(p) PROVE StepInv'
    BY <1>3 DEF BeginRotate
  <1>4. ASSUME NEW p \in Updaters, Busy(p) PROVE StepInv'
    BY <1>4 DEF Busy
  <1>5. ASSUME NEW p \in Updaters, Acquire(p) PROVE StepInv'
    BY <1>5, DecisionType DEF Acquire, MayAcquire, Decision
  <1>6. ASSUME NEW p \in Updaters, WriteRoot(p) PROVE StepInv'
    <2>1. lock = p /\ \A o \in Updaters \ {p} : job'[o] = job[o] /\ job[o].at \notin UnderLock
      BY <1>6 DEF WriteRoot
    <2>2. CASE At(p, "root")
      <3>1. root' = {"key"} /\ job'[p].at = "rootCert"
        BY <1>6, <2>2 DEF WriteRoot
      <3>2. ~HasRoot /\ UNCHANGED <<disk, faults>>
        BY <1>6, <2>2 DEF WriteRoot
      <3>3. \A o \in Updaters \ {p} : ~(At(o, "lock") /\ job[o].op \in {"renew", "rotate"})
        BY <3>2
      <3> QED
        BY <2>1, <3>1, <3>2, <3>3
    <2>3. CASE At(p, "rootCert")
      <3>1. root = {"key"}
        BY <2>3
      <3>2. root' = {"key", "cert"} /\ ~HasRoot /\ ~IsManagedState
        <4>1. root' = root \cup {"cert"}
          BY <1>6, <2>3 DEF WriteRoot
        <4>2. ~HasRoot
          BY <3>1 DEF HasRoot
        <4> QED
          BY <3>1, <4>1, <4>2
      <3>3. /\ job'[p].at = "custom" => HasPair
            /\ job'[p].at # "custom" => job'[p].at = "stage" /\ ~HasPair
        BY <1>6, <2>3, <3>2 DEF WriteRoot
      <3> QED
        BY <1>6, <2>1, <2>3, <3>2, <3>3 DEF WriteRoot
    <2> QED
      BY <1>6, <2>2, <2>3 DEF WriteRoot
  <1>7. ASSUME NEW p \in Updaters, MarkCustom(p) PROVE StepInv'
    BY <1>7 DEF MarkCustom
  <1>8. ASSUME NEW p \in Updaters, WriteFails(p) PROVE StepInv'
    BY <1>8 DEF WriteFails
  <1>9. ASSUME NEW p \in Updaters, Stage(p) PROVE StepInv'
    BY <1>9 DEF Stage
  <1>10. ASSUME NEW p \in Updaters, Clear(p) PROVE StepInv'
    BY <1>10 DEF Clear
  <1>11. ASSUME NEW p \in Updaters, MoveKey(p) PROVE StepInv'
    BY <1>11 DEF MoveKey
  <1>12. ASSUME NEW p \in Updaters, MoveCert(p) PROVE StepInv'
    BY <1>12 DEF MoveCert
  <1>13. ASSUME NEW p \in Updaters, InstallKey(p) PROVE StepInv'
    BY <1>13 DEF InstallKey
  <1>14. ASSUME NEW p \in Updaters, InstallCert(p) PROVE StepInv'
    BY <1>14 DEF InstallCert
  <1>15. ASSUME NEW p \in Updaters, Drop(p) PROVE StepInv'
    BY <1>15 DEF Drop
  <1>16. ASSUME NEW p \in Updaters, Undo(p) PROVE StepInv'
    BY <1>16 DEF Undo
  <1>17. ASSUME NEW p \in Updaters, RestoreKey(p) PROVE StepInv'
    BY <1>17 DEF RestoreKey
  <1>18. ASSUME NEW p \in Updaters, RestoreCert(p) PROVE StepInv'
    BY <1>18 DEF RestoreCert
  <1>19. ASSUME NEW p \in Updaters, Record(p) PROVE StepInv'
    BY <1>19 DEF Record
  <1>20. ASSUME NEW p \in Updaters, Dies(p) PROVE StepInv'
    BY <1>20 DEF Dies
  <1>21. CASE Ages
    BY <1>21 DEF Ages
  <1>22. CASE CustomerReplaces
    BY <1>22 DEF CustomerReplaces
  <1>23. CASE FaultElsewhere
    BY <1>23 DEF FaultElsewhere
  <1>24. CASE UNCHANGED leafVars
    BY <1>24 DEF leafVars
  <1> QED
    BY <1>1, <1>2, <1>3, <1>4, <1>5, <1>6, <1>7, <1>8, <1>9, <1>10, <1>11, <1>12, <1>13, <1>14, <1>15, <1>16, <1>17, <1>18, <1>19, <1>20, <1>21, <1>22, <1>23, <1>24 DEF LeafNext, LeafStep

LEMMA QuietStep ==
  ASSUME TypeInv, LockInv, CustomerInv, StepInv, QuietInv, [LeafNext]_leafVars
  PROVE  QuietInv'
  <1> USE LeafAssumption, NoOneAssumption DEF LockInv, CustomerInv, StepInv, QuietInv, Good, TypeInv, LeafTypeOK, At, Goto, Finish, Fail, CanFail, Ended, Idle, Move, Remove,
      Steps, Results, Slots, Pairs, Customer, None, FaultKinds, Exists, HasPair, HasRoot, IsManagedState, IsManagedLeaf,
      Building, UnderLock, Undoing
  <1>1. ASSUME NEW p \in Updaters, BeginProvision(p) PROVE QuietInv'
    BY <1>1 DEF BeginProvision
  <1>2. ASSUME NEW p \in Updaters, BeginRenew(p) PROVE QuietInv'
    BY <1>2 DEF BeginRenew
  <1>3. ASSUME NEW p \in Updaters, BeginRotate(p) PROVE QuietInv'
    BY <1>3 DEF BeginRotate
  <1>4. ASSUME NEW p \in Updaters, Busy(p) PROVE QuietInv'
    BY <1>4 DEF Busy
  <1>5. ASSUME NEW p \in Updaters, Acquire(p) PROVE QuietInv'
    BY <1>5, DecisionType DEF Acquire, MayAcquire
  <1>6. ASSUME NEW p \in Updaters, WriteRoot(p) PROVE QuietInv'
    BY <1>6 DEF WriteRoot
  <1>7. ASSUME NEW p \in Updaters, MarkCustom(p) PROVE QuietInv'
    BY <1>7 DEF MarkCustom
  <1>8. ASSUME NEW p \in Updaters, WriteFails(p) PROVE QuietInv'
    BY <1>8 DEF WriteFails
  <1>9. ASSUME NEW p \in Updaters, Stage(p) PROVE QuietInv'
    BY <1>9 DEF Stage
  <1>10. ASSUME NEW p \in Updaters, Clear(p) PROVE QuietInv'
    BY <1>10 DEF Clear
  <1>11. ASSUME NEW p \in Updaters, MoveKey(p) PROVE QuietInv'
    BY <1>11 DEF MoveKey
  <1>12. ASSUME NEW p \in Updaters, MoveCert(p) PROVE QuietInv'
    BY <1>12 DEF MoveCert
  <1>13. ASSUME NEW p \in Updaters, InstallKey(p) PROVE QuietInv'
    BY <1>13 DEF InstallKey
  <1>14. ASSUME NEW p \in Updaters, InstallCert(p) PROVE QuietInv'
    BY <1>14 DEF InstallCert
  <1>15. ASSUME NEW p \in Updaters, Drop(p) PROVE QuietInv'
    BY <1>15 DEF Drop
  <1>16. ASSUME NEW p \in Updaters, Undo(p) PROVE QuietInv'
    BY <1>16 DEF Undo
  <1>17. ASSUME NEW p \in Updaters, RestoreKey(p) PROVE QuietInv'
    BY <1>17 DEF RestoreKey
  <1>18. ASSUME NEW p \in Updaters, RestoreCert(p) PROVE QuietInv'
    BY <1>18 DEF RestoreCert
  <1>19. ASSUME NEW p \in Updaters, Record(p) PROVE QuietInv'
    BY <1>19 DEF Record
  <1>20. ASSUME NEW p \in Updaters, Dies(p) PROVE QuietInv'
    BY <1>20 DEF Dies
  <1>21. CASE Ages
    BY <1>21 DEF Ages
  <1>22. CASE CustomerReplaces
    BY <1>22 DEF CustomerReplaces
  <1>23. CASE FaultElsewhere
    BY <1>23 DEF FaultElsewhere
  <1>24. CASE UNCHANGED leafVars
    BY <1>24 DEF leafVars
  <1> QED
    BY <1>1, <1>2, <1>3, <1>4, <1>5, <1>6, <1>7, <1>8, <1>9, <1>10, <1>11, <1>12, <1>13, <1>14, <1>15, <1>16, <1>17, <1>18, <1>19, <1>20, <1>21, <1>22, <1>23, <1>24 DEF LeafNext, LeafStep

LEMMA UnmixedStep ==
  ASSUME TypeInv, LockInv, CustomerInv, StepInv, QuietInv, UnmixedInv, QuietInv', [LeafNext]_leafVars
  PROVE  UnmixedInv'
  <1> USE LeafAssumption, NoOneAssumption DEF LockInv, StepInv, QuietInv, UnmixedInv, Good, Bare, OneFault, TypeInv, LeafTypeOK, At, Goto, Finish, Fail, CanFail, Ended, Idle, Move, Remove,
      Steps, Results, Slots, Pairs, Customer, None, FaultKinds, Exists, HasPair, HasRoot, IsManagedState, IsManagedLeaf,
      Building, UnderLock, Undoing
  <1>1. ASSUME NEW p \in Updaters, BeginProvision(p) PROVE UnmixedInv'
    BY <1>1 DEF BeginProvision
  <1>2. ASSUME NEW p \in Updaters, BeginRenew(p) PROVE UnmixedInv'
    BY <1>2 DEF BeginRenew
  <1>3. ASSUME NEW p \in Updaters, BeginRotate(p) PROVE UnmixedInv'
    BY <1>3 DEF BeginRotate
  <1>4. ASSUME NEW p \in Updaters, Busy(p) PROVE UnmixedInv'
    BY <1>4 DEF Busy
  <1>5. ASSUME NEW p \in Updaters, Acquire(p) PROVE UnmixedInv'
    BY <1>5, DecisionType DEF Acquire, MayAcquire
  <1>6. ASSUME NEW p \in Updaters, WriteRoot(p) PROVE UnmixedInv'
    BY <1>6 DEF WriteRoot
  <1>7. ASSUME NEW p \in Updaters, MarkCustom(p) PROVE UnmixedInv'
    BY <1>7 DEF MarkCustom
  <1>8. ASSUME NEW p \in Updaters, WriteFails(p) PROVE UnmixedInv'
    BY <1>8 DEF WriteFails
  <1>9. ASSUME NEW p \in Updaters, Stage(p) PROVE UnmixedInv'
    BY <1>9 DEF Stage
  <1>10. ASSUME NEW p \in Updaters, Clear(p) PROVE UnmixedInv'
    BY <1>10 DEF Clear
  <1>11. ASSUME NEW p \in Updaters, MoveKey(p) PROVE UnmixedInv'
    BY <1>11 DEF MoveKey
  <1>12. ASSUME NEW p \in Updaters, MoveCert(p) PROVE UnmixedInv'
    BY <1>12 DEF MoveCert
  <1>13. ASSUME NEW p \in Updaters, InstallKey(p) PROVE UnmixedInv'
    BY <1>13 DEF InstallKey
  <1>14. ASSUME NEW p \in Updaters, InstallCert(p) PROVE UnmixedInv'
    BY <1>14 DEF InstallCert
  <1>15. ASSUME NEW p \in Updaters, Drop(p) PROVE UnmixedInv'
    BY <1>15 DEF Drop
  <1>16. ASSUME NEW p \in Updaters, Undo(p) PROVE UnmixedInv'
    BY <1>16 DEF Undo
  <1>17. ASSUME NEW p \in Updaters, RestoreKey(p) PROVE UnmixedInv'
    BY <1>17 DEF RestoreKey
  <1>18. ASSUME NEW p \in Updaters, RestoreCert(p) PROVE UnmixedInv'
    BY <1>18 DEF RestoreCert
  <1>19. ASSUME NEW p \in Updaters, Record(p) PROVE UnmixedInv'
    BY <1>19 DEF Record
  <1>20. ASSUME NEW p \in Updaters, Dies(p) PROVE UnmixedInv'
    BY <1>20 DEF Dies
  <1>21. CASE Ages
    BY <1>21 DEF Ages
  <1>22. CASE CustomerReplaces
    BY <1>22 DEF CustomerReplaces
  <1>23. CASE FaultElsewhere
    BY <1>23 DEF FaultElsewhere
  <1>24. CASE UNCHANGED leafVars
    BY <1>24 DEF leafVars
  <1> QED
    BY <1>1, <1>2, <1>3, <1>4, <1>5, <1>6, <1>7, <1>8, <1>9, <1>10, <1>11, <1>12, <1>13, <1>14, <1>15, <1>16, <1>17, <1>18, <1>19, <1>20, <1>21, <1>22, <1>23, <1>24 DEF LeafNext, LeafStep

\* Under one fault there is a whole pair at every step, not only between the replacements.
LEMMA AlwaysWhole ==
  ASSUME Inv, Bare, state.mode # "none"
  PROVE  Whole
  <1> USE DEF TypeInv, LeafTypeOK, Slots
  <1>1. CASE \A p \in Updaters : job[p].at \notin Building \ {"stage"}
    BY <1>1 DEF Inv, WholeInv
  <1>2. ASSUME NEW p \in Updaters, job[p].at \in {"clear", "moveKey", "moveCert", "installKey"} PROVE Whole
    BY <1>2 DEF Inv, StepInv, Whole, Exists
  <1>3. ASSUME NEW p \in Updaters, At(p, "installCert") PROVE Whole
    BY <1>3 DEF Inv, StepInv, Whole, Exists
  <1>4. ASSUME NEW p \in Updaters, job[p].at \in {"drop", "record"} PROVE Whole
    BY <1>4 DEF Inv, StepInv, Whole, Exists
  <1>5. ASSUME NEW p \in Updaters, job[p].at \in Undoing PROVE Whole
    <2>1. faults = {"install"}
      BY <1>5 DEF Inv, StepInv, Bare, OneFault
    <2> QED
      BY <1>5, <2>1 DEF Inv, QuietInv, Good, Whole, Undoing, At
  <1> QED
    BY <1>1, <1>2, <1>3, <1>4, <1>5 DEF Building, Undoing, At

\* A call that leaves the files in use and the state file alone leaves a whole pair.
LEMMA WholeKept ==
  ASSUME Inv, UNCHANGED <<disk, state>>, faults \subseteq faults'
  PROVE  WholeInv'
  <1> SUFFICES ASSUME Bare', (state.mode # "none")' PROVE Whole'
    BY DEF WholeInv
  <1>1. Bare
    BY DEF Bare, OneFault
  <1> QED
    BY <1>1, AlwaysWhole DEF Whole

\* So does a step after which a pair is in use.
LEMMA WholeInUse ==
  ASSUME (disk["key"] = disk["cert"])', (disk["key"] # None)'
  PROVE  WholeInv'
  BY DEF WholeInv, Whole

\* So does a step in the middle of a replacement, which the invariant says nothing about.
LEMMA WholeLater ==
  ASSUME NEW p \in Updaters, job'[p].at \in Building \ {"stage"}
  PROVE  WholeInv'
  BY DEF WholeInv

LEMMA WholeStep ==
  ASSUME Inv, QuietInv', [LeafNext]_leafVars
  PROVE  WholeInv'
  <1>1. ASSUME NEW p \in Updaters, BeginProvision(p) PROVE WholeInv'
    BY <1>1, WholeKept DEF BeginProvision, Fail
  <1>2. ASSUME NEW p \in Updaters, BeginRenew(p) PROVE WholeInv'
    BY <1>2, WholeKept DEF BeginRenew, Fail
  <1>3. ASSUME NEW p \in Updaters, BeginRotate(p) PROVE WholeInv'
    BY <1>3, WholeKept DEF BeginRotate, Fail
  <1>4. ASSUME NEW p \in Updaters, Busy(p) PROVE WholeInv'
    BY <1>4, WholeKept DEF Busy, Fail
  <1>5. ASSUME NEW p \in Updaters, Acquire(p) PROVE WholeInv'
    BY <1>5, WholeKept DEF Acquire, Fail
  <1>6. ASSUME NEW p \in Updaters, WriteRoot(p) PROVE WholeInv'
    BY <1>6, WholeKept DEF WriteRoot, Fail
  <1>7. ASSUME NEW p \in Updaters, MarkCustom(p) PROVE WholeInv'
    <2>1. HasPair /\ UNCHANGED <<disk, faults>>
      BY <1>7 DEF MarkCustom, Inv, StepInv
    <2> SUFFICES ASSUME Bare' PROVE Whole'
      BY DEF WholeInv
    <2>2. disk["key"] = disk["cert"]
      BY <2>1 DEF Inv, UnmixedInv, Bare, OneFault
    <2> QED
      BY <2>1, <2>2 DEF Whole, HasPair, Exists
  <1>8. ASSUME NEW p \in Updaters, WriteFails(p) PROVE WholeInv'
    <2> SUFFICES ASSUME Bare', (state.mode # "none")' PROVE Whole'
      BY DEF WholeInv
    <2>1. faults = {} /\ UNCHANGED state
      BY <1>8 DEF WriteFails, Fail, CanFail, Bare, OneFault, Inv, TypeInv, LeafTypeOK
    <2>2. disk["key"] = disk["cert"] /\ disk["key"] # None
      BY <1>8, <2>1 DEF WriteFails, Inv, QuietInv, StepInv, Good, Exists
    <2>3. disk'["key"] = disk["key"] /\ disk'["cert"] = disk["cert"]
      BY <1>8 DEF WriteFails, Inv, TypeInv, LeafTypeOK, Slots
    <2> QED
      BY <2>2, <2>3 DEF Whole
  <1>9. ASSUME NEW p \in Updaters, Stage(p) PROVE WholeInv'
    <2>1. CASE made < MaxPairs
      BY <1>9, <2>1, WholeLater DEF Stage, Goto, Building, Inv, TypeInv, LeafTypeOK
    <2>2. CASE ~(made < MaxPairs)
      BY <1>9, <2>2, WholeKept DEF Stage
    <2> QED
      BY <2>1, <2>2
  <1>10. ASSUME NEW p \in Updaters, Clear(p) PROVE WholeInv'
    BY <1>10, WholeLater DEF Clear, Goto, TypeInv, LeafTypeOK, Inv, Building
  <1>11. ASSUME NEW p \in Updaters, MoveKey(p) PROVE WholeInv'
    BY <1>11, WholeLater DEF MoveKey, Goto, TypeInv, LeafTypeOK, Inv, Building
  <1>12. ASSUME NEW p \in Updaters, MoveCert(p) PROVE WholeInv'
    BY <1>12, WholeLater DEF MoveCert, Goto, TypeInv, LeafTypeOK, Inv, Building
  <1>13. ASSUME NEW p \in Updaters, InstallKey(p) PROVE WholeInv'
    BY <1>13, WholeLater DEF InstallKey, Goto, TypeInv, LeafTypeOK, Inv, Building
  <1>14. ASSUME NEW p \in Updaters, InstallCert(p) PROVE WholeInv'
    BY <1>14, WholeLater DEF InstallCert, Goto, TypeInv, LeafTypeOK, Inv, Building
  <1>15. ASSUME NEW p \in Updaters, Drop(p) PROVE WholeInv'
    BY <1>15, WholeLater DEF Drop, Goto, TypeInv, LeafTypeOK, Inv, Building
  <1>16. ASSUME NEW p \in Updaters, Undo(p) PROVE WholeInv'
    BY <1>16, WholeLater DEF Undo, Goto, TypeInv, LeafTypeOK, Inv, Building
  <1>17. ASSUME NEW p \in Updaters, RestoreKey(p) PROVE WholeInv'
    BY <1>17, WholeLater DEF RestoreKey, Goto, TypeInv, LeafTypeOK, Inv, Building
  <1>18. ASSUME NEW p \in Updaters, RestoreCert(p) PROVE WholeInv'
    <2> SUFFICES ASSUME Bare', (state.mode # "none")' PROVE Whole'
      BY DEF WholeInv
    <2>1. faults \cap {"install", "move"} # {} /\ UNCHANGED state
      BY <1>18 DEF RestoreCert, Inv, StepInv, Undoing, At
    <2>2. faults' = {"install"}
      BY <1>18, <2>1 DEF RestoreCert, Fail, CanFail, Bare, OneFault
    <2>3. lock' = NoOne
      BY <1>18 DEF RestoreCert, Finish, Inv, LockInv, UnderLock, Building, At
    <2>4. Good("key", "cert")'
      BY <2>2, <2>3 DEF QuietInv
    <2> QED
      BY <2>4 DEF Good, Whole
  <1>19. ASSUME NEW p \in Updaters, Record(p) PROVE WholeInv'
    BY <1>19, WholeInUse DEF Record, Inv, StepInv, Exists, At
  <1>20. ASSUME NEW p \in Updaters, Dies(p) PROVE WholeInv'
    BY <1>20, WholeKept DEF Dies, Fail
  <1>21. CASE Ages
    BY <1>21, WholeKept DEF Ages
  <1>22. CASE CustomerReplaces
    BY <1>22, WholeInUse, LeafAssumption DEF CustomerReplaces, Customer, None, Inv, TypeInv, LeafTypeOK, Slots
  <1>23. CASE FaultElsewhere
    BY <1>23, WholeKept DEF FaultElsewhere, Fail
  <1>24. CASE UNCHANGED leafVars
    BY <1>24, WholeKept DEF leafVars
  <1> QED
    BY <1>1, <1>2, <1>3, <1>4, <1>5, <1>6, <1>7, <1>8, <1>9, <1>10, <1>11, <1>12, <1>13, <1>14, <1>15, <1>16, <1>17, <1>18, <1>19, <1>20, <1>21, <1>22, <1>23, <1>24 DEF LeafNext, LeafStep

-----------------------------------------------------------------------------
LEMMA InvStep == Inv /\ [LeafNext]_leafVars => Inv'
  <1> SUFFICES ASSUME Inv, [LeafNext]_leafVars PROVE Inv'
    OBVIOUS
  <1>1. TypeInv' /\ LockInv' /\ CustomerInv' /\ StepInv' /\ QuietInv'
    BY TypeStep, LockStep, CustomerStep, StepsStep, QuietStep DEF Inv
  <1>2. UnmixedInv' /\ WholeInv'
    BY <1>1, UnmixedStep, WholeStep DEF Inv
  <1> QED
    BY <1>1, <1>2 DEF Inv

LEMMA InvInit == LeafInit => Inv
  <1> SUFFICES ASSUME LeafInit PROVE Inv
    OBVIOUS
  <1> USE LeafAssumption, NoOneAssumption
  <1>1. /\ disk \in [Slots -> {None, Customer}]
        /\ disk["key"] = disk["cert"]
        /\ \A f \in Slots \ {"key", "cert"} : disk[f] = None
    BY DEF LeafInit, Slots
  <1>2. \A p \in Updaters : job[p] = Idle
    BY DEF LeafInit
  <1>3. TypeInv
    BY <1>1, <1>2 DEF LeafInit, TypeInv, LeafTypeOK, Idle, At, Pairs, Customer, Steps, Results, None
  <1>4. LockInv /\ StepInv
    BY <1>2 DEF LeafInit, LockInv, StepInv, Idle, At, UnderLock, Building, Undoing
  <1>5. CustomerInv
    BY <1>1 DEF LeafInit, CustomerInv, IsManagedState, Slots, Customer, None
  <1>6. QuietInv /\ UnmixedInv /\ WholeInv
    <2>1. state.mode = "none" /\ \A p \in Updaters : job[p].at = "idle"
      BY <1>2 DEF LeafInit, Idle
    <2>2. Good("key", "cert")
      BY <1>1, <2>1 DEF Good, Slots
    <2> QED
      BY <1>1, <2>1, <2>2 DEF QuietInv, UnmixedInv, WholeInv, At
  <1> QED
    BY <1>3, <1>4, <1>5, <1>6 DEF Inv

LEMMA LeafInvariant == LeafSpec => []Inv
  <1> QED
    BY InvInit, InvStep, PTL DEF LeafSpec

\* The manager's variables keep their types (LeafTypeOK).
THEOREM LeafTypes == LeafSpec => []LeafTypeOK
  <1>1. Inv => LeafTypeOK
    BY DEF Inv, TypeInv
  <1> QED
    BY <1>1, LeafInvariant, PTL

\* A pair at rest is whole and recorded, as long as nothing but the install of a staged
\* file has failed: TlsFileLock and the undo of BuildLeaf do what they are for.
THEOREM LeafAtRest == LeafSpec => []AtRestConsistent
  <1>1. Inv => AtRestConsistent
    BY DEF Inv, QuietInv, Good, AtRestConsistent
  <1> QED
    BY <1>1, LeafInvariant, PTL

LEMMA AtMostOne ==
  ASSUME faults \subseteq FaultKinds, Cardinality(faults) <= 1
  PROVE  OneFault
  <1>1. IsFiniteSet(FaultKinds)
    <2>1. IsFiniteSet({"move"})
      BY FS_Singleton
    <2>2. IsFiniteSet({"move", "install"})
      <3>1. {"move", "install"} = {"move"} \cup {"install"}
        OBVIOUS
      <3> QED
        BY <2>1, <3>1, FS_AddElement
    <2>3. IsFiniteSet({"move", "install", "restore"})
      <3>1. {"move", "install", "restore"} = {"move", "install"} \cup {"restore"}
        OBVIOUS
      <3> QED
        BY <2>2, <3>1, FS_AddElement
    <2>4. IsFiniteSet({"move", "install", "restore", "write"})
      <3>1. {"move", "install", "restore", "write"} = {"move", "install", "restore"} \cup {"write"}
        OBVIOUS
      <3> QED
        BY <2>3, <3>1, FS_AddElement
    <2>5. IsFiniteSet({"move", "install", "restore", "write", "bind"})
      <3>1. {"move", "install", "restore", "write", "bind"} = {"move", "install", "restore", "write"} \cup {"bind"}
        OBVIOUS
      <3> QED
        BY <2>4, <3>1, FS_AddElement
    <2>6. IsFiniteSet({"move", "install", "restore", "write", "bind", "crash"})
      <3>1. {"move", "install", "restore", "write", "bind", "crash"} = {"move", "install", "restore", "write", "bind"} \cup {"crash"}
        OBVIOUS
      <3> QED
        BY <2>5, <3>1, FS_AddElement
    <2> QED
      BY <2>6 DEF FaultKinds
  <1>2. IsFiniteSet(faults) /\ Cardinality(faults) \in Nat
    BY <1>1, FS_Subset, FS_CardinalityType
  <1>3. Cardinality(faults) = 0 \/ Cardinality(faults) = 1
    BY <1>2
  <1> QED
    BY <1>2, <1>3, FS_EmptySet, FS_Singleton DEF OneFault

\* One crash, failed write or failed install, at any step of BuildLeaf or of its callers,
\* leaves a whole pair under some name.
THEOREM LeafSurvives == LeafSpec => []PairSurvives
  <1>1. Inv => PairSurvives
    <2> SUFFICES ASSUME Inv, state.mode # "none", Cardinality(faults) <= 1, "move" \notin faults
                 PROVE  Whole
      BY DEF PairSurvives, Whole
    <2>1. Bare
      BY AtMostOne DEF Inv, TypeInv, LeafTypeOK, Bare
    <2> QED
      BY <2>1, AlwaysWhole
  <1> QED
    BY <1>1, LeafInvariant, PTL

LEMMA CustomerKept ==
  ASSUME Inv, HasCustomerPair, [LeafNext]_leafVars
  PROVE  HasCustomerPair'
  <1> USE LeafAssumption DEF HasCustomerPair, Inv, TypeInv, LeafTypeOK, StepInv, At, Building, Slots, Pairs, Customer, None
  <1>1. ASSUME NEW p \in Updaters, BeginProvision(p) PROVE HasCustomerPair'
    BY <1>1 DEF BeginProvision
  <1>2. ASSUME NEW p \in Updaters, BeginRenew(p) PROVE HasCustomerPair'
    BY <1>2 DEF BeginRenew
  <1>3. ASSUME NEW p \in Updaters, BeginRotate(p) PROVE HasCustomerPair'
    BY <1>3 DEF BeginRotate
  <1>4. ASSUME NEW p \in Updaters, Busy(p) PROVE HasCustomerPair'
    BY <1>4 DEF Busy
  <1>5. ASSUME NEW p \in Updaters, Acquire(p) PROVE HasCustomerPair'
    BY <1>5 DEF Acquire
  <1>6. ASSUME NEW p \in Updaters, WriteRoot(p) PROVE HasCustomerPair'
    BY <1>6 DEF WriteRoot
  <1>7. ASSUME NEW p \in Updaters, MarkCustom(p) PROVE HasCustomerPair'
    BY <1>7 DEF MarkCustom
  <1>8. ASSUME NEW p \in Updaters, WriteFails(p) PROVE HasCustomerPair'
    BY <1>8 DEF WriteFails
  <1>9. ASSUME NEW p \in Updaters, Stage(p) PROVE HasCustomerPair'
    BY <1>9 DEF Stage
  <1>10. ASSUME NEW p \in Updaters, Clear(p) PROVE HasCustomerPair'
    BY <1>10 DEF Clear
  <1>11. ASSUME NEW p \in Updaters, MoveKey(p) PROVE HasCustomerPair'
    BY <1>11 DEF MoveKey
  <1>12. ASSUME NEW p \in Updaters, MoveCert(p) PROVE HasCustomerPair'
    BY <1>12 DEF MoveCert
  <1>13. ASSUME NEW p \in Updaters, InstallKey(p) PROVE HasCustomerPair'
    BY <1>13 DEF InstallKey
  <1>14. ASSUME NEW p \in Updaters, InstallCert(p) PROVE HasCustomerPair'
    BY <1>14 DEF InstallCert
  <1>15. ASSUME NEW p \in Updaters, Drop(p) PROVE HasCustomerPair'
    BY <1>15 DEF Drop
  <1>16. ASSUME NEW p \in Updaters, Undo(p) PROVE HasCustomerPair'
    BY <1>16 DEF Undo
  <1>17. ASSUME NEW p \in Updaters, RestoreKey(p) PROVE HasCustomerPair'
    BY <1>17 DEF RestoreKey
  <1>18. ASSUME NEW p \in Updaters, RestoreCert(p) PROVE HasCustomerPair'
    BY <1>18 DEF RestoreCert
  <1>19. ASSUME NEW p \in Updaters, Record(p) PROVE HasCustomerPair'
    BY <1>19 DEF Record
  <1>20. ASSUME NEW p \in Updaters, Dies(p) PROVE HasCustomerPair'
    BY <1>20 DEF Dies
  <1>21. CASE Ages
    BY <1>21 DEF Ages
  <1>22. CASE CustomerReplaces
    BY <1>22 DEF CustomerReplaces
  <1>23. CASE FaultElsewhere
    BY <1>23 DEF FaultElsewhere
  <1>24. CASE UNCHANGED leafVars
    BY <1>24 DEF leafVars
  <1> QED
    BY <1>1, <1>2, <1>3, <1>4, <1>5, <1>6, <1>7, <1>8, <1>9, <1>10, <1>11, <1>12, <1>13, <1>14, <1>15, <1>16, <1>17, <1>18, <1>19, <1>20, <1>21, <1>22, <1>23, <1>24 DEF LeafNext, LeafStep

\* Provision, RenewLeaf and RotateIfNeeded never touch a pair a customer installed.
THEOREM LeafCustomerStays == LeafSpec => CustomerPairStays
  <1>1. Inv /\ [LeafNext]_leafVars => [HasCustomerPair => HasCustomerPair']_leafVars
    BY CustomerKept
  <1> QED
    BY <1>1, LeafInvariant, PTL DEF LeafSpec, CustomerPairStays

-----------------------------------------------------------------------------
(* The service beside other updaters.                                      *)

LEMMA NextRefines == [Next]_vars => [LeafNext]_leafVars
  <1> SUFFICES ASSUME [Next]_vars PROVE [LeafNext]_leafVars
    OBVIOUS
  <1> USE SdkAppAssumption
  <1>1. CASE Boot
    BY <1>1 DEF Boot, LeafNext
  <1>2. CASE IntervalOver
    BY <1>2 DEF IntervalOver, LeafNext
  <1>3. CASE StartServer
    BY <1>3 DEF StartServer, Starts, leafVars
  <1>4. ASSUME UNCHANGED faults \/ Fail("bind"), UNCHANGED <<disk, root, state, lock, job, made, due>>
        PROVE  [LeafNext]_leafVars
    BY <1>4 DEF LeafNext, FaultElsewhere, leafVars
  <1>5. CASE StartRolledBack
    BY <1>4, <1>5 DEF StartRolledBack, StartFails
  <1>6. CASE ReloadStarts
    <2>1. UNCHANGED faults \/ Fail("bind")
      BY <1>6 DEF ReloadStarts, Starts, StartFails
    <2> QED
      BY <1>4, <1>6, <2>1 DEF ReloadStarts
  <1>7. CASE Killed
    BY <1>7 DEF Killed, LeafNext
  <1>8. CASE OwnUpdate
    BY <1>8 DEF OwnUpdate, LeafNext
  <1>9. CASE Others
    BY <1>9 DEF Others, LeafNext
  <1>10. CASE CreateApp \/ StopRequested \/ SetStopFlag \/ Notify \/ Join \/ StopServer
    BY <1>10 DEF CreateApp, StopRequested, SetStopFlag, Notify, Join, StopServer
  <1>11. CASE TestFlag \/ Park \/ Checked \/ ReloadStops
    BY <1>11 DEF TestFlag, Park, Checked, ReloadStops
  <1>12. CASE UNCHANGED vars
    BY <1>12 DEF vars
  <1> QED
    BY <1>1, <1>2, <1>3, <1>5, <1>6, <1>7, <1>8, <1>9, <1>10, <1>11, <1>12
       DEF Next, MainStep, MonitorStep

\* Whatever the threads of the service and the installer do, the files change by calls of
\* the manager, deaths of processes, customers and time only.
THEOREM ServiceIsUpdater == Spec => LeafSpec
  <1>1. Init => LeafInit
    BY DEF Init
  <1> QED
    BY <1>1, NextRefines, PTL DEF Spec, LeafSpec

\* So the service and its monitor never leave an inconsistent pair at rest
\* (AtRestConsistent), lose the last whole pair to one fault (PairSurvives), or touch a
\* customer's (CustomerPairStays).
THEOREM ServiceKeepsPairs == Spec => []AtRestConsistent /\ []PairSurvives /\ CustomerPairStays
  BY ServiceIsUpdater, LeafAtRest, LeafSurvives, LeafCustomerStays, PTL

-----------------------------------------------------------------------------
(* The listeners are down whenever the service is off.                     *)

First == IF HttpEnabled THEN 1 ELSE 3

Between(m, n) == {Servers[i] : i \in m..n}

MonitorOK(m) ==
  /\ DOMAIN m = {"at", "attempt", "n", "ok"}
  /\ m.at \in {"none", "test", "park", "wait", "rotate", "halt", "start"}
  /\ m.n \in 1..3

OffInv ==
  /\ main \in [at : {"off", "check", "start", "run", "flag", "notify", "join", "halt"}, n : 1..5]
  /\ MonitorOK(monitor)
  /\ monitor.at # "none" => main.at \in {"run", "flag", "notify", "join"}
  /\ main.at \in {"off", "check"} => up = {}
  /\ main.at \in {"start", "halt"} => main.n \in First..5
  /\ main.at = "start" => up \subseteq Between(First, main.n - 1)
  /\ main.at = "halt" => up \subseteq Between(First, main.n)
  /\ up \subseteq Between(First, 5)

\* The names instead of their positions.
LEMMA ServerNames ==
  /\ Servers[1] = "admin" /\ Servers[2] = "demo" /\ Servers[3] = "asset"
  /\ Servers[4] = "command" /\ Servers[5] = "video"
  /\ TlsServers[1] = "asset" /\ TlsServers[2] = "command" /\ TlsServers[3] = "video"
  BY DEF Servers, TlsServers

LEMMA TlsAreServers == \A n \in 1..3 : TlsServers[n] \in Between(First, 5)
  <1> TAKE n \in 1..3
  <1>1. TlsServers[n] = Servers[n + 2] /\ n + 2 \in First..5
    BY ServerNames DEF First
  <1> QED
    BY <1>1 DEF Between

LEMMA OffStep == OffInv /\ [Next]_vars => OffInv'
  <1> SUFFICES ASSUME OffInv, [Next]_vars PROVE OffInv'
    OBVIOUS
  <1> USE DEF OffInv, MonitorOK, GoMain, NoMonitor
  <1>1. CASE Boot
    BY <1>1 DEF Boot
  <1>2. CASE CreateApp
    BY <1>2 DEF CreateApp, First
  <1>3. CASE StartServer
    <2>1. up' = up \cup {Servers[main.n]} /\ main.n \in First..5
      BY <1>3 DEF StartServer, Starts
    <2>2. up' \subseteq Between(First, main.n)
      BY <1>3, <2>1 DEF StartServer, Between, First
    <2>3. CASE main.n < 5
      BY <1>3, <2>2, <2>3 DEF StartServer, Between, First
    <2>4. CASE ~(main.n < 5)
      <3>1. main.n = 5 /\ main' = [at |-> "run", n |-> 5]
        BY <1>3, <2>1, <2>4 DEF StartServer, First
      <3>2. monitor' = [at |-> "test", attempt |-> 1, n |-> 1, ok |-> TRUE]
        BY <1>3, <2>4 DEF StartServer
      <3> QED
        BY <2>2, <3>1, <3>2
    <2> QED
      BY <2>3, <2>4
  <1>4. CASE StartRolledBack
    BY <1>4 DEF StartRolledBack, Halts, Between, First
  <1>5. CASE StopRequested \/ SetStopFlag
    BY <1>5 DEF StopRequested, SetStopFlag
  <1>6. CASE Notify \/ Join
    <2>1. CASE Notify
      BY <2>1 DEF Notify
    <2>2. CASE Join
      <3>1. main' = [at |-> "halt", n |-> 5] /\ 5 \in First..5 /\ UNCHANGED <<up, monitor>>
        BY <2>2 DEF Join, First
      <3> QED
        BY <2>2, <3>1 DEF Join
    <2> QED
      BY <1>6, <2>1, <2>2
  <1>7. CASE StopServer
    <2>1. up' = up \ {Servers[main.n]} /\ main.n \in First..5 /\ UNCHANGED monitor
      BY <1>7 DEF StopServer, Halts
    <2>2. up' \subseteq Between(First, main.n - 1)
      BY <1>7, <2>1 DEF StopServer, Between, First
    <2>3. CASE main.n > First
      BY <1>7, <2>1, <2>2, <2>3 DEF StopServer, Between, First
    <2>4. CASE ~(main.n > First)
      BY <1>7, <2>1, <2>2, <2>4 DEF StopServer, Between, First
    <2> QED
      BY <2>3, <2>4 DEF First
  <1>8. CASE TestFlag \/ Park \/ IntervalOver \/ Checked
    <2>1. UNCHANGED <<main, up>> /\ monitor.at # "none"
      BY <1>8 DEF TestFlag, Park, IntervalOver, Checked
    <2>2. MonitorOK(monitor')
      <3>1. CASE TestFlag
        BY <3>1 DEF TestFlag
      <3>2. CASE Park
        BY <3>2 DEF Park
      <3>3. CASE IntervalOver
        BY <3>3 DEF IntervalOver
      <3>4. CASE Checked
        BY <3>4 DEF Checked
      <3> QED
        BY <1>8, <3>1, <3>2, <3>3, <3>4
    <2> QED
      BY <2>1, <2>2
  <1>9. CASE ReloadStops
    BY <1>9 DEF ReloadStops, Halts
  <1>10. CASE ReloadStarts
    <2>1. up' \subseteq Between(First, 5) /\ UNCHANGED main
      BY <1>10, TlsAreServers DEF ReloadStarts, Starts
    <2>2. /\ MonitorOK(monitor')
          /\ main.at \in {"run", "flag", "notify", "join"}
      <3>1. PICK ok \in BOOLEAN :
              LET all == monitor.ok /\ ok
              IN  monitor' = IF monitor.n < 3
                               THEN [monitor EXCEPT !.at = "halt", !.n = @ + 1, !.ok = all]
                               ELSE IF ~all /\ monitor.attempt = 1
                                      THEN [NoMonitor EXCEPT !.at = "halt", !.attempt = 2]
                                      ELSE [NoMonitor EXCEPT !.at = "test"]
        BY <1>10 DEF ReloadStarts, RoundOk
      <3>2. main.at \in {"run", "flag", "notify", "join"}
        BY <1>10 DEF ReloadStarts
      <3>3. CASE monitor.n < 3
        <4>1. /\ DOMAIN monitor' = {"at", "attempt", "n", "ok"}
              /\ monitor'.at = "halt" /\ monitor'.n = monitor.n + 1
          BY <3>1, <3>3
        <4> QED
          BY <3>2, <3>3, <4>1
      <3>4. CASE ~(monitor.n < 3)
        <4>1. /\ DOMAIN monitor' = {"at", "attempt", "n", "ok"}
              /\ monitor'.at \in {"halt", "test"} /\ monitor'.n = 1
          BY <3>1, <3>4
        <4> QED
          BY <3>2, <4>1
      <3> QED
        BY <3>3, <3>4
    <2> QED
      BY <2>1, <2>2
  <1>11. CASE Killed
    BY <1>11 DEF Killed, Halts
  <1>12. CASE OwnUpdate \/ Others \/ UNCHANGED vars
    BY <1>12 DEF OwnUpdate, Others, appVars, vars
  <1> QED
    BY <1>1, <1>2, <1>3, <1>4, <1>5, <1>6, <1>7, <1>8, <1>9, <1>10, <1>11, <1>12
       DEF Next, MainStep, MonitorStep

\* A service that is off, after a stop, a start that failed half way or a kill, has no
\* listener and no monitor (OffIsSilent): Stop joins the thread that could restart one.
THEOREM OffStaysSilent == Spec => []OffIsSilent
  <1>1. Init => OffInv
    BY DEF Init, OffInv, MonitorOK, NoMonitor, Between
  <1>2. OffInv => OffIsSilent
    BY DEF OffInv, OffIsSilent
  <1> QED
    BY <1>1, <1>2, OffStep, PTL DEF Spec

-----------------------------------------------------------------------------
(* What the listeners serve.                                               *)

TlsNames == {"asset", "command", "video"}

\* The certificate in use and the one to be restored are never older than the one recorded
\* last, nor than the one the service rotated to; the one being installed is the newest.
NewerInv ==
  /\ rotated \in 0..made /\ state.leaf \in 0..made
  /\ \A f \in Slots : disk[f] # Customer => disk[f] <= made
  /\ \A f \in {"cert", "oldCert"} : disk[f] # None => disk[f] >= state.leaf /\ disk[f] >= rotated
  /\ \A p \in Updaters :
       /\ job[p].at \in {"clear", "moveKey", "moveCert", "installKey", "installCert"} =>
            disk["newCert"] >= state.leaf /\ disk["newCert"] >= rotated
       /\ At(p, "record") => disk["oldCert"] = None

Fresh(s) == s \in up /\ serves[s] # None /\ serves[s] >= rotated

\* A start, or a round of a reload without failures, has refreshed the listeners so far.
ServeInv ==
  /\ DOMAIN serves = TlsNames
  /\ monitor.ok \in BOOLEAN
  /\ running \in BOOLEAN /\ reloaded \in BOOLEAN
  /\ running => main.at = "run"
  /\ main.at = "start" => \A i \in 3..5 : i < main.n => Fresh(Servers[i])
  /\ running /\ monitor.at \in {"test", "park", "wait", "rotate"} /\ reloaded =>
       \A s \in TlsNames : Fresh(s)
  /\ monitor.at \in {"halt", "start"} /\ monitor.ok =>
       \A i \in 1..3 : i < monitor.n => Fresh(TlsServers[i])

LEMMA NewerLeaf ==
  ASSUME TypeInv, LockInv, CustomerInv, StepInv, NewerInv, [LeafNext]_leafVars, rotated' = rotated
  PROVE  NewerInv'
  <1> USE LeafAssumption, NoOneAssumption DEF NewerInv, CustomerInv, StepInv, LockInv, TypeInv, LeafTypeOK, At, Goto, Finish,
      Fail, CanFail, Ended, Idle, Move, Remove, Steps, Results, Slots, Pairs, Customer, None, Exists, Building, UnderLock, Undoing
  <1>1. ASSUME NEW p \in Updaters, BeginProvision(p) PROVE NewerInv'
    BY <1>1 DEF BeginProvision
  <1>2. ASSUME NEW p \in Updaters, BeginRenew(p) PROVE NewerInv'
    BY <1>2 DEF BeginRenew
  <1>3. ASSUME NEW p \in Updaters, BeginRotate(p) PROVE NewerInv'
    BY <1>3 DEF BeginRotate
  <1>4. ASSUME NEW p \in Updaters, Busy(p) PROVE NewerInv'
    BY <1>4 DEF Busy
  <1>5. ASSUME NEW p \in Updaters, Acquire(p) PROVE NewerInv'
    BY <1>5 DEF Acquire, Decision
  <1>6. ASSUME NEW p \in Updaters, WriteRoot(p) PROVE NewerInv'
    BY <1>6 DEF WriteRoot
  <1>7. ASSUME NEW p \in Updaters, MarkCustom(p) PROVE NewerInv'
    BY <1>7 DEF MarkCustom
  <1>8. ASSUME NEW p \in Updaters, WriteFails(p) PROVE NewerInv'
    BY <1>8 DEF WriteFails
  <1>9. ASSUME NEW p \in Updaters, Stage(p) PROVE NewerInv'
    BY <1>9 DEF Stage
  <1>10. ASSUME NEW p \in Updaters, Clear(p) PROVE NewerInv'
    BY <1>10 DEF Clear
  <1>11. ASSUME NEW p \in Updaters, MoveKey(p) PROVE NewerInv'
    BY <1>11 DEF MoveKey
  <1>12. ASSUME NEW p \in Updaters, MoveCert(p) PROVE NewerInv'
    BY <1>12 DEF MoveCert
  <1>13. ASSUME NEW p \in Updaters, InstallKey(p) PROVE NewerInv'
    BY <1>13 DEF InstallKey
  <1>14. ASSUME NEW p \in Updaters, InstallCert(p) PROVE NewerInv'
    BY <1>14 DEF InstallCert
  <1>15. ASSUME NEW p \in Updaters, Drop(p) PROVE NewerInv'
    BY <1>15 DEF Drop
  <1>16. ASSUME NEW p \in Updaters, Undo(p) PROVE NewerInv'
    BY <1>16 DEF Undo
  <1>17. ASSUME NEW p \in Updaters, RestoreKey(p) PROVE NewerInv'
    BY <1>17 DEF RestoreKey
  <1>18. ASSUME NEW p \in Updaters, RestoreCert(p) PROVE NewerInv'
    BY <1>18 DEF RestoreCert
  <1>19. ASSUME NEW p \in Updaters, Record(p) PROVE NewerInv'
    BY <1>19 DEF Record
  <1>20. ASSUME NEW p \in Updaters, Dies(p) PROVE NewerInv'
    BY <1>20 DEF Dies
  <1>21. CASE Ages
    BY <1>21 DEF Ages
  <1>22. CASE CustomerReplaces
    BY <1>22 DEF CustomerReplaces
  <1>23. CASE FaultElsewhere
    BY <1>23 DEF FaultElsewhere
  <1>24. CASE UNCHANGED leafVars
    BY <1>24 DEF leafVars
  <1> QED
    BY <1>1, <1>2, <1>3, <1>4, <1>5, <1>6, <1>7, <1>8, <1>9, <1>10, <1>11, <1>12, <1>13, <1>14, <1>15, <1>16, <1>17, <1>18, <1>19, <1>20, <1>21, <1>22, <1>23, <1>24 DEF LeafNext, LeafStep

\* Between two rotations the manager's own invariant is all that is needed.
LEMMA NewerStep ==
  ASSUME Inv, NewerInv, [Next]_vars
  PROVE  NewerInv'
  <1> USE DEF Inv
  <1>1. [LeafNext]_leafVars
    BY NextRefines
  <1>2. CASE rotated' = rotated
    BY <1>1, <1>2, NewerLeaf
  <1>3. CASE Boot
    <2>1. rotated' = 0
      BY <1>3 DEF Boot, None
    <2>2. UNCHANGED <<disk, state, made>>
      BY <1>3 DEF Boot, BeginRotate
    <2>3. \A p \in Updaters :
            job'[p].at \in {"clear", "moveKey", "moveCert", "installKey", "installCert", "record"} => job[p].at = job'[p].at
      BY <1>3, SdkAppAssumption DEF Boot, BeginRotate, TypeInv, LeafTypeOK, Ended
    <2> QED
      BY <2>1, <2>2, <2>3, LeafAssumption DEF NewerInv, At, TypeInv, LeafTypeOK, Slots, Pairs, None, Customer
  <1>4. CASE rotated' \in {rotated, state.leaf} /\ UNCHANGED leafVars
    BY <1>4 DEF NewerInv, leafVars, At
  <1>5. CASE CreateApp \/ Checked
    BY <1>4, <1>5 DEF CreateApp, Checked
  <1>6. CASE StartServer \/ StartRolledBack \/ SetStopFlag \/ Notify \/ Join \/ StopServer \/ StopRequested
    BY <1>2, <1>6 DEF StartServer, StartRolledBack, SetStopFlag, Notify, Join, StopServer, StopRequested
  <1>7. CASE TestFlag \/ Park \/ IntervalOver \/ ReloadStops \/ ReloadStarts
    BY <1>2, <1>7 DEF TestFlag, Park, IntervalOver, ReloadStops, ReloadStarts
  <1>8. CASE OwnUpdate \/ Others \/ Killed \/ UNCHANGED vars
    BY <1>2, <1>8 DEF OwnUpdate, Others, appVars, Killed, vars
  <1> QED
    BY <1>3, <1>5, <1>6, <1>7, <1>8 DEF Next, MainStep, MonitorStep

\* A server that starts has loaded a pair no older than the one the service rotated to.
LEMMA StartsFresh ==
  ASSUME NewerInv, ServeInv, NEW s \in TlsNames, Starts(s), rotated' = rotated
  PROVE  /\ Fresh(s)'
         /\ \A t \in TlsNames : Fresh(t) => Fresh(t)'
         /\ DOMAIN serves' = TlsNames
  <1>1. disk["cert"] # None /\ disk["cert"] >= rotated
    BY DEF Starts, HasTls, TlsNames, PairLoads, HasPair, Exists, NewerInv
  <1>2. /\ up' = up \cup {s}
        /\ serves' = [serves EXCEPT ![s] = disk["cert"]]
    BY DEF Starts, HasTls, TlsNames
  <1> QED
    BY <1>1, <1>2 DEF Fresh, ServeInv

LEMMA HaltsOthers ==
  ASSUME ServeInv, NEW S, Halts(S), rotated' = rotated
  PROVE  /\ DOMAIN serves' = TlsNames
         /\ \A t \in TlsNames \ S : Fresh(t) => Fresh(t)'
  BY DEF Halts, Fresh, ServeInv

LEMMA TlsNumbers == 
  /\ \A i \in 3..5 : Servers[i] \in TlsNames
  /\ \A i \in 1..3 : TlsServers[i] \in TlsNames
  /\ \A i, j \in 1..3 : i # j => TlsServers[i] # TlsServers[j]
  /\ \A s \in TlsNames : \E i \in 1..3 : s = TlsServers[i] /\ s = Servers[i + 2]
  /\ \A i \in {1, 2} : Servers[i] \notin TlsNames
  BY ServerNames DEF TlsNames

LEMMA ServeStep ==
  ASSUME OffInv, NewerInv, ServeInv, [Next]_vars
  PROVE  ServeInv'
  <1> USE DEF OffInv, MonitorOK, GoMain, NoMonitor
  \* The parts that do not depend on how a server does.
  <1>1. UNCHANGED <<serves, up, rotated>> => /\ DOMAIN serves' = TlsNames
                                             /\ \A s : Fresh(s)' <=> Fresh(s)
    BY DEF ServeInv, Fresh
  <1>2. CASE Boot
    BY <1>2 DEF Boot, ServeInv
  <1>3. CASE CreateApp
    <2>1. main'.at = "off" \/ (main'.at = "start" /\ main'.n \in {1, 3})
      BY <1>3 DEF CreateApp
    <2>2. UNCHANGED <<running, monitor, up, serves, reloaded>> /\ monitor.at = "none" /\ ~running
      BY <1>3 DEF CreateApp, ServeInv
    <2> QED
      BY <2>1, <2>2 DEF ServeInv
  <1>4. CASE StartServer
    <2> PICK n \in 1..5 : n = main.n
      OBVIOUS
    <2> DEFINE s == Servers[n]
    <2>1. main.at = "start" /\ Starts(s) /\ UNCHANGED <<rotated, reloaded>> /\ main.n = n
          /\ monitor.at = "none" /\ ~running
      BY <1>4 DEF StartServer, ServeInv, First
    <2>2. DOMAIN serves' = TlsNames /\ \A t \in TlsNames : Fresh(t) => Fresh(t)'
      <3>1. CASE s \in TlsNames
        BY <2>1, <3>1, StartsFresh
      <3>2. CASE s \notin TlsNames
        BY <2>1, <3>2 DEF Starts, HasTls, TlsNames, Fresh, ServeInv
      <3> QED
        BY <3>1, <3>2
    <2>3. n \in 3..5 => Fresh(s)'
      BY <2>1, TlsNumbers, StartsFresh
    <2>4. \A i \in 3..5 : i <= n => Fresh(Servers[i])'
      BY <2>1, <2>2, <2>3, TlsNumbers DEF ServeInv
    <2>5. CASE main.n < 5
      <3>1. main'.at = "start" /\ main'.n = main.n + 1 /\ UNCHANGED <<running, monitor>>
        BY <1>4, <2>5 DEF StartServer
      <3> QED
        BY <2>1, <2>2, <2>4, <3>1 DEF ServeInv
    <2>6. CASE ~(main.n < 5)
      <3>1. main'.at = "run" /\ running' /\ monitor'.at = "test" /\ monitor'.ok = TRUE
        BY <1>4, <2>6 DEF StartServer
      <3>2. running' \in BOOLEAN
        BY <1>4, <2>6 DEF StartServer
      <3>3. \A t \in TlsNames : Fresh(t)'
        BY <2>1, <2>4, <2>6, TlsNumbers
      <3> QED
        BY <2>1, <2>2, <3>1, <3>2, <3>3 DEF ServeInv
    <2> QED
      BY <2>5, <2>6
  <1>5. CASE StartRolledBack
    <2>1. DOMAIN serves' = TlsNames
      BY <1>5, HaltsOthers DEF StartRolledBack
    <2>2. main'.at = "off" /\ UNCHANGED <<running, monitor, reloaded>> /\ monitor.at = "none" /\ ~running
      BY <1>5 DEF StartRolledBack, ServeInv
    <2> QED
      BY <2>1, <2>2 DEF ServeInv
  <1>6. CASE StopRequested
    <2>1. running' = FALSE /\ main'.at = "flag" /\ UNCHANGED <<monitor, up, serves, rotated, reloaded>>
      BY <1>6 DEF StopRequested
    <2> QED
      BY <1>1, <2>1 DEF ServeInv
  <1>7. CASE SetStopFlag \/ Join
    <2>1. main'.at \notin {"run", "start"} /\ ~running /\ UNCHANGED <<running, monitor, up, serves, rotated, reloaded>>
      BY <1>7 DEF SetStopFlag, Join, ServeInv
    <2> QED
      BY <1>1, <2>1 DEF ServeInv
  <1>8. CASE Notify
    <2>1. main'.at = "join" /\ ~running /\ UNCHANGED <<running, up, serves, rotated, reloaded>>
      BY <1>8 DEF Notify, ServeInv
    <2>2. monitor'.at \in {monitor.at, "test"} /\ monitor'.n = monitor.n
      BY <1>8 DEF Notify
    <2>3. monitor'.ok = monitor.ok
      BY <1>8 DEF Notify
    <2> QED
      BY <1>1, <2>1, <2>2, <2>3 DEF ServeInv
  <1>9. CASE StopServer
    <2>1. DOMAIN serves' = TlsNames
      BY <1>9, HaltsOthers DEF StopServer
    <2>2. main'.at \in {"halt", "off"} /\ UNCHANGED <<running, monitor, reloaded>> /\ monitor.at = "none" /\ ~running
      BY <1>9 DEF StopServer, ServeInv
    <2> QED
      BY <2>1, <2>2 DEF ServeInv
  <1>10. CASE TestFlag \/ Park \/ IntervalOver
    <2>1. UNCHANGED <<main, running, up, serves, rotated, reloaded>> /\ monitor.at \in {"test", "park", "wait"}
      BY <1>10 DEF TestFlag, Park, IntervalOver
    <2>2. monitor'.at \in {"none", "park", "wait", "rotate"} /\ monitor'.ok \in BOOLEAN
      <3>1. CASE TestFlag
        BY <3>1 DEF TestFlag, ServeInv
      <3>2. CASE Park
        BY <3>2 DEF Park, ServeInv
      <3>3. CASE IntervalOver
        <4>1. CASE stop
          <5>1. monitor'.at = "none"
            BY <3>3, <4>1 DEF IntervalOver
          <5>2. monitor'.ok = TRUE
            BY <3>3, <4>1 DEF IntervalOver
          <5> QED
            BY <5>1, <5>2
        <4>2. CASE ~stop
          <5>1. monitor'.at = "rotate"
            BY <3>3, <4>2 DEF IntervalOver
          <5>2. monitor'.ok = monitor.ok
            BY <3>3, <4>2 DEF IntervalOver
          <5> QED
            BY <5>1, <5>2 DEF ServeInv
        <4> QED
          BY <4>1, <4>2
      <3> QED
        BY <1>10, <3>1, <3>2, <3>3
    <2> QED
      BY <1>1, <2>1, <2>2 DEF ServeInv
  <1>11. CASE Checked
    <2>1. UNCHANGED <<main, running, up, serves>> /\ monitor.at = "rotate"
      BY <1>11 DEF Checked
    <2>2. monitor'.at \in {"halt", "test"} /\ monitor'.n = 1 /\ monitor'.ok = TRUE
      BY <1>11 DEF Checked
    <2>3. CASE job[App].result = "done"
      <3>1. running => monitor'.at = "halt"
        BY <1>11, <2>3 DEF Checked
      <3>2. reloaded' \in BOOLEAN
        BY <1>11, <2>3 DEF Checked
      <3>3. main.at # "start" /\ DOMAIN serves' = TlsNames /\ running' \in BOOLEAN /\ (running' => main'.at = "run")
        BY <2>1 DEF ServeInv
      <3>4. ~(running' /\ monitor'.at \in {"test", "park", "wait", "rotate"})
        BY <2>1, <2>2, <3>1
      <3>5. monitor'.at \in {"halt", "test"} /\ monitor'.n = 1 /\ monitor'.ok \in BOOLEAN
        BY <2>2
      <3>6. monitor'.at \in {"halt", "start"} /\ monitor'.ok => \A i \in 1..3 : i < monitor'.n => Fresh(TlsServers[i])'
        BY <3>5
      <3>7. running' /\ monitor'.at \in {"test", "park", "wait", "rotate"} /\ reloaded' => \A s \in TlsNames : Fresh(s)'
        BY <3>4
      <3>8. main'.at = "start" => \A i \in 3..5 : i < main'.n => Fresh(Servers[i])'
        BY <2>1, <3>3
      <3> QED
        BY <3>2, <3>3, <3>5, <3>6, <3>7, <3>8 DEF ServeInv
    <2>4. CASE job[App].result # "done"
      <3>1. rotated' = rotated /\ reloaded' = reloaded /\ monitor'.at = "test"
        BY <1>11, <2>4 DEF Checked
      <3> QED
        BY <1>1, <2>1, <2>2, <3>1 DEF ServeInv
    <2> QED
      BY <2>3, <2>4
  <1>12. CASE ReloadStops
    <2> DEFINE s == TlsServers[monitor.n]
    <2>1. Halts({s}) /\ rotated' = rotated /\ monitor.at = "halt" /\ monitor.n \in 1..3
      BY <1>12 DEF ReloadStops
    <2>2. monitor'.at = "start" /\ monitor'.n = monitor.n
      BY <1>12 DEF ReloadStops
    <2>3. monitor'.ok = monitor.ok
      BY <1>12 DEF ReloadStops
    <2>4. UNCHANGED <<main, running, reloaded>> /\ main.at # "start"
      BY <1>12 DEF ReloadStops
    <2>5. DOMAIN serves' = TlsNames /\ \A t \in TlsNames \ {s} : Fresh(t) => Fresh(t)'
      BY <2>1, HaltsOthers
    <2>6. \A i \in 1..3 : i < monitor.n => TlsServers[i] \in TlsNames \ {s}
      BY <2>1, TlsNumbers
    <2>7. monitor.ok => \A i \in 1..3 : i < monitor.n => Fresh(TlsServers[i])'
      BY <2>1, <2>5, <2>6 DEF ServeInv
    <2> HIDE DEF s
    <2> QED
      BY <2>2, <2>3, <2>4, <2>5, <2>7 DEF ServeInv
  <1>13. CASE ReloadStarts
    <2> PICK n \in 1..3 : n = monitor.n
      OBVIOUS
    <2> DEFINE s == TlsServers[n]
    <2>1. monitor.at = "start" /\ rotated' = rotated /\ monitor.n = n /\ UNCHANGED <<main, running>> /\ main.at # "start"
      BY <1>13 DEF ReloadStarts
    <2>2. PICK ok \in BOOLEAN :
            /\ IF ok THEN Starts(s) ELSE StartFails(s) /\ UNCHANGED <<up, serves>>
            /\ monitor' = IF monitor.n < 3
                            THEN [monitor EXCEPT !.at = "halt", !.n = @ + 1, !.ok = RoundOk(ok)]
                            ELSE IF ~RoundOk(ok) /\ monitor.attempt = 1
                                   THEN [NoMonitor EXCEPT !.at = "halt", !.attempt = 2]
                                   ELSE [NoMonitor EXCEPT !.at = "test"]
            /\ reloaded' = IF monitor'.at = "test" THEN RoundOk(ok) ELSE reloaded
      BY <1>13 DEF ReloadStarts
    <2>3. s \in TlsNames
      BY <2>1, TlsNumbers
    <2>4. DOMAIN serves' = TlsNames /\ \A t \in TlsNames : Fresh(t) => Fresh(t)'
      <3>1. CASE ok
        BY <2>1, <2>2, <2>3, <3>1, StartsFresh
      <3>2. CASE ~ok
        BY <1>1, <2>1, <2>2, <3>2
      <3> QED
        BY <3>1, <3>2
    <2>5. RoundOk(ok) \in BOOLEAN /\ (RoundOk(ok) => ok /\ monitor.ok)
      BY DEF RoundOk, ServeInv
    <2>6. RoundOk(ok) => Fresh(s)'
      BY <2>1, <2>2, <2>3, <2>5, StartsFresh
    <2>7. RoundOk(ok) => \A i \in 1..3 : i <= n => Fresh(TlsServers[i])'
      <3> SUFFICES ASSUME RoundOk(ok), NEW i \in 1..3, i <= n PROVE Fresh(TlsServers[i])'
        OBVIOUS
      <3>1. CASE i = n
        BY <2>6, <3>1
      <3>2. CASE i < n
        BY <2>1, <2>4, <2>5, <3>2, TlsNumbers DEF ServeInv
      <3> QED
        BY <2>1, <3>1, <3>2
    <2> HIDE DEF s
    <2>8. CASE monitor.n < 3
      <3>1. monitor'.at = "halt" /\ monitor'.n = monitor.n + 1
        BY <2>2, <2>8
      <3>2. monitor'.ok = RoundOk(ok)
        BY <2>2, <2>8
      <3>3. reloaded' = reloaded
        BY <2>2, <3>1
      <3> QED
        BY <2>1, <2>4, <2>5, <2>7, <3>1, <3>2, <3>3 DEF ServeInv
    <2>9. CASE ~(monitor.n < 3)
      <3>1. monitor'.at \in {"halt", "test"} /\ monitor'.n = 1 /\ monitor'.ok = TRUE
        BY <2>2, <2>9
      <3>2. CASE monitor'.at = "halt"
        <4>1. reloaded' = reloaded
          BY <2>2, <3>2
        <4>2. monitor'.n = 1 /\ monitor'.ok \in BOOLEAN
          BY <3>1
        <4> QED
          BY <2>1, <2>4, <3>2, <4>1, <4>2 DEF ServeInv
      <3>3. CASE monitor'.at = "test"
        <4>1. reloaded' = RoundOk(ok)
          BY <2>2, <3>3
        <4>2. reloaded' \in BOOLEAN
          BY <2>5, <4>1
        <4>3. RoundOk(ok) => \A t \in TlsNames : Fresh(t)'
          BY <2>1, <2>7, <2>9, TlsNumbers
        <4>4. reloaded' => \A t \in TlsNames : Fresh(t)'
          BY <4>1, <4>3, Zenon
        <4>5. main'.at # "start" /\ running' \in BOOLEAN /\ (running' => main'.at = "run")
          BY <2>1 DEF ServeInv
        <4>6. monitor'.n = 1 /\ monitor'.ok \in BOOLEAN
          BY <3>1
        <4> QED
          BY <2>4, <3>3, <4>2, <4>4, <4>5, <4>6 DEF ServeInv
      <3> QED
        BY <3>1, <3>2, <3>3
    <2> QED
      BY <2>8, <2>9
  <1>14. CASE Killed
    <2>1. DOMAIN serves' = TlsNames
      BY <1>14 DEF Killed, Halts, ServeInv
    <2>2. running' = FALSE /\ main'.at = "off" /\ monitor'.at = "none" /\ monitor'.ok = TRUE /\ reloaded' = reloaded
      BY <1>14 DEF Killed
    <2> QED
      BY <2>1, <2>2 DEF ServeInv
  <1>15. CASE OwnUpdate \/ Others \/ UNCHANGED vars
    <2>1. UNCHANGED appVars
      BY <1>15 DEF OwnUpdate, Others, vars
    <2> QED
      BY <1>1, <2>1 DEF appVars, ServeInv
  <1> QED
    BY <1>2, <1>3, <1>4, <1>5, <1>6, <1>7, <1>8, <1>9, <1>10, <1>11, <1>12, <1>13, <1>14, <1>15
       DEF Next, MainStep, MonitorStep

\* While the service runs and its last reload has not failed, every TLS listener serves the
\* pair it rotated to or a later one (ListenersServeRotated), whatever an installer renews
\* meanwhile and whatever fails: between a rotation and the end of its reload the disk
\* never goes back behind the pair that was recorded.
THEOREM ListenersFresh == Spec => []ListenersServeRotated
  <1>1. Init => NewerInv /\ ServeInv /\ OffInv
    <2>1. Init => OffInv
      BY DEF Init, OffInv, MonitorOK, NoMonitor, Between
    <2>2. Init => ServeInv
      <3>1. Init => running \in BOOLEAN /\ running = FALSE /\ reloaded \in BOOLEAN
        BY DEF Init
      <3>2. Init => DOMAIN serves = TlsNames /\ monitor.at = "none" /\ monitor.ok = TRUE /\ main.at = "off"
        BY DEF Init, NoMonitor, TlsNames
      <3> QED
        BY <3>1, <3>2 DEF ServeInv
    <2>3. Init => NewerInv
      BY LeafAssumption DEF Init, LeafInit, NewerInv, At, Idle, Slots, None, Customer
    <2> QED
      BY <2>1, <2>2, <2>3
  <1>2. Inv /\ OffInv /\ NewerInv /\ ServeInv /\ [Next]_vars => (OffInv /\ NewerInv /\ ServeInv)'
    BY OffStep, NewerStep, ServeStep
  <1>3. ServeInv => ListenersServeRotated
    BY DEF ServeInv, ListenersServeRotated, Fresh
  <1>4. Spec => []Inv
    BY ServiceIsUpdater, LeafInvariant, PTL
  <1> QED
    BY <1>1, <1>2, <1>3, <1>4, PTL DEF Spec
=============================================================================
