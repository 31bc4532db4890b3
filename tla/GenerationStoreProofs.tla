----------------------- MODULE GenerationStoreProofs -----------------------
(***************************************************************************)
(* Proofs about GenerationStore, for any numbers of generations, builder   *)
(* directories, operators and commands.                                    *)
(***************************************************************************)
EXTENDS GenerationStore, TLAPS

-----------------------------------------------------------------------------
(* Type correctness.  It is inductive once the steps that use a target are   *)
(* known to have one.                                                        *)

KeySteps == {"seal", "commit", "rename", "syncRename", "reseal", "point", "syncPointer",
             "resyncPointer", "confirm", "protect", "remove"}

TargetKnown ==
  \A a \in Admins :
    \/ pc[a] \in KeySteps
    \/ pc[a] \in {"start", "corpus"} /\ op[a] = "rollback"
    \/ pc[a] = "corpus" /\ op[a] = "activate"
    => target[a] \in Keys

TypeInv == TypeOK /\ TargetKnown

\* What an update or a sync writes are disk states again.
LEMMA DiskTyped ==
  ASSUME NEW tree \in [Keys -> Trees], NEW ro \in SUBSET Keys, NEW ptr \in PointerVals
  PROVE  Disk(tree, ro, ptr) \in DiskStates
BY DEF Disk, DiskStates

LEMMA UpdateTreeTyped ==
  ASSUME TypeOK, NEW k, NEW content \in Trees, NEW ro \in SUBSET Keys,
         UpdateTree(k, content, ro)
  PROVE  installed' \in [Keys -> Trees] /\ sealed' \subseteq Keys /\ survivors' \subseteq DiskStates
<1>1. installed' \in [Keys -> Trees] /\ sealed' \subseteq Keys
  BY DEF TypeOK, UpdateTree
<1>2. survivors \subseteq DiskStates /\ pointer \in PointerVals
  BY DEF TypeOK
<1>3. Disk(installed', ro, pointer) \in DiskStates
  BY <1>1, <1>2, DiskTyped
<1>4. ASSUME NEW s \in survivors
      PROVE  [s EXCEPT !.tree[k] = content, !.sealed = ro] \in DiskStates
  BY <1>2 DEF DiskStates
<1>5. {[s EXCEPT !.tree[k] = content, !.sealed = ro] : s \in survivors} \subseteq DiskStates
  BY <1>4
<1> QED
  BY <1>1, <1>2, <1>3, <1>5 DEF UpdateTree

LEMMA UpdatePointerTyped ==
  ASSUME TypeOK, NEW value \in PointerVals, UpdatePointer(value)
  PROVE  pointer' \in PointerVals /\ survivors' \subseteq DiskStates
<1>1. Disk(installed, sealed, value) \in DiskStates
  BY DiskTyped DEF TypeOK
<1>2. ASSUME NEW s \in survivors
      PROVE  [s EXCEPT !.pointer = value] \in DiskStates
  BY DEF TypeOK, DiskStates
<1> QED
  BY <1>1, <1>2 DEF TypeOK, UpdatePointer

LEMMA ProtectedTyped ==
  ASSUME TypeOK, NEW k \in Keys, Protected(k)
  PROVE  sealed' \subseteq Keys /\ survivors' \subseteq DiskStates
<1>1. Disk(installed, sealed \cup {k}, pointer) \in DiskStates
  BY DiskTyped DEF TypeOK
<1>2. survivors \subseteq DiskStates /\ sealed \subseteq Keys
  BY DEF TypeOK
<1>3. ASSUME NEW s \in survivors
      PROVE  [s EXCEPT !.sealed = sealed \cup {k}] \in DiskStates
  BY <1>2 DEF DiskStates
<1>4. {[s EXCEPT !.sealed = sealed \cup {k}] : s \in survivors} \subseteq DiskStates
  BY <1>3
<1> QED
  BY <1>1, <1>2, <1>4 DEF Protected

LEMMA SyncTyped ==
  ASSUME TypeOK, SyncGenerations \/ SyncLifecycle
  PROVE  survivors' \subseteq DiskStates
<1>1. Disk(installed, sealed, pointer) \in DiskStates
  BY DiskTyped DEF TypeOK
<1>2. survivors \subseteq DiskStates /\ installed \in [Keys -> Trees] /\ pointer \in PointerVals
  BY DEF TypeOK
<1>3. ASSUME NEW s \in survivors
      PROVE  /\ [s EXCEPT !.tree = installed] \in DiskStates
             /\ [s EXCEPT !.pointer = pointer] \in DiskStates
  BY <1>2 DEF DiskStates
<1>4. /\ {[s EXCEPT !.tree = installed] : s \in survivors} \subseteq DiskStates
      /\ {[s EXCEPT !.pointer = pointer] : s \in survivors} \subseteq DiskStates
  BY <1>3
<1> QED
  BY <1>1, <1>4 DEF SyncGenerations, SyncLifecycle

LEMMA TouchTyped ==
  ASSUME TypeOK, NEW k, Touch(k)
  PROVE  seal' \in [Servers -> [key : PointerVals, intact : BOOLEAN]]
BY DEF TypeOK, Touch

LEMMA ReturnTyped ==
  ASSUME TypeOK, NEW a \in Admins, NEW outcome \in Finished, Return(a, outcome)
  PROVE  /\ pc' = [pc EXCEPT ![a] = outcome]
         /\ lifecycle' \in Admins \cup {Nobody}
         /\ writer' \in Admins \cup {Nobody}
         /\ readers' = readers
BY DEF TypeOK, Return, Goto

\* Every step keeps the type invariant: one step of the proof per action.
LEMMA TypeStep == TypeInv /\ [Next]_storeVars => TypeInv'
<1> SUFFICES ASSUME TypeInv, [Next]_storeVars PROVE TypeInv'
  OBVIOUS
<1> USE DEF TypeInv, TypeOK, TargetKnown, KeySteps, Goto, Return, Fail, Finished, LifecycleSteps, CorpusSteps,
        diskVars, lockVars, commandVars
<1>1. ASSUME NEW a \in Admins, Issue(a) PROVE TypeInv'
  BY <1>1, StoreConstants DEF Issue, Operations, PointerVals
<1>2. ASSUME NEW a \in Admins, TakeLifecycle(a) PROVE TypeInv'
  BY <1>2, StoreConstants DEF TakeLifecycle
<1>3. ASSUME NEW a \in Admins, TakeCorpus(a) PROVE TypeInv'
  BY <1>3, StoreConstants DEF TakeCorpus, Operations
<1>4. ASSUME NEW a \in Admins, Validate(a) PROVE TypeInv'
  BY <1>4, StoreConstants DEF Validate, PointerVals
<1>5. ASSUME NEW a \in Admins, SealStaged(a) PROVE TypeInv'
  BY <1>5, StoreConstants DEF SealStaged
<1>6. ASSUME NEW a \in Admins, Commit(a) PROVE TypeInv'
  BY <1>6, StoreConstants DEF Commit
<1>7. ASSUME NEW a \in Admins, Rename(a) PROVE TypeInv'
  <2>1. UpdateTree(target[a], staged[path[a]], sealed)
    BY <1>7 DEF Rename
  <2>2. staged[path[a]] \in Trees /\ staged' \in [Paths -> Trees] /\ stagedSealed' \subseteq Paths
    BY <1>7 DEF Rename, Trees
  <2>3. /\ installed' \in [Keys -> Trees]
        /\ sealed' \subseteq Keys
        /\ survivors' \subseteq DiskStates
    BY <2>1, <2>2, UpdateTreeTyped
  <2> QED
    BY <1>7, <2>2, <2>3 DEF Rename
<1>8. ASSUME NEW a \in Admins, RenameFails(a) PROVE TypeInv'
  BY <1>8, StoreConstants DEF RenameFails
<1>9. ASSUME NEW a \in Admins, SyncRename(a) PROVE TypeInv'
  BY <1>9, SyncTyped, StoreConstants DEF SyncRename
<1>10. ASSUME NEW a \in Admins, Reseal(a) PROVE TypeInv'
  BY <1>10, ProtectedTyped, TouchTyped, StoreConstants DEF Reseal
<1>11. ASSUME NEW a \in Admins, Point(a) PROVE TypeInv'
  BY <1>11, UpdatePointerTyped, StoreConstants DEF Point, PointerVals
<1>12. ASSUME NEW a \in Admins, PointFails(a) PROVE TypeInv'
  BY <1>12, StoreConstants DEF PointFails
<1>13. ASSUME NEW a \in Admins, SyncPointer(a) PROVE TypeInv'
  BY <1>13, SyncTyped, StoreConstants DEF SyncPointer
<1>14. ASSUME NEW a \in Admins, Confirm(a) PROVE TypeInv'
  BY <1>14, StoreConstants DEF Confirm
<1>15. ASSUME NEW a \in Admins, Protect(a) PROVE TypeInv'
  BY <1>15, ProtectedTyped, TouchTyped, StoreConstants DEF Protect
<1>16. ASSUME NEW a \in Admins, Clear(a) PROVE TypeInv'
  BY <1>16, UpdatePointerTyped, StoreConstants DEF Clear, PointerVals
<1>17. ASSUME NEW a \in Admins, SyncClear(a) PROVE TypeInv'
  BY <1>17, SyncTyped, StoreConstants DEF SyncClear
<1>18. ASSUME NEW a \in Admins, Check(a) PROVE TypeInv'
  BY <1>18, StoreConstants DEF Check, Inactive
<1>19. ASSUME NEW a \in Admins, StartRemoval(a) PROVE TypeInv'
  <2>1. PICK k \in doomed[a] : /\ target' = [target EXCEPT ![a] = k]
                               /\ UpdateTree(k, Damaged, sealed \ {k})
                               /\ Touch(k)
    BY <1>19 DEF StartRemoval
  <2>2. k \in Keys /\ sealed \ {k} \in SUBSET Keys /\ Damaged \in Trees
    BY DEF Trees
  <2>3. /\ installed' \in [Keys -> Trees]
        /\ sealed' \subseteq Keys
        /\ survivors' \subseteq DiskStates
    BY <2>1, <2>2, UpdateTreeTyped
  <2>4. seal' \in [Servers -> [key : PointerVals, intact : BOOLEAN]]
    BY <2>1, TouchTyped
  <2> QED
    BY <1>19, <2>1, <2>2, <2>3, <2>4 DEF StartRemoval, PointerVals
<1>20. ASSUME NEW a \in Admins, FinishRemoval(a) PROVE TypeInv'
  BY <1>20, UpdateTreeTyped, StoreConstants DEF FinishRemoval, Trees
<1>21. ASSUME NEW a \in Admins, RemovalFails(a) PROVE TypeInv'
  BY <1>21, StoreConstants DEF RemovalFails
<1>22. ASSUME NEW a \in Admins, SyncPrune(a) PROVE TypeInv'
  BY <1>22, SyncTyped, StoreConstants DEF SyncPrune
<1>23. ASSUME NEW a \in Admins, Kill(a) PROVE TypeInv'
  BY <1>23, StoreConstants DEF Kill
<1>24. ASSUME NEW p \in Paths, Build(p) PROVE TypeInv'
  BY <1>24 DEF Build
<1>25. CASE PowerLoss
  <2>1. PICK s \in survivors : /\ installed' = s.tree
                               /\ pointer' = s.pointer
                               /\ survivors' = {s}
                               /\ sealed' = s.sealed
    BY <1>25 DEF PowerLoss
  <2>2. s \in DiskStates
    BY <2>1
  <2>3. /\ installed' \in [Keys -> Trees]
        /\ pointer' \in PointerVals
        /\ sealed' \subseteq Keys
        /\ survivors' \subseteq DiskStates
    BY <2>1, <2>2 DEF DiskStates
  <2>4. seal' \in [Servers -> [key : PointerVals, intact : BOOLEAN]]
    BY <1>25 DEF PowerLoss, NoSeal, PointerVals
  <2> QED
    BY <1>25, <2>3, <2>4 DEF PowerLoss
<1>26. ASSUME NEW d \in Descriptors, ReadBegins(d) \/ ReadEnds(d) PROVE TypeInv'
  BY <1>26 DEF ReadBegins, ReadEnds, LockShared, UnlockShared
<1>27. CASE UNCHANGED storeVars
  BY <1>27 DEF storeVars
<1> QED
  BY <1>1, <1>2, <1>3, <1>4, <1>5, <1>6, <1>7, <1>8, <1>9, <1>10, <1>11, <1>12, <1>13, <1>14,
     <1>15, <1>16, <1>17, <1>18, <1>19, <1>20, <1>21, <1>22, <1>23, <1>24, <1>25, <1>26, <1>27
  DEF Next, StoreNext, Command, Proceed

LEMMA TypeStart == Init => TypeInv
BY StoreConstants
   DEF Init, TypeInv, TypeOK, TargetKnown, KeySteps, Disk, DiskStates, Trees, PointerVals, Finished,
       LifecycleSteps, CorpusSteps, Operations, NoSeal

LEMMA TypeInvHolds == Spec => []TypeInv
<1>1. Init => TypeInv
  BY TypeStart
<1>2. TypeInv /\ [Next]_storeVars => TypeInv'
  BY TypeStep
<1> QED
  BY <1>1, <1>2, PTL DEF Spec

\* Every variable of the store keeps its type in every behaviour.
THEOREM StoreTypeCorrect == Spec => []TypeOK
<1>1. TypeInv => TypeOK
  BY DEF TypeInv
<1> QED
  BY <1>1, TypeInvHolds, PTL


-----------------------------------------------------------------------------
(* The pointer always names a complete read-only generation.  Inductive with *)
(* what each step of a command knows, which holds because LIFECYCLE_LOCK     *)
(* keeps every other command from the disk, and builders from sealed trees.  *)

HeldLocks ==
  \A a \in Admins :
    /\ pc[a] \in LifecycleSteps => lifecycle = a
    /\ pc[a] \in CorpusSteps => writer = a

Switching(a) == pc[a] = "point" \/ (pc[a] = "corpus" /\ op[a] = "rollback")

Installing(a) == pc[a] \in {"commit", "rename"} \/ (pc[a] = "corpus" /\ op[a] = "activate")

Knows(a) ==
  /\ pc[a] \in {"validate", "seal"} => op[a] = "activate"
  /\ pc[a] \in {"confirm", "protect"} => op[a] = "rollback"
  /\ Installing(a) => staged[path[a]] = target[a] /\ path[a] \in stagedSealed
  /\ pc[a] = "rename" => installed[target[a]] = Absent
  /\ pc[a] \in {"syncRename", "reseal", "protect"} \/ Switching(a) =>
       installed[target[a]] = target[a]
  /\ Switching(a) => target[a] \in sealed
  /\ pc[a] \in {"prune", "remove"} => pointer \notin doomed[a]
  /\ pc[a] = "remove" => target[a] # pointer
  /\ pc[a] \in {"syncPointer", "resyncPointer"} => pointer = target[a]

Sound(disk) ==
  /\ Servable(disk)
  /\ \A k \in Keys : disk.tree[k] \in {k, Damaged, Absent}

Now == Disk(installed, sealed, pointer)

StoreInv ==
  /\ TypeInv
  /\ HeldLocks
  /\ \A a \in Admins : Knows(a)
  /\ Sound(Now)
  /\ Now \in survivors
  /\ \A s \in survivors : Sound(s)

\* While a command is past LIFECYCLE_LOCK no other one is.
LEMMA OneCommand ==
  ASSUME TypeInv, HeldLocks, NEW a \in Admins, pc[a] \in LifecycleSteps,
         NEW b \in Admins, b # a
  PROVE  pc[b] \notin LifecycleSteps /\ pc[b] \notin CorpusSteps
BY DEF HeldLocks, LifecycleSteps

\* A command that is not past it knows nothing that could become false.
LEMMA KnowsNothing ==
  ASSUME NEW a, pc[a] \notin LifecycleSteps
  PROVE  Knows(a)
BY DEF Knows, Switching, Installing, LifecycleSteps, CorpusSteps

LEMMA StoreInvStep == OrderedJournal /\ StoreInv /\ TypeInv' /\ [Next]_storeVars => StoreInv'
<1> SUFFICES ASSUME OrderedJournal, StoreInv, TypeInv', [Next]_storeVars PROVE StoreInv'
  OBVIOUS
<1> USE DEF StoreInv, TypeInv, TypeOK, TargetKnown, KeySteps, LifecycleSteps, CorpusSteps, Finished,
        Goto, Return, Fail, diskVars, lockVars, commandVars
<1>1. ASSUME NEW a \in Admins, Issue(a) PROVE StoreInv'
  <2>1. HeldLocks'
    BY <1>1, StoreConstants DEF Issue, HeldLocks
  <2>2. ASSUME NEW b \in Admins, b # a PROVE Knows(b)'
    BY <1>1, OneCommand, KnowsNothing DEF Issue, Knows, Switching, Installing
  <2>3. Knows(a)'
    BY <1>1, StoreConstants DEF Issue, Knows, Switching, Installing
  <2>4. Sound(Now)'
    BY <1>1, StoreConstants DEF Issue, Sound, Servable, Now, Disk
  <2>5. survivors' \subseteq survivors \cup {Now'} /\ Now' \in survivors'
    BY <1>1 DEF Issue, Now, Disk
  <2> QED
    BY <2>1, <2>2, <2>3, <2>4, <2>5
<1>2. ASSUME NEW a \in Admins, TakeLifecycle(a) PROVE StoreInv'
  <2>1. HeldLocks'
    BY <1>2, StoreConstants DEF TakeLifecycle, HeldLocks
  <2>2. ASSUME NEW b \in Admins, b # a PROVE Knows(b)'
    BY <1>2, OneCommand, KnowsNothing DEF TakeLifecycle, Knows, Switching, Installing
  <2>3. Knows(a)'
    BY <1>2, StoreConstants DEF TakeLifecycle, Knows, Switching, Installing
  <2>4. Sound(Now)'
    BY <1>2, StoreConstants DEF TakeLifecycle, Sound, Servable, Now, Disk
  <2>5. survivors' \subseteq survivors \cup {Now'} /\ Now' \in survivors'
    BY <1>2 DEF TakeLifecycle, Now, Disk
  <2> QED
    BY <2>1, <2>2, <2>3, <2>4, <2>5
<1>3. ASSUME NEW a \in Admins, TakeCorpus(a) PROVE StoreInv'
  <2>1. HeldLocks'
    BY <1>3, StoreConstants DEF TakeCorpus, HeldLocks, Operations
  <2>2. ASSUME NEW b \in Admins, b # a PROVE Knows(b)'
    BY <1>3, OneCommand, KnowsNothing DEF TakeCorpus, Knows, Switching, Installing, Operations
  <2>3. Knows(a)'
    BY <1>3, StoreConstants DEF TakeCorpus, Knows, Switching, Installing, Operations
  <2>4. Sound(Now)'
    BY <1>3, StoreConstants DEF TakeCorpus, Sound, Servable, Now, Disk, Operations
  <2>5. survivors' \subseteq survivors \cup {Now'} /\ Now' \in survivors'
    BY <1>3 DEF TakeCorpus, Now, Disk, Operations
  <2> QED
    BY <2>1, <2>2, <2>3, <2>4, <2>5
<1>4. ASSUME NEW a \in Admins, Validate(a) PROVE StoreInv'
  <2>1. HeldLocks'
    BY <1>4, StoreConstants DEF Validate, HeldLocks
  <2>2. ASSUME NEW b \in Admins, b # a PROVE Knows(b)'
    BY <1>4, OneCommand, KnowsNothing DEF Validate, Knows, Switching, Installing
  <2>3. Knows(a)'
    BY <1>4, StoreConstants DEF Validate, Knows, Switching, Installing
  <2>4. Sound(Now)'
    BY <1>4, StoreConstants DEF Validate, Sound, Servable, Now, Disk
  <2>5. survivors' \subseteq survivors \cup {Now'} /\ Now' \in survivors'
    BY <1>4 DEF Validate, Now, Disk
  <2> QED
    BY <2>1, <2>2, <2>3, <2>4, <2>5
<1>5. ASSUME NEW a \in Admins, SealStaged(a) PROVE StoreInv'
  <2>1. HeldLocks'
    BY <1>5, StoreConstants DEF SealStaged, HeldLocks
  <2>2. ASSUME NEW b \in Admins, b # a PROVE Knows(b)'
    <3>1. pc[a] = "seal"
      BY <1>5, <2>2 DEF SealStaged
    <3>2. pc[b] \notin LifecycleSteps
      BY <2>2, <3>1, OneCommand
    <3>3. pc'[b] = pc[b]
      BY <1>5, <2>2 DEF SealStaged
    <3> QED
      BY <3>2, <3>3 DEF Knows, Switching, Installing
  <2>3. Knows(a)'
    BY <1>5, StoreConstants DEF SealStaged, Knows, Switching, Installing
  <2>4. Sound(Now)'
    BY <1>5, StoreConstants DEF SealStaged, Sound, Servable, Now, Disk
  <2>5. survivors' \subseteq survivors \cup {Now'} /\ Now' \in survivors'
    BY <1>5 DEF SealStaged, Now, Disk
  <2> QED
    BY <2>1, <2>2, <2>3, <2>4, <2>5
<1>6. ASSUME NEW a \in Admins, Commit(a) PROVE StoreInv'
  <2>1. HeldLocks'
    BY <1>6, StoreConstants DEF Commit, HeldLocks, Dangling
  <2>2. ASSUME NEW b \in Admins, b # a PROVE Knows(b)'
    BY <1>6, OneCommand, KnowsNothing DEF Commit, Knows, Switching, Installing, Dangling
  <2>3. Knows(a)'
    BY <1>6, StoreConstants DEF Commit, Knows, Switching, Installing, Dangling
  <2>4. Sound(Now)'
    BY <1>6, StoreConstants DEF Commit, Sound, Servable, Now, Disk, Dangling
  <2>5. survivors' \subseteq survivors \cup {Now'} /\ Now' \in survivors'
    BY <1>6 DEF Commit, Now, Disk, Dangling
  <2> QED
    BY <2>1, <2>2, <2>3, <2>4, <2>5
<1>7. ASSUME NEW a \in Admins, Rename(a) PROVE StoreInv'
  <2>1. HeldLocks'
    BY <1>7, StoreConstants DEF Rename, HeldLocks, UpdateTree
  <2>2. ASSUME NEW b \in Admins, b # a PROVE Knows(b)'
    BY <1>7, OneCommand, KnowsNothing DEF Rename, Knows, Switching, Installing, UpdateTree
  <2>3. Knows(a)'
    BY <1>7, StoreConstants DEF Rename, Knows, Switching, Installing, UpdateTree
  <2>4. Sound(Now)'
    BY <1>7, StoreConstants DEF Rename, Sound, Servable, Now, Disk, Knows, Switching, Installing, UpdateTree
  <2>5. survivors' \subseteq survivors \cup {Now'} /\ Now' \in survivors'
    BY <1>7 DEF Rename, Now, Disk, UpdateTree
  <2> QED
    BY <2>1, <2>2, <2>3, <2>4, <2>5
<1>8. ASSUME NEW a \in Admins, RenameFails(a) PROVE StoreInv'
  <2>1. HeldLocks'
    BY <1>8, StoreConstants DEF RenameFails, HeldLocks
  <2>2. ASSUME NEW b \in Admins, b # a PROVE Knows(b)'
    BY <1>8, OneCommand, KnowsNothing DEF RenameFails, Knows, Switching, Installing
  <2>3. Knows(a)'
    BY <1>8, StoreConstants DEF RenameFails, Knows, Switching, Installing
  <2>4. Sound(Now)'
    BY <1>8, StoreConstants DEF RenameFails, Sound, Servable, Now, Disk
  <2>5. survivors' \subseteq survivors \cup {Now'} /\ Now' \in survivors'
    BY <1>8 DEF RenameFails, Now, Disk
  <2> QED
    BY <2>1, <2>2, <2>3, <2>4, <2>5
<1>9. ASSUME NEW a \in Admins, SyncRename(a) PROVE StoreInv'
  <2>1. HeldLocks'
    BY <1>9, StoreConstants DEF SyncRename, HeldLocks, SyncGenerations
  <2>2. ASSUME NEW b \in Admins, b # a PROVE Knows(b)'
    BY <1>9, OneCommand, KnowsNothing DEF SyncRename, Knows, Switching, Installing, SyncGenerations
  <2>3. Knows(a)'
    BY <1>9, StoreConstants DEF SyncRename, Knows, Switching, Installing, SyncGenerations
  <2>4. Sound(Now)'
    BY <1>9, StoreConstants DEF SyncRename, Sound, Servable, Now, Disk, SyncGenerations
  <2>5. survivors' \subseteq survivors \cup {Now'} /\ Now' \in survivors'
    BY <1>9 DEF SyncRename, Now, Disk, SyncGenerations
  <2> QED
    BY <2>1, <2>2, <2>3, <2>4, <2>5
<1>10. ASSUME NEW a \in Admins, Reseal(a) PROVE StoreInv'
  <2>1. HeldLocks'
    BY <1>10, StoreConstants DEF Reseal, HeldLocks, Protected
  <2>2. ASSUME NEW b \in Admins, b # a PROVE Knows(b)'
    BY <1>10, OneCommand, KnowsNothing DEF Reseal, Knows, Switching, Installing, Protected
  <2>3. Knows(a)'
    BY <1>10, StoreConstants DEF Reseal, Knows, Switching, Installing, Protected
  <2>4. Sound(Now)'
    BY <1>10, StoreConstants DEF Reseal, Sound, Servable, Now, Disk, Knows, Switching, Installing, Protected
  <2>5. survivors' \subseteq survivors \cup {Now'} /\ Now' \in survivors'
    BY <1>10 DEF Reseal, Now, Disk, Protected
  <2> QED
    BY <2>1, <2>2, <2>3, <2>4, <2>5
<1>11. ASSUME NEW a \in Admins, Point(a) PROVE StoreInv'
  <2>1. HeldLocks'
    BY <1>11, StoreConstants DEF Point, HeldLocks, UpdatePointer
  <2>2. ASSUME NEW b \in Admins, b # a PROVE Knows(b)'
    BY <1>11, OneCommand, KnowsNothing DEF Point, Knows, Switching, Installing, UpdatePointer
  <2>3. Knows(a)'
    BY <1>11, StoreConstants DEF Point, Knows, Switching, Installing, UpdatePointer
  <2>4. Sound(Now)'
    BY <1>11, StoreConstants DEF Point, Sound, Servable, Now, Disk, Knows, Switching, Installing, UpdatePointer
  <2>5. survivors' \subseteq survivors \cup {Now'} /\ Now' \in survivors'
    BY <1>11 DEF Point, Now, Disk, UpdatePointer
  <2> QED
    BY <2>1, <2>2, <2>3, <2>4, <2>5
<1>12. ASSUME NEW a \in Admins, PointFails(a) PROVE StoreInv'
  <2>1. HeldLocks'
    BY <1>12, StoreConstants DEF PointFails, HeldLocks
  <2>2. ASSUME NEW b \in Admins, b # a PROVE Knows(b)'
    BY <1>12, OneCommand, KnowsNothing DEF PointFails, Knows, Switching, Installing
  <2>3. Knows(a)'
    BY <1>12, StoreConstants DEF PointFails, Knows, Switching, Installing
  <2>4. Sound(Now)'
    BY <1>12, StoreConstants DEF PointFails, Sound, Servable, Now, Disk
  <2>5. survivors' \subseteq survivors \cup {Now'} /\ Now' \in survivors'
    BY <1>12 DEF PointFails, Now, Disk
  <2> QED
    BY <2>1, <2>2, <2>3, <2>4, <2>5
<1>13. ASSUME NEW a \in Admins, SyncPointer(a) PROVE StoreInv'
  <2>1. HeldLocks'
    BY <1>13, StoreConstants DEF SyncPointer, HeldLocks, SyncLifecycle
  <2>2. ASSUME NEW b \in Admins, b # a PROVE Knows(b)'
    BY <1>13, OneCommand, KnowsNothing DEF SyncPointer, Knows, Switching, Installing, SyncLifecycle
  <2>3. Knows(a)'
    BY <1>13, StoreConstants DEF SyncPointer, Knows, Switching, Installing, SyncLifecycle
  <2>4. Sound(Now)'
    BY <1>13, StoreConstants DEF SyncPointer, Sound, Servable, Now, Disk, SyncLifecycle
  <2>5. survivors' \subseteq survivors \cup {Now'} /\ Now' \in survivors'
    BY <1>13 DEF SyncPointer, Now, Disk, SyncLifecycle
  <2> QED
    BY <2>1, <2>2, <2>3, <2>4, <2>5
<1>14. ASSUME NEW a \in Admins, Confirm(a) PROVE StoreInv'
  <2>1. HeldLocks'
    BY <1>14, StoreConstants DEF Confirm, HeldLocks, Dangling
  <2>2. ASSUME NEW b \in Admins, b # a PROVE Knows(b)'
    BY <1>14, OneCommand, KnowsNothing DEF Confirm, Knows, Switching, Installing, Dangling
  <2>3. Knows(a)'
    BY <1>14, StoreConstants DEF Confirm, Knows, Switching, Installing, Dangling
  <2>4. Sound(Now)'
    BY <1>14, StoreConstants DEF Confirm, Sound, Servable, Now, Disk, Dangling
  <2>5. survivors' \subseteq survivors \cup {Now'} /\ Now' \in survivors'
    BY <1>14 DEF Confirm, Now, Disk, Dangling
  <2> QED
    BY <2>1, <2>2, <2>3, <2>4, <2>5
<1>15. ASSUME NEW a \in Admins, Protect(a) PROVE StoreInv'
  <2>1. HeldLocks'
    BY <1>15, StoreConstants DEF Protect, HeldLocks, Protected
  <2>2. ASSUME NEW b \in Admins, b # a PROVE Knows(b)'
    BY <1>15, OneCommand, KnowsNothing DEF Protect, Knows, Switching, Installing, Protected
  <2>3. Knows(a)'
    BY <1>15, StoreConstants DEF Protect, Knows, Switching, Installing, Protected
  <2>4. Sound(Now)'
    BY <1>15, StoreConstants DEF Protect, Sound, Servable, Now, Disk, Knows, Switching, Installing, Protected
  <2>5. survivors' \subseteq survivors \cup {Now'} /\ Now' \in survivors'
    BY <1>15 DEF Protect, Now, Disk, Protected
  <2> QED
    BY <2>1, <2>2, <2>3, <2>4, <2>5
<1>16. ASSUME NEW a \in Admins, Clear(a) PROVE StoreInv'
  <2>1. HeldLocks'
    BY <1>16, StoreConstants DEF Clear, HeldLocks, UpdatePointer
  <2>2. ASSUME NEW b \in Admins, b # a PROVE Knows(b)'
    BY <1>16, OneCommand, KnowsNothing DEF Clear, Knows, Switching, Installing, UpdatePointer
  <2>3. Knows(a)'
    BY <1>16, StoreConstants DEF Clear, Knows, Switching, Installing, UpdatePointer
  <2>4. Sound(Now)'
    BY <1>16, StoreConstants DEF Clear, Sound, Servable, Now, Disk, Knows, Switching, Installing, UpdatePointer
  <2>5. survivors' \subseteq survivors \cup {Now'} /\ Now' \in survivors'
    BY <1>16 DEF Clear, Now, Disk, UpdatePointer
  <2> QED
    BY <2>1, <2>2, <2>3, <2>4, <2>5
<1>17. ASSUME NEW a \in Admins, SyncClear(a) PROVE StoreInv'
  <2>1. HeldLocks'
    BY <1>17, StoreConstants DEF SyncClear, HeldLocks, SyncLifecycle
  <2>2. ASSUME NEW b \in Admins, b # a PROVE Knows(b)'
    BY <1>17, OneCommand, KnowsNothing DEF SyncClear, Knows, Switching, Installing, SyncLifecycle
  <2>3. Knows(a)'
    BY <1>17, StoreConstants DEF SyncClear, Knows, Switching, Installing, SyncLifecycle
  <2>4. Sound(Now)'
    BY <1>17, StoreConstants DEF SyncClear, Sound, Servable, Now, Disk, SyncLifecycle
  <2>5. survivors' \subseteq survivors \cup {Now'} /\ Now' \in survivors'
    BY <1>17 DEF SyncClear, Now, Disk, SyncLifecycle
  <2> QED
    BY <2>1, <2>2, <2>3, <2>4, <2>5
<1>18. ASSUME NEW a \in Admins, Check(a) PROVE StoreInv'
  <2>1. HeldLocks'
    BY <1>18, StoreConstants DEF Check, HeldLocks, Resolves, Inactive
  <2>2. ASSUME NEW b \in Admins, b # a PROVE Knows(b)'
    BY <1>18, OneCommand, KnowsNothing DEF Check, Knows, Switching, Installing, Resolves, Inactive
  <2>3. Knows(a)'
    BY <1>18, StoreConstants DEF Check, Knows, Switching, Installing, Resolves, Inactive
  <2>4. Sound(Now)'
    BY <1>18, StoreConstants DEF Check, Sound, Servable, Now, Disk, Resolves, Inactive
  <2>5. survivors' \subseteq survivors \cup {Now'} /\ Now' \in survivors'
    BY <1>18 DEF Check, Now, Disk, Resolves, Inactive
  <2> QED
    BY <2>1, <2>2, <2>3, <2>4, <2>5
<1>19. ASSUME NEW a \in Admins, StartRemoval(a) PROVE StoreInv'
  <2>1. HeldLocks'
    BY <1>19, StoreConstants DEF StartRemoval, HeldLocks, UpdateTree
  <2>2. ASSUME NEW b \in Admins, b # a PROVE Knows(b)'
    BY <1>19, OneCommand, KnowsNothing DEF StartRemoval, Knows, Switching, Installing, UpdateTree
  <2>3. Knows(a)'
    BY <1>19, StoreConstants DEF StartRemoval, Knows, Switching, Installing, UpdateTree
  <2>4. Sound(Now)'
    BY <1>19, StoreConstants DEF StartRemoval, Sound, Servable, Now, Disk, Knows, Switching, Installing, UpdateTree
  <2>5. survivors' \subseteq survivors \cup {Now'} /\ Now' \in survivors'
    BY <1>19 DEF StartRemoval, Now, Disk, UpdateTree
  <2> QED
    BY <2>1, <2>2, <2>3, <2>4, <2>5
<1>20. ASSUME NEW a \in Admins, FinishRemoval(a) PROVE StoreInv'
  <2>1. HeldLocks'
    BY <1>20, StoreConstants DEF FinishRemoval, HeldLocks, UpdateTree
  <2>2. ASSUME NEW b \in Admins, b # a PROVE Knows(b)'
    BY <1>20, OneCommand, KnowsNothing DEF FinishRemoval, Knows, Switching, Installing, UpdateTree
  <2>3. Knows(a)'
    BY <1>20, StoreConstants DEF FinishRemoval, Knows, Switching, Installing, UpdateTree
  <2>4. Sound(Now)'
    BY <1>20, StoreConstants DEF FinishRemoval, Sound, Servable, Now, Disk, Knows, Switching, Installing, UpdateTree
  <2>5. survivors' \subseteq survivors \cup {Now'} /\ Now' \in survivors'
    BY <1>20 DEF FinishRemoval, Now, Disk, UpdateTree
  <2> QED
    BY <2>1, <2>2, <2>3, <2>4, <2>5
<1>21. ASSUME NEW a \in Admins, RemovalFails(a) PROVE StoreInv'
  <2>1. HeldLocks'
    BY <1>21, StoreConstants DEF RemovalFails, HeldLocks
  <2>2. ASSUME NEW b \in Admins, b # a PROVE Knows(b)'
    BY <1>21, OneCommand, KnowsNothing DEF RemovalFails, Knows, Switching, Installing
  <2>3. Knows(a)'
    BY <1>21, StoreConstants DEF RemovalFails, Knows, Switching, Installing
  <2>4. Sound(Now)'
    BY <1>21, StoreConstants DEF RemovalFails, Sound, Servable, Now, Disk
  <2>5. survivors' \subseteq survivors \cup {Now'} /\ Now' \in survivors'
    BY <1>21 DEF RemovalFails, Now, Disk
  <2> QED
    BY <2>1, <2>2, <2>3, <2>4, <2>5
<1>22. ASSUME NEW a \in Admins, SyncPrune(a) PROVE StoreInv'
  <2>1. HeldLocks'
    BY <1>22, StoreConstants DEF SyncPrune, HeldLocks, SyncGenerations
  <2>2. ASSUME NEW b \in Admins, b # a PROVE Knows(b)'
    BY <1>22, OneCommand, KnowsNothing DEF SyncPrune, Knows, Switching, Installing, SyncGenerations
  <2>3. Knows(a)'
    BY <1>22, StoreConstants DEF SyncPrune, Knows, Switching, Installing, SyncGenerations
  <2>4. Sound(Now)'
    BY <1>22, StoreConstants DEF SyncPrune, Sound, Servable, Now, Disk, SyncGenerations
  <2>5. survivors' \subseteq survivors \cup {Now'} /\ Now' \in survivors'
    BY <1>22 DEF SyncPrune, Now, Disk, SyncGenerations
  <2> QED
    BY <2>1, <2>2, <2>3, <2>4, <2>5
<1>23. ASSUME NEW a \in Admins, Kill(a) PROVE StoreInv'
  <2>1. HeldLocks'
    BY <1>23, StoreConstants DEF Kill, HeldLocks
  <2>2. ASSUME NEW b \in Admins, b # a PROVE Knows(b)'
    BY <1>23, OneCommand, KnowsNothing DEF Kill, Knows, Switching, Installing
  <2>3. Knows(a)'
    BY <1>23, StoreConstants DEF Kill, Knows, Switching, Installing
  <2>4. Sound(Now)'
    BY <1>23, StoreConstants DEF Kill, Sound, Servable, Now, Disk
  <2>5. survivors' \subseteq survivors \cup {Now'} /\ Now' \in survivors'
    BY <1>23 DEF Kill, Now, Disk
  <2> QED
    BY <2>1, <2>2, <2>3, <2>4, <2>5
<1>24. ASSUME NEW p \in Paths, Build(p) PROVE StoreInv'
  <2>1. HeldLocks' /\ Sound(Now)' /\ survivors' = survivors /\ Now' = Now
    BY <1>24 DEF Build, HeldLocks, Now, Disk, Sound, Servable
  <2>2. ASSUME NEW a \in Admins PROVE Knows(a)'
    BY <1>24 DEF Build, Knows, Switching, Installing
  <2> QED
    BY <2>1, <2>2
<1>25. CASE PowerLoss
  <2>1. PICK s \in survivors : /\ installed' = s.tree
                               /\ pointer' = s.pointer
                               /\ survivors' = {s}
                               /\ sealed' = s.sealed
    BY <1>25 DEF PowerLoss
  <2>2. Sound(s)
    BY <2>1
  <2>3. survivors' \subseteq DiskStates
    BY <2>1
  <2>4. Now' = s
    BY <2>1, <2>3 DEF Now, Disk, DiskStates
  <2>5. Sound(Now)' /\ Now' \in survivors' /\ \A t \in survivors' : Sound(t)
    BY <2>1, <2>2, <2>4 DEF Sound, Servable
  <2>6. \A a \in Admins : pc'[a] \in Finished
    BY <1>25 DEF PowerLoss
  <2>7. HeldLocks' /\ \A a \in Admins : Knows(a)'
    BY <2>6 DEF HeldLocks, Knows, Switching, Installing
  <2> QED
    BY <2>5, <2>7
<1>26. ASSUME NEW d \in Descriptors, ReadBegins(d) \/ ReadEnds(d) PROVE StoreInv'
  BY <1>26 DEF ReadBegins, ReadEnds, LockShared, UnlockShared, HeldLocks, Knows, Switching,
               Installing, Now, Disk, Sound, Servable
<1>27. CASE UNCHANGED storeVars
  BY <1>27 DEF storeVars, HeldLocks, Knows, Switching, Installing, Now, Disk, Sound, Servable
<1> QED
  BY <1>1, <1>2, <1>3, <1>4, <1>5, <1>6, <1>7, <1>8, <1>9, <1>10, <1>11, <1>12, <1>13, <1>14,
     <1>15, <1>16, <1>17, <1>18, <1>19, <1>20, <1>21, <1>22, <1>23, <1>24, <1>25, <1>26, <1>27
  DEF Next, StoreNext, Command, Proceed

LEMMA StoreStart == Init => StoreInv
<1> SUFFICES ASSUME Init PROVE StoreInv
  OBVIOUS
<1>1. TypeInv
  BY TypeStart
<1>2. \A a \in Admins : pc[a] = "idle"
  BY DEF Init
<1>3. HeldLocks /\ \A a \in Admins : Knows(a)
  BY <1>2 DEF HeldLocks, Knows, Switching, Installing, LifecycleSteps, CorpusSteps
<1>4. Sound(Now) /\ survivors = {Now}
  BY DEF Init, Sound, Servable, Now, Disk
<1> QED
  BY <1>1, <1>3, <1>4 DEF StoreInv

LEMMA StoreInvHolds == ASSUME OrderedJournal PROVE Spec => []StoreInv
<1>1. Init => StoreInv
  BY StoreStart
<1>2. StoreInv /\ TypeInv' /\ [Next]_storeVars => StoreInv'
  BY StoreInvStep
<1> QED
  BY <1>1, <1>2, TypeInvHolds, PTL DEF Spec

\* On an ordered journal, whatever commands, kills and power losses interleave,
\* the pointer names a complete generation that is read-only throughout, and so
\* does every state a power loss may leave.
THEOREM ActiveAlwaysServable == ASSUME OrderedJournal PROVE Spec => []ActiveServable
<1>1. StoreInv => ActiveServable
  BY DEF StoreInv, Sound, Now, ActiveServable
<1> QED
  BY <1>1, StoreInvHolds, PTL

\* An installed tree holds the content its directory is named for.
THEOREM InstalledAsNamed == ASSUME OrderedJournal PROVE Spec => []ContentNamed
<1>1. StoreInv => ContentNamed
  BY DEF StoreInv, Sound, Now, Disk, ContentNamed
<1> QED
  BY <1>1, StoreInvHolds, PTL

-----------------------------------------------------------------------------
(* What a reported success means.                                            *)

\* Only its own step after the sync takes a switch to success.
LEMMA SuccessfulSync ==
  ASSUME TypeInv, [Next]_storeVars, NEW a \in Admins,
         pc[a] \in {"syncPointer", "resyncPointer"}, pc'[a] = "ok"
  PROVE  SyncPointer(a) /\ SyncLifecycle
<1> USE DEF TypeInv, TypeOK, Finished, Goto, Return, Fail
<1>1. ASSUME NEW b \in Admins, Issue(b) \/ Command(b) \/ Kill(b)
      PROVE  b = a /\ SyncPointer(a)
  BY <1>1 DEF Issue, Kill, Command, TakeLifecycle, TakeCorpus, Proceed, Validate, SealStaged,
              Commit, Rename, RenameFails, SyncRename, Reseal, Point, PointFails, SyncPointer,
              Confirm, Protect, Clear, SyncClear, Check, StartRemoval, FinishRemoval,
              RemovalFails, SyncPrune
<1>2. \E b \in Admins : Issue(b) \/ Command(b) \/ Kill(b)
  BY DEF Next, StoreNext, Build, PowerLoss, ReadBegins, ReadEnds, storeVars
<1>3. SyncPointer(a)
  BY <1>1, <1>2
<1> QED
  BY <1>3 DEF SyncPointer

\* A switch reported as successful can no longer be taken back by a power loss.
THEOREM SuccessSurvivesPowerLoss == ASSUME OrderedJournal PROVE Spec => SwitchIsDurable
<1>1. ASSUME StoreInv, [Next]_storeVars, NEW a \in Admins,
             pc[a] \in {"syncPointer", "resyncPointer"}, pc'[a] = "ok"
      PROVE  \A s \in survivors' : s.pointer = target[a] /\ s.tree[target[a]] = target[a]
  <2>1. survivors' = {Now}
    BY <1>1, SuccessfulSync DEF StoreInv, SyncLifecycle, Now
  <2>2. pointer = target[a] /\ target[a] \in Keys
    BY <1>1 DEF StoreInv, Knows, TypeInv, TargetKnown, KeySteps
  <2>3. target[a] # NoGeneration
    BY <2>2, StoreConstants
  <2>4. installed[target[a]] = target[a]
    BY <1>1, <2>2, <2>3 DEF StoreInv, Sound, Servable, Now, Disk
  <2> QED
    BY <2>1, <2>2, <2>4 DEF Now, Disk
<1>2. StoreInv /\ [Next]_storeVars =>
        [\A a \in Admins :
           pc[a] \in {"syncPointer", "resyncPointer"} /\ pc'[a] = "ok" =>
             \A s \in survivors' : s.pointer = target[a] /\ s.tree[target[a]] = target[a]]_storeVars
  BY <1>1
<1> QED
  BY <1>2, StoreInvHolds, PTL DEF Spec, SwitchIsDurable

-----------------------------------------------------------------------------
(* Refinement: the store implements ActiveGeneration.                        *)

Available == {k \in sealed : installed[k] = k}
Fallback == {s.pointer : s \in survivors}

LEMMA PromiseStart == Init => Promise!Start
BY DEF Init, Promise!Start, Disk

\* A step that leaves the disk alone stutters.
LEMMA Stutters ==
  ASSUME UNCHANGED <<installed, sealed, pointer, survivors>>
  PROVE  UNCHANGED Promise!abstractVars
BY DEF Promise!abstractVars

\* An update of one tree other than the active one installs, discards or does
\* not show.
LEMMA TreeUpdates ==
  ASSUME StoreInv, StoreInv', OrderedJournal, UNCHANGED pointer,
         NEW k \in Keys, k # pointer,
         \A j \in Keys \ {k} : installed'[j] = installed[j] /\ (j \in sealed' <=> j \in sealed),
         survivors' = survivors \cup {Now'}
  PROVE  \/ Promise!Install(k)
         \/ Promise!Discard(k)
<1>1. Fallback' = Fallback
  BY DEF Fallback, StoreInv, Now, Disk
<1>2. CASE k \in Available'
  <2>1. Available' = Available \cup {k}
    BY <1>2 DEF Available, StoreInv, TypeInv, TypeOK
  <2> QED
    BY <1>1, <2>1 DEF Promise!Install, Available, Fallback
<1>3. CASE k \notin Available'
  <2>1. Available' = Available \ {k}
    BY <1>3 DEF Available, StoreInv, TypeInv, TypeOK
  <2> QED
    BY <1>1, <2>1 DEF Promise!Discard, Available, Fallback
<1> QED
  BY <1>2, <1>3

\* Sealing an installed tree makes it available.
LEMMA SealingInstalls ==
  ASSUME StoreInv, OrderedJournal, NEW k \in Keys, installed[k] = k, Protected(k),
         UNCHANGED <<installed, pointer>>
  PROVE  Promise!Install(k)
<1>1. {j \in sealed' : installed'[j] = j} = {j \in sealed : installed[j] = j} \cup {k}
  BY DEF Protected, StoreInv, TypeInv, TypeOK
<1>2. Fallback' = Fallback
  BY DEF Protected, Fallback, StoreInv, Now, Disk
<1> QED
  BY <1>1, <1>2 DEF Promise!Install, Fallback

\* On an ordered journal syncing either directory settles the pointer.
LEMMA SyncSettles ==
  ASSUME OrderedJournal, SyncGenerations \/ SyncLifecycle, UNCHANGED <<installed, sealed, pointer>>
  PROVE  Promise!Settle
<1>1. survivors' = {Now} /\ Now.pointer = pointer
  BY DEF SyncGenerations, SyncLifecycle, Now, Disk
<1>2. Fallback' = {pointer}
  BY <1>1 DEF Fallback
<1> QED
  BY <1>2 DEF Promise!Settle, Fallback

LEMMA PointerSwitches ==
  ASSUME OrderedJournal, NEW value \in Available \cup {NoGeneration}, UpdatePointer(value),
         UNCHANGED <<installed, sealed>>
  PROVE  Promise!Switch(value)
<1>1. survivors' = survivors \cup {Disk(installed, sealed, value)}
  BY DEF UpdatePointer
<1>2. Disk(installed, sealed, value).pointer = value
  BY DEF Disk
<1>3. Fallback' = Fallback \cup {value}
  BY <1>1, <1>2 DEF Fallback
<1> QED
  BY <1>3 DEF Promise!Switch, UpdatePointer, Available, Fallback

LEMMA PromiseStep ==
  ASSUME OrderedJournal, StoreInv, StoreInv', [Next]_storeVars
  PROVE  [Promise!Step]_(Promise!abstractVars)
<1> USE DEF StoreInv
<1>1. ASSUME NEW a \in Admins, Rename(a) PROVE Promise!Step
  <2>1. target[a] \in Keys /\ target[a] # pointer
    BY <1>1, StoreConstants
       DEF Rename, TypeInv, TypeOK, TargetKnown, KeySteps, Knows, Sound, Servable, Now, Disk
  <2>2. /\ UNCHANGED pointer
        /\ \A j \in Keys \ {target[a]} : installed'[j] = installed[j] /\ (j \in sealed' <=> j \in sealed)
        /\ survivors' = survivors \cup {Now'}
    BY <1>1 DEF Rename, UpdateTree, Now, TypeInv, TypeOK
  <2> QED
    BY <2>1, <2>2, TreeUpdates DEF Promise!Step
<1>2. ASSUME NEW a \in Admins, Reseal(a) \/ Protect(a)
      PROVE  [Promise!Step]_(Promise!abstractVars)
  <2>1. target[a] \in Keys /\ installed[target[a]] = target[a]
    BY <1>2 DEF Reseal, Protect, TypeInv, TargetKnown, KeySteps, Knows
  <2>2. Protected(target[a]) /\ UNCHANGED <<installed, pointer>>
    BY <1>2 DEF Reseal, Protect
  <2> QED
    BY <2>1, <2>2, SealingInstalls DEF Promise!Step
<1>3. ASSUME NEW a \in Admins, StartRemoval(a) PROVE Promise!Step
  <2>1. PICK k \in doomed[a] : UpdateTree(k, Damaged, sealed \ {k})
    BY <1>3 DEF StartRemoval
  <2>2. k \in Keys /\ k # pointer
    BY <1>3 DEF StartRemoval, Knows, TypeInv, TypeOK
  <2>3. /\ UNCHANGED pointer
        /\ \A j \in Keys \ {k} : installed'[j] = installed[j] /\ (j \in sealed' <=> j \in sealed)
        /\ survivors' = survivors \cup {Now'}
    BY <1>3, <2>1 DEF StartRemoval, UpdateTree, Now, TypeInv, TypeOK
  <2> QED
    BY <2>2, <2>3, TreeUpdates DEF Promise!Step
<1>4. ASSUME NEW a \in Admins, FinishRemoval(a) PROVE Promise!Step
  <2>1. target[a] \in Keys /\ target[a] # pointer
    BY <1>4 DEF FinishRemoval, Knows, TypeInv, TargetKnown, KeySteps
  <2>2. /\ UNCHANGED pointer
        /\ \A j \in Keys \ {target[a]} : installed'[j] = installed[j] /\ (j \in sealed' <=> j \in sealed)
        /\ survivors' = survivors \cup {Now'}
    BY <1>4 DEF FinishRemoval, UpdateTree, Now, TypeInv, TypeOK
  <2> QED
    BY <2>1, <2>2, TreeUpdates DEF Promise!Step
<1>5. ASSUME NEW a \in Admins, SyncRename(a) \/ SyncPointer(a) \/ SyncClear(a) \/ SyncPrune(a)
      PROVE  [Promise!Step]_(Promise!abstractVars)
  <2>1. UNCHANGED <<installed, sealed, pointer>>
    BY <1>5 DEF SyncRename, SyncPointer, SyncClear, SyncPrune
  <2>2. SyncGenerations \/ SyncLifecycle \/ UNCHANGED survivors
    BY <1>5 DEF SyncRename, SyncPointer, SyncClear, SyncPrune
  <2> QED
    BY <2>1, <2>2, SyncSettles, Stutters DEF Promise!Step
<1>6. ASSUME NEW a \in Admins, Point(a) PROVE Promise!Step
  <2>1. target[a] \in Keys /\ target[a] \in Available
    BY <1>6 DEF Point, Knows, Switching, Available, TypeInv, TargetKnown, KeySteps
  <2>2. UpdatePointer(target[a]) /\ UNCHANGED <<installed, sealed>>
    BY <1>6 DEF Point
  <2> QED
    BY <2>1, <2>2, PointerSwitches DEF Promise!Step
<1>7. ASSUME NEW a \in Admins, Clear(a) PROVE [Promise!Step]_(Promise!abstractVars)
  <2>1. CASE UpdatePointer(NoGeneration) /\ UNCHANGED <<installed, sealed>>
    BY <2>1, PointerSwitches DEF Promise!Step
  <2>2. CASE UNCHANGED <<installed, sealed, pointer, survivors>>
    BY <2>2, Stutters
  <2> QED
    BY <1>7, <2>1, <2>2 DEF Clear, Fail, diskVars
<1>8. CASE PowerLoss
  <2>1. PICK s \in survivors : pointer' = s.pointer /\ survivors' = {s}
    BY <1>8 DEF PowerLoss
  <2>2. pointer' \in Fallback /\ Fallback' = {pointer'}
    BY <2>1 DEF Fallback
  <2>3. Available' \in SUBSET Keys
    BY DEF Available, TypeInv, TypeOK
  <2>4. pointer' \in Available' \cup {NoGeneration}
    BY DEF Sound, Servable, Now, Disk, Available
  <2>5. Promise!Crash
    BY <2>2, <2>3, <2>4 DEF Promise!Crash, Available, Fallback
  <2> QED
    BY <2>5 DEF Promise!Step
<1>9. ASSUME NEW a \in Admins,
             \/ Issue(a) \/ TakeLifecycle(a) \/ TakeCorpus(a) \/ Validate(a) \/ SealStaged(a)
             \/ Commit(a) \/ RenameFails(a) \/ PointFails(a) \/ Confirm(a) \/ Check(a)
             \/ RemovalFails(a) \/ Kill(a)
      PROVE  UNCHANGED <<installed, sealed, pointer, survivors>>
  BY <1>9 DEF Issue, TakeLifecycle, TakeCorpus, Validate, SealStaged, Commit, RenameFails,
              PointFails, Confirm, Check, RemovalFails, Kill, Fail, diskVars
<1>10. ASSUME \/ \E p \in Paths : Build(p)
              \/ \E d \in Descriptors : ReadBegins(d) \/ ReadEnds(d)
              \/ UNCHANGED storeVars
       PROVE  UNCHANGED <<installed, sealed, pointer, survivors>>
  BY <1>10 DEF Build, ReadBegins, ReadEnds, storeVars, diskVars
<1> QED
  BY <1>1, <1>2, <1>3, <1>4, <1>5, <1>6, <1>7, <1>8, <1>9, <1>10, Stutters
  DEF Next, StoreNext, Command, Proceed

\* The store is a register of complete read-only generations: it is switched in
\* one step to one of them, what it names is never discarded, and a power loss
\* sets it back at most to a value held since it was last settled.
THEOREM StoreKeepsPromise == ASSUME OrderedJournal PROVE Spec => ImplementsPromise
<1>1. Init => Promise!Start
  BY PromiseStart
<1>2. StoreInv /\ StoreInv' /\ [Next]_storeVars => [Promise!Step]_(Promise!abstractVars)
  BY PromiseStep
<1> QED
  BY <1>1, <1>2, StoreInvHolds, PTL DEF Spec, ImplementsPromise, Promise!ActiveSpec
=============================================================================
