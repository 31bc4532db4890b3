-------------------------- MODULE CorpusServerProofs --------------------------
(***************************************************************************)
(* Proofs about CorpusServer, for any servers, threads, operators,          *)
(* generations and number of commands, on an ordered journal: what a tool   *)
(* call answers with.  The inductive invariant joins that of the store with *)
(* what a server has settled at each phase of its startup and a call at      *)
(* each of its steps.                                                        *)
(***************************************************************************)
EXTENDS CorpusServer, GenerationStoreProofs

\* The steps of a call that has LOCK, and those after ensure_corpus_generation_unchanged.
Ensured == {"relock", "resolve", "db", "lexical", "vector", "encode", "answer"}
Reading == Ensured \cup {"ensure"}

Unsealed == {"verify", "verifying", "capture", "seal"}
Described == {"model", "tokenizer", "recheck", "up"}

ServerTypes ==
  /\ phase \in [Servers -> Phases]
  /\ hosted \in [Servers -> BOOLEAN]
  /\ required \in [Servers -> PointerVals] /\ generation \in [Servers -> PointerVals]
  /\ loaded \in [Servers -> SUBSET PointerVals]
  /\ ready \in [Servers -> BOOLEAN] /\ interrupted \in [Servers -> BOOLEAN]
  /\ call \in [Threads -> Steps] /\ kind \in [Threads -> {"search", "retrieve"}]
  /\ seen \in [Threads -> SUBSET PointerVals]

\* LOCK is shared or exclusive, and a call that has it has it from a server that is up.
Shared ==
  /\ readers # {} => writer = Nobody
  /\ \A t \in Threads :
       /\ call[t] # "idle" => phase[Owner[t]] = "up"
       /\ call[t] \in Reading => <<t, "call">> \in readers

\* What a call has read so far.
SeenOne(t) ==
  LET g == generation[Owner[t]] IN
    /\ call[t] \in {"lock", "ensure", "relock", "resolve"} => seen[t] = {}
    /\ call[t] \in Ensured => pointer = g
    /\ call[t] = "db" => seen[t] \subseteq {g}
    /\ call[t] \in {"lexical", "vector", "encode", "answer"} => seen[t] = {g} /\ g # NoGeneration
    /\ call[t] = "answer" /\ kind[t] = "search" => loaded[Owner[t]] # {}

\* A seal that is on the generation of its server.
Owns(s) == seal[s].key # NoGeneration /\ SealedOwn(s)

\* What a server goes by since it sealed its database.
Bound(s) ==
  /\ phase[s] = "down" => seal[s] = NoSeal
  /\ phase[s] \in Unsealed => seal[s] = NoSeal /\ ~interrupted[s]
  /\ phase[s] \in Unsealed \cup {"compare", "model"} => loaded[s] = {}
  /\ seal[s].key = NoGeneration => ~seal[s].intact
  /\ Owns(s) =>
       /\ pointer = generation[s] \/ interrupted[s]
       /\ seal[s].intact /\ interrupted[s] => pointer # generation[s]
       /\ loaded[s] \subseteq {generation[s]} \/ interrupted[s]
  /\ hosted[s] /\ phase[s] \in Described => required[s] = generation[s]

\* A command that is to switch the pointer has touched the generation it switches to: a seal
\* on that one that is intact was made since, while the pointer already named it.
TouchedFirst ==
  \A a \in Admins, s \in Servers :
    Switching(a) /\ seal[s].intact /\ seal[s].key = target[a] => pointer = target[a]

Uninterrupted ==
  \A t \in Threads : call[t] \in Ensured /\ Owns(Owner[t]) => ~interrupted[Owner[t]]

ServerInv ==
  /\ StoreInv /\ ServerTypes /\ Shared /\ TouchedFirst /\ Uninterrupted
  /\ \A t \in Threads : SeenOne(t)
  /\ \A s \in Servers : Bound(s)

-----------------------------------------------------------------------------
(* What the steps of the store do to the servers *)

SealsAre == seal \in [Servers -> [key : PointerVals, intact : BOOLEAN]]

\* The steps of StoreStep, without the servers.
Lifecycle ==
  \/ \E a \in Admins : Issue(a) \/ Command(a) \/ Kill(a)
  \/ \E p \in Paths : Build(p)

\* The readers of the store leave its invariant alone.
LEMMA ReadersKeepStore ==
  ASSUME StoreInv, Untouched, UNCHANGED <<lifecycle, writer>>, readers' \subseteq Descriptors,
         SealsAre'
  PROVE  StoreInv'
<1>1. /\ UNCHANGED <<staged, stagedSealed, installed, sealed, pointer, survivors, issued, pc, op,
                     path, target, durable, doomed, lifecycle, writer>>
  BY DEF Untouched, diskVars, commandVars
<1>2. TypeInv'
  BY <1>1 DEF StoreInv, TypeInv, TypeOK, TargetKnown, SealsAre
<1>3. HeldLocks' /\ \A a \in Admins : Knows(a)'
  BY <1>1 DEF StoreInv, HeldLocks, Knows, Switching, Installing
<1>4. Sound(Now)' /\ (Now \in survivors)' /\ \A s \in survivors' : Sound(s)
  BY <1>1 DEF StoreInv, Now, Disk, Sound, Servable
<1> QED
  BY <1>2, <1>3, <1>4 DEF StoreInv

LEMMA LifecycleKeepsStore ==
  ASSUME OrderedJournal, StoreInv, Lifecycle \/ PowerLoss
  PROVE  StoreInv'
<1>1. [Next]_storeVars
  BY DEF Lifecycle, Next, StoreNext
<1>2. TypeInv'
  BY <1>1, TypeStep DEF StoreInv
<1> QED
  BY <1>1, <1>2, StoreInvStep

\* A command waits for the readers before it takes LOCK, and moves the pointer under it: to the
\* generation it is to switch to, or to none.
LEMMA LifecycleWaits ==
  ASSUME StoreInv, Lifecycle
  PROVE  /\ readers' = readers
         /\ readers # {} => writer' \in {writer, Nobody}
         /\ pointer' # pointer =>
              /\ writer # Nobody
              /\ \/ pointer' = NoGeneration
                 \/ \E a \in Admins : pc[a] = "point" /\ pointer' = target[a]
<1> USE DEF lockVars, diskVars, Return, Fail, Goto
<1>1. ASSUME NEW a \in Admins, TakeCorpus(a)
      PROVE  readers' = readers /\ readers = {} /\ pointer' = pointer
  BY <1>1 DEF TakeCorpus
<1>2. ASSUME NEW a \in Admins, Point(a)
      PROVE  /\ readers' = readers /\ writer' = writer /\ pc[a] = "point" /\ pointer' = target[a]
             /\ writer = a
  BY <1>2 DEF Point, UpdatePointer, StoreInv, HeldLocks, CorpusSteps
<1>3. ASSUME NEW a \in Admins, Clear(a)
      PROVE  /\ readers' = readers /\ writer' \in {writer, Nobody} /\ writer = a
             /\ pointer' \in {pointer, NoGeneration}
  BY <1>3 DEF Clear, UpdatePointer, StoreInv, HeldLocks, CorpusSteps
<1>4. ASSUME NEW a \in Admins,
             \/ Issue(a) \/ TakeLifecycle(a) \/ Validate(a) \/ SealStaged(a) \/ Commit(a)
             \/ Rename(a) \/ RenameFails(a) \/ SyncRename(a) \/ Reseal(a) \/ PointFails(a)
             \/ SyncPointer(a) \/ Confirm(a) \/ Protect(a) \/ SyncClear(a) \/ Check(a)
             \/ StartRemoval(a) \/ FinishRemoval(a) \/ RemovalFails(a) \/ SyncPrune(a) \/ Kill(a)
      PROVE  readers' = readers /\ writer' \in {writer, Nobody} /\ pointer' = pointer
  BY <1>4 DEF Issue, TakeLifecycle, Validate, SealStaged, Commit, Rename, RenameFails, SyncRename,
              Reseal, PointFails, SyncPointer, Confirm, Protect, SyncClear, Check, StartRemoval,
              FinishRemoval, RemovalFails, SyncPrune, Kill
<1>5. ASSUME NEW p \in Paths, Build(p)
      PROVE  readers' = readers /\ writer' = writer /\ pointer' = pointer
  BY <1>5 DEF Build
<1>6. \A a \in Admins : a # Nobody
  BY StoreConstants
<1> QED
  BY <1>1, <1>2, <1>3, <1>4, <1>5, <1>6 DEF Lifecycle, Command, Proceed

\* A seal keeps its key; the change time of its database can only go against it.
LEMMA LifecycleTouches ==
  ASSUME StoreInv, Lifecycle, NEW s \in Servers
  PROVE  /\ seal'[s].key = seal[s].key
         /\ seal'[s].intact => seal[s].intact
         /\ seal[s].key = NoGeneration => seal'[s] = seal[s]
<1> DEFINE Kept ==
             /\ seal'[s].key = seal[s].key
             /\ seal'[s].intact => seal[s].intact
             /\ seal[s].key = NoGeneration => seal'[s] = seal[s]
<1>1. seal[s] \in [key : PointerVals, intact : BOOLEAN]
  BY DEF StoreInv, TypeInv, TypeOK
<1>2. ASSUME NEW k \in Keys, Touch(k)
      PROVE  Kept
  BY <1>1, <1>2, StoreConstants DEF Touch
<1>3. ASSUME NEW a \in Admins, Reseal(a) \/ Protect(a)
      PROVE  \E k \in Keys : Touch(k)
  BY <1>3 DEF Reseal, Protect, StoreInv, TypeInv, TargetKnown, KeySteps
<1>4. ASSUME NEW a \in Admins, StartRemoval(a)
      PROVE  \E k \in Keys : Touch(k)
  BY <1>4 DEF StartRemoval, StoreInv, TypeInv, TypeOK
<1>5. ASSUME NEW a \in Admins,
             \/ Issue(a) \/ TakeLifecycle(a) \/ TakeCorpus(a) \/ Validate(a) \/ SealStaged(a)
             \/ Commit(a) \/ Rename(a) \/ RenameFails(a) \/ SyncRename(a) \/ Point(a)
             \/ PointFails(a) \/ SyncPointer(a) \/ Confirm(a) \/ Clear(a) \/ SyncClear(a)
             \/ Check(a) \/ FinishRemoval(a) \/ RemovalFails(a) \/ SyncPrune(a) \/ Kill(a)
      PROVE  UNCHANGED seal
  BY <1>5 DEF Issue, TakeLifecycle, TakeCorpus, Validate, SealStaged, Commit, Rename, RenameFails,
              SyncRename, Point, PointFails, SyncPointer, Confirm, Clear, SyncClear, Check,
              FinishRemoval, RemovalFails, SyncPrune, Kill, Fail
<1>6. ASSUME NEW p \in Paths, Build(p)
      PROVE  UNCHANGED seal
  BY <1>6 DEF Build
<1>7. UNCHANGED seal \/ \E k \in Keys : Touch(k)
  BY <1>3, <1>4, <1>5, <1>6 DEF Lifecycle, Command, Proceed
<1> QED
  BY <1>2, <1>7

\* Who is to switch the pointer after a step was so before it, or has just touched its target.
LEMMA SwitchesAfterTouch ==
  ASSUME StoreInv, Lifecycle, NEW a \in Admins, Switching(a)'
  PROVE  \/ Switching(a) /\ UNCHANGED <<target[a], pointer>>
         \/ Touch(target[a]) /\ target'[a] = target[a]
<1> USE DEF Switching, Goto, Return, Fail, commandVars, Finished
<1>1. pc \in [Admins -> Finished \cup {"start"} \cup LifecycleSteps] /\ target \in [Admins -> PointerVals]
      /\ op \in [Admins -> Operations]
  BY DEF StoreInv, TypeInv, TypeOK
<1>2. ASSUME NEW b \in Admins, b # a, Issue(b) \/ Command(b) \/ Kill(b)
      PROVE  pc'[a] = pc[a] /\ op'[a] = op[a] /\ target'[a] = target[a]
  BY <1>1, <1>2 DEF Issue, Kill, Command, Proceed, TakeLifecycle, TakeCorpus, Validate, SealStaged,
              Commit, Rename, RenameFails, SyncRename, Reseal, Point, PointFails, SyncPointer,
              Confirm, Protect, Clear, SyncClear, Check, StartRemoval, FinishRemoval,
              RemovalFails, SyncPrune
<1>3. ASSUME NEW b \in Admins, b # a, Issue(b) \/ Command(b) \/ Kill(b)
      PROVE  Switching(a) /\ UNCHANGED <<target[a], pointer>>
  <2>1. Switching(a) /\ target'[a] = target[a]
    BY <1>2, <1>3
  <2>2. lifecycle = a /\ lifecycle # b
    BY <1>3, <2>1 DEF StoreInv, HeldLocks, LifecycleSteps, CorpusSteps
  <2>3. ~Point(b) /\ ~Clear(b)
    BY <2>2 DEF StoreInv, HeldLocks, LifecycleSteps, CorpusSteps, Point, Clear
  <2>4. UNCHANGED pointer
    BY <1>3, <2>3 DEF diskVars, Issue, Kill, Command, Proceed, TakeLifecycle, TakeCorpus, Validate,
              SealStaged, Commit, Rename, RenameFails, SyncRename, Reseal, PointFails, SyncPointer,
              Confirm, Protect, SyncClear, Check, StartRemoval, FinishRemoval, RemovalFails,
              SyncPrune
  <2> QED
    BY <2>1, <2>4
<1>4. CASE Reseal(a) \/ Protect(a)
  BY <1>4 DEF Reseal, Protect
<1>5. CASE TakeCorpus(a)
  <2>1. pc[a] = "corpus" /\ op'[a] = op[a] /\ target'[a] = target[a] /\ pointer' = pointer
    BY <1>5 DEF TakeCorpus, diskVars
  <2>2. pc'[a] = "point" => op[a] = "rollback"
    BY <1>1, <1>5 DEF TakeCorpus, Operations
  <2> QED
    BY <2>1, <2>2
<1>6. CASE SealStaged(a)
  <2>1. pc[a] = "seal" /\ pc'[a] \in {"corpus", "failed"} /\ op'[a] = op[a]
    BY <1>1, <1>6 DEF SealStaged
  <2>2. op[a] = "activate"
    BY <2>1 DEF StoreInv, Knows
  <2> QED
    BY <2>1, <2>2
<1>7. CASE \/ Issue(a) \/ TakeLifecycle(a) \/ Validate(a) \/ Commit(a) \/ Rename(a)
           \/ RenameFails(a) \/ SyncRename(a) \/ Point(a) \/ PointFails(a) \/ SyncPointer(a)
           \/ Confirm(a) \/ Clear(a) \/ SyncClear(a) \/ Check(a) \/ StartRemoval(a)
           \/ FinishRemoval(a) \/ RemovalFails(a) \/ SyncPrune(a) \/ Kill(a)
  BY <1>1, <1>7 DEF Issue, TakeLifecycle, Validate, Commit, Rename, RenameFails, SyncRename, Point,
              PointFails, SyncPointer, Confirm, Clear, SyncClear, Check, StartRemoval,
              FinishRemoval, RemovalFails, SyncPrune, Kill
<1>8. CASE \E p \in Paths : Build(p)
  BY <1>8 DEF Build
<1> QED
  BY <1>3, <1>4, <1>5, <1>6, <1>7, <1>8 DEF Lifecycle, Command, Proceed

-----------------------------------------------------------------------------
(* What a call must respect, and its steps *)

\* The calls of the other threads, and what their servers go by.
LEMMA CallKeeps ==
  ASSUME ServerInv, NEW t \in Threads, phase[Owner[t]] = "up",
         Untouched, UNCHANGED <<lifecycle, writer, seal>>,
         UNCHANGED <<phase, hosted, required, generation, ready, interrupted>>,
         ServerTypes', readers' \subseteq Descriptors, readers' # {} => writer = Nobody,
         \A u \in Threads \ {t} :
           /\ <<u, "call">> \in readers => <<u, "call">> \in readers'
           /\ call'[u] = call[u] /\ kind'[u] = kind[u] /\ seen'[u] = seen[u],
         \A s \in Servers :
           \/ loaded'[s] = loaded[s]
           \/ s = Owner[t] /\ loaded[s] = {} /\ loaded'[s] = {generation[s]},
         call'[t] \in Reading => <<t, "call">> \in readers',
         SeenOne(t)',
         call'[t] \in Ensured /\ Owns(Owner[t]) => ~interrupted[Owner[t]]
  PROVE  ServerInv'
<1>1. /\ pointer' = pointer /\ target' = target /\ seal' = seal
      /\ \A a \in Admins : Switching(a)' = Switching(a)
  BY DEF Untouched, diskVars, commandVars, Switching
<1>2. StoreInv'
  <2>1. SealsAre'
    BY DEF ServerInv, StoreInv, TypeInv, TypeOK, SealsAre
  <2> QED
    BY <2>1, ReadersKeepStore DEF ServerInv
<1>3. Shared'
  <2>1. ASSUME NEW u \in Threads
        PROVE  /\ call'[u] # "idle" => phase'[Owner[u]] = "up"
               /\ call'[u] \in Reading => <<u, "call">> \in readers'
    BY DEF ServerInv, Shared
  <2> QED
    BY <2>1 DEF Shared
<1>4. TouchedFirst'
  BY <1>1 DEF ServerInv, TouchedFirst
<1>5. Uninterrupted'
  <2>1. ASSUME NEW u \in Threads, call'[u] \in Ensured, Owns(Owner[u])'
        PROVE  ~interrupted'[Owner[u]]
    BY <2>1 DEF ServerInv, Uninterrupted, Owns, SealedOwn
  <2> QED
    BY <2>1 DEF Uninterrupted
<1>6. ASSUME NEW u \in Threads
      PROVE  SeenOne(u)'
  <2>1. Owner[u] \in Servers
    BY ServerConstants
  <2>2. CASE u # t
    <3>1. SeenOne(u) /\ call'[u] = call[u] /\ kind'[u] = kind[u] /\ seen'[u] = seen[u]
      BY <2>2 DEF ServerInv
    <3>2. loaded[Owner[u]] # {} => loaded'[Owner[u]] # {}
      BY <2>1
    <3> QED
      BY <1>1, <3>1, <3>2 DEF SeenOne
  <2> QED
    BY <2>2
<1>7. ASSUME NEW s \in Servers
      PROVE  Bound(s)'
  <2>1. Bound(s)
    BY DEF ServerInv
  <2>2. Owns(s)' = Owns(s)
    BY DEF Owns, SealedOwn
  <2>3. CASE loaded'[s] = loaded[s]
    BY <1>1, <2>1, <2>2, <2>3 DEF Bound
  <2>4. CASE phase[s] = "up" /\ loaded'[s] = {generation[s]}
    BY <1>1, <2>1, <2>2, <2>4 DEF Bound, Unsealed, Described
  <2> QED
    BY <2>3, <2>4
<1> QED
  BY <1>2, <1>3, <1>4, <1>5, <1>6, <1>7 DEF ServerInv

LEMMA CallsOpen ==
  ASSUME ServerInv, NEW t \in Threads, call[t] # "idle"
  PROVE  phase[Owner[t]] = "up" /\ (readers # {} => writer = Nobody)
BY DEF ServerInv, Shared

LEMMA EndsSafely ==
  ASSUME ServerInv, NEW t \in Threads, call[t] # "idle", EndCall(t)
  PROVE  ServerInv'
<1> USE DEF EndCall, GotoStep, serverVars, UnlockShared
<1>1. ServerTypes'
  BY DEF ServerInv, ServerTypes, Steps
<1>2. call'[t] = "idle" /\ \A u \in Threads \ {t} : call'[u] = call[u]
  BY DEF ServerInv, ServerTypes
<1>3. /\ readers' \subseteq Descriptors
      /\ readers' # {} => writer = Nobody
      /\ \A u \in Threads \ {t} : <<u, "call">> \in readers => <<u, "call">> \in readers'
  BY CallsOpen DEF ServerInv, StoreInv, TypeInv, TypeOK
<1>4. SeenOne(t)'
  BY <1>2 DEF SeenOne, Ensured
<1> QED
  BY <1>1, <1>2, <1>3, <1>4, CallKeeps, CallsOpen DEF Ensured, Reading

LEMMA BeginCallKeeps ==
  ASSUME ServerInv, NEW t \in Threads, BeginCall(t)
  PROVE  ServerInv'
<1> USE DEF BeginCall, GotoStep, serverVars, lockVars
<1>1. ServerTypes'
  BY DEF ServerInv, ServerTypes, Steps
<1>2. /\ call'[t] = "lock" /\ seen'[t] = {}
      /\ \A u \in Threads \ {t} : call'[u] = call[u] /\ kind'[u] = kind[u] /\ seen'[u] = seen[u]
  BY DEF ServerInv, ServerTypes
<1>3. readers' \subseteq Descriptors /\ (readers' # {} => writer = Nobody)
  BY DEF ServerInv, Shared, StoreInv, TypeInv, TypeOK
<1>4. SeenOne(t)'
  BY <1>2 DEF SeenOne, Ensured
<1> QED
  BY <1>1, <1>2, <1>3, <1>4, CallKeeps DEF Ensured, Reading

LEMMA TakeReadLockKeeps ==
  ASSUME ServerInv, NEW t \in Threads, TakeReadLock(t)
  PROVE  ServerInv'
<1> USE DEF TakeReadLock, LockCorpus, LockShared, GotoStep, serverVars
<1>1. ServerTypes'
  BY DEF ServerInv, ServerTypes, Steps
<1>2. /\ call'[t] = IF call[t] = "lock" THEN "ensure" ELSE "resolve"
      /\ \A u \in Threads \ {t} : call'[u] = call[u] /\ kind'[u] = kind[u] /\ seen'[u] = seen[u]
  BY DEF ServerInv, ServerTypes
<1>3. <<t, "call">> \in Descriptors /\ <<t, "search">> \in Descriptors
  BY ServerConstants
<1>4. readers' \subseteq Descriptors /\ (readers' # {} => writer = Nobody) /\ readers \subseteq readers'
  BY <1>3 DEF ServerInv, StoreInv, TypeInv, TypeOK
<1>5. call[t] = "relock" => <<t, "call">> \in readers
  BY DEF ServerInv, Shared, Reading, Ensured
<1>6. <<t, "call">> \in readers'
  BY <1>5
<1>7. SeenOne(t) /\ pointer' = pointer
  BY DEF ServerInv, Untouched, diskVars
<1>8. SeenOne(t)'
  BY <1>2, <1>7 DEF SeenOne, Ensured
<1>9. call'[t] \in Ensured /\ Owns(Owner[t]) => ~interrupted[Owner[t]]
  BY <1>2 DEF ServerInv, Uninterrupted, Ensured
<1> QED
  BY <1>1, <1>2, <1>4, <1>6, <1>8, <1>9, CallKeeps, CallsOpen

\* The seal still stands and the pointer names its generation: no other was active in between.
LEMMA EnsureKeeps ==
  ASSUME ServerInv, NEW t \in Threads, Ensure(t)
  PROVE  ServerInv'
<1>1. CASE ~Unchanged(Owner[t])
  BY <1>1, EndsSafely DEF Ensure
<1>2. CASE Unchanged(Owner[t])
  <2> USE <1>2 DEF Ensure, GotoStep, serverVars, lockVars
  <2>1. ServerTypes'
    BY DEF ServerInv, ServerTypes, Steps
  <2>2. /\ call'[t] = IF kind[t] = "search" THEN "relock" ELSE "db"
        /\ \A u \in Threads \ {t} : call'[u] = call[u]
    BY DEF ServerInv, ServerTypes
  <2>3. readers' \subseteq Descriptors /\ (readers' # {} => writer = Nobody)
    BY DEF ServerInv, Shared, StoreInv, TypeInv, TypeOK
  <2>4. <<t, "call">> \in readers'
    BY DEF ServerInv, Shared, Reading
  <2>5. SeenOne(t) /\ pointer' = pointer /\ Bound(Owner[t])
    BY ServerConstants DEF ServerInv, Untouched, diskVars
  <2>6. SeenOne(t)'
    BY <2>2, <2>5 DEF SeenOne, Ensured, Unchanged
  <2>7. Owns(Owner[t]) => ~interrupted[Owner[t]]
    BY <2>5 DEF Bound, Owns, SealedOwn, Unchanged
  <2> QED
    BY <2>1, <2>2, <2>3, <2>4, <2>6, <2>7, CallKeeps, CallsOpen
<1> QED
  BY <1>1, <1>2

\* A call past ensure_corpus_generation_unchanged that goes on to a later step.
LEMMA GoesOn ==
  ASSUME ServerInv, NEW t \in Threads, call[t] \in Ensured, NEW step \in Ensured, GotoStep(t, step),
         UNCHANGED <<kind, lockVars, seal, phase, hosted, required, generation, ready, interrupted>>,
         Untouched, NEW keys \in SUBSET PointerVals, seen' = [seen EXCEPT ![t] = keys],
         loaded' \in [Servers -> SUBSET PointerVals],
         \A s \in Servers :
           \/ loaded'[s] = loaded[s]
           \/ s = Owner[t] /\ loaded[s] = {} /\ loaded'[s] = {generation[s]},
         SeenOne(t)'
  PROVE  ServerInv'
<1> USE DEF GotoStep, lockVars
<1>1. ServerTypes'
  BY DEF ServerInv, ServerTypes, Steps, Ensured
<1>2. /\ call'[t] = step
      /\ \A u \in Threads \ {t} : call'[u] = call[u] /\ kind'[u] = kind[u] /\ seen'[u] = seen[u]
  BY DEF ServerInv, ServerTypes
<1>3. /\ readers' \subseteq Descriptors /\ (readers' # {} => writer = Nobody)
      /\ <<t, "call">> \in readers'
  BY DEF ServerInv, Shared, StoreInv, TypeInv, TypeOK, Reading
<1>4. Owns(Owner[t]) => ~interrupted[Owner[t]]
  BY DEF ServerInv, Uninterrupted
<1>5. phase[Owner[t]] = "up"
  BY CallsOpen DEF Ensured
<1> QED
  BY <1>1, <1>2, <1>3, <1>4, <1>5, CallKeeps

\* Whatever the call resolves while it has LOCK is the generation it was checked against.
LEMMA ResolveKeeps ==
  ASSUME ServerInv, NEW t \in Threads, Resolve(t)
  PROVE  ServerInv'
<1>1. CASE EndCall(t)
  BY <1>1, EndsSafely DEF Resolve
<1>2. CASE ~EndCall(t)
  <2>1. /\ pointer' = pointer /\ SeenOne(t) /\ call[t] = "resolve" /\ Resolves
        /\ GotoStep(t, "db") /\ seen' = [seen EXCEPT ![t] = {pointer}]
        /\ UNCHANGED <<kind, lockVars, seal, serverVars>> /\ Untouched
    BY <1>2 DEF ServerInv, Resolve, Untouched, diskVars, SeenOne
  <2>2. seen'[t] = {pointer} /\ call'[t] = "db" /\ pointer = generation[Owner[t]]
    BY <2>1 DEF ServerInv, ServerTypes, GotoStep, SeenOne, Ensured
  <2>3. SeenOne(t)'
    BY <2>1, <2>2 DEF SeenOne, serverVars, Ensured
  <2>4. {pointer} \in SUBSET PointerVals /\ loaded' \in [Servers -> SUBSET PointerVals]
    BY <2>1 DEF ServerInv, ServerTypes, StoreInv, TypeInv, TypeOK, serverVars
  <2> QED
    BY <2>1, <2>3, <2>4, GoesOn DEF serverVars, Ensured
<1> QED
  BY <1>1, <1>2

LEMMA ReadKeeps ==
  ASSUME ServerInv, NEW t \in Threads, Read(t)
  PROVE  ServerInv'
<1>1. CASE EndCall(t)
  BY <1>1, EndsSafely DEF Read
<1>2. CASE ~EndCall(t)
  <2> DEFINE next == CASE kind[t] = "retrieve"  -> "answer"
                       [] call[t] = "db"        -> "lexical"
                       [] call[t] = "lexical"   -> "vector"
                       [] call[t] = "vector"    -> "encode"
  <2>1. /\ pointer' = pointer /\ SeenOne(t) /\ call[t] \in {"db", "lexical", "vector"} /\ Resolves
        /\ GotoStep(t, next) /\ seen' = [seen EXCEPT ![t] = @ \cup {pointer}]
        /\ UNCHANGED <<kind, lockVars, seal, serverVars>> /\ Untouched
    BY <1>2 DEF ServerInv, Read, Untouched, diskVars
  <2>2. pointer = generation[Owner[t]] /\ pointer # NoGeneration /\ seen[t] \cup {pointer} = {pointer}
    BY <2>1 DEF SeenOne, Ensured, Resolves
  <2>3. /\ next \in {"answer", "lexical", "vector", "encode"}
        /\ next = "answer" => kind[t] = "retrieve"
    <3>1. CASE kind[t] = "retrieve"
      BY <3>1
    <3>2. CASE kind[t] # "retrieve"
      BY <2>1, <3>2
    <3> QED
      BY <3>1, <3>2
  <2> HIDE DEF next
  <2>4. seen'[t] = {pointer} /\ call'[t] = next
    BY <2>1, <2>2 DEF ServerInv, ServerTypes, GotoStep
  <2>5. SeenOne(t)'
    BY <2>1, <2>2, <2>3, <2>4 DEF SeenOne, serverVars, Ensured
  <2>6. /\ {pointer} \in SUBSET PointerVals /\ loaded' \in [Servers -> SUBSET PointerVals]
        /\ seen' = [seen EXCEPT ![t] = {pointer}]
    BY <2>1, <2>2 DEF ServerInv, ServerTypes, StoreInv, TypeInv, TypeOK, serverVars
  <2> QED
    BY <2>1, <2>3, <2>5, <2>6, GoesOn DEF serverVars, Ensured
<1> QED
  BY <1>1, <1>2

LEMMA EncodeKeeps ==
  ASSUME ServerInv, NEW t \in Threads, Encode(t)
  PROVE  ServerInv'
<1>1. /\ pointer' = pointer /\ SeenOne(t) /\ call[t] = "encode" /\ GotoStep(t, "answer")
      /\ Untouched /\ UNCHANGED <<kind, seen, lockVars, seal, phase, hosted, required, generation,
                                  ready, interrupted>>
  BY DEF ServerInv, Encode, Untouched, diskVars
<1>2. Owner[t] \in Servers /\ call'[t] = "answer"
  BY <1>1, ServerConstants DEF ServerInv, ServerTypes, GotoStep
<1>3. pointer = generation[Owner[t]] /\ pointer \in PointerVals
  BY <1>1 DEF SeenOne, Ensured, ServerInv, StoreInv, TypeInv, TypeOK
<1>4. /\ loaded' \in [Servers -> SUBSET PointerVals]
      /\ loaded'[Owner[t]] # {}
      /\ \A s \in Servers :
           \/ loaded'[s] = loaded[s]
           \/ s = Owner[t] /\ loaded[s] = {} /\ loaded'[s] = {generation[s]}
  BY <1>2, <1>3 DEF Encode, ServerInv, ServerTypes
<1>5. SeenOne(t)'
  BY <1>1, <1>2, <1>4 DEF SeenOne, Ensured
<1>6. seen[t] \in SUBSET PointerVals /\ seen' = [seen EXCEPT ![t] = seen[t]]
  BY <1>1 DEF ServerInv, ServerTypes
<1> QED
  BY <1>1, <1>4, <1>5, <1>6, GoesOn DEF Ensured

LEMMA CallStepKeeps ==
  ASSUME ServerInv, NEW t \in Threads, BeginCall(t) \/ CallStep(t)
  PROVE  ServerInv'
<1>1. CASE Answer(t)
  BY <1>1, EndsSafely DEF Answer
<1> QED
  BY <1>1, BeginCallKeeps, TakeReadLockKeeps, EnsureKeeps, ResolveKeeps, ReadKeeps, EncodeKeeps
     DEF CallStep

-----------------------------------------------------------------------------
(* What the start and the end of a server must respect, and their steps *)

\* The other servers and their calls.
LEMMA ServerKeeps ==
  ASSUME ServerInv, NEW s \in Servers, Untouched, UNCHANGED <<lifecycle, writer, kind, seen>>,
         ServerTypes', SealsAre', readers' \subseteq Descriptors, readers' # {} => writer = Nobody,
         \A r \in Servers \ {s} :
           /\ phase'[r] = phase[r] /\ hosted'[r] = hosted[r] /\ required'[r] = required[r]
           /\ generation'[r] = generation[r] /\ loaded'[r] = loaded[r]
           /\ interrupted'[r] = interrupted[r] /\ seal'[r] = seal[r],
         \A t \in Threads :
           /\ Owner[t] = s => call'[t] = "idle"
           /\ Owner[t] # s => call'[t] = call[t]
           /\ Owner[t] # s /\ <<t, "call">> \in readers => <<t, "call">> \in readers',
         seal'[s].intact => seal'[s] = seal[s] \/ seal'[s].key = pointer,
         Bound(s)'
  PROVE  ServerInv'
<1>1. /\ pointer' = pointer /\ target' = target
      /\ \A a \in Admins : Switching(a)' = Switching(a)
  BY DEF Untouched, diskVars, commandVars, Switching
<1>2. StoreInv'
  BY ReadersKeepStore DEF ServerInv
<1>3. Shared'
  <2>1. ASSUME NEW t \in Threads
        PROVE  /\ call'[t] # "idle" => phase'[Owner[t]] = "up"
               /\ call'[t] \in Reading => <<t, "call">> \in readers'
    <3>1. Owner[t] \in Servers
      BY ServerConstants
    <3>2. CASE Owner[t] = s
      BY <3>2 DEF Reading, Ensured
    <3>3. CASE Owner[t] # s
      BY <3>1, <3>3 DEF ServerInv, Shared
    <3> QED
      BY <3>2, <3>3
  <2> QED
    BY <2>1 DEF Shared
<1>4. TouchedFirst'
  <2>1. ASSUME NEW a \in Admins, NEW r \in Servers, Switching(a), seal'[r].intact,
               seal'[r].key = target[a]
        PROVE  pointer = target[a]
    <3>1. seal'[r] = seal[r] \/ seal'[r].key = pointer
      BY <2>1
    <3> QED
      BY <2>1, <3>1 DEF ServerInv, TouchedFirst
  <2> QED
    BY <1>1, <2>1 DEF TouchedFirst
<1>5. ASSUME NEW t \in Threads
      PROVE  SeenOne(t)' /\ (call'[t] \in Ensured /\ Owns(Owner[t])' => ~interrupted'[Owner[t]])
  <2>1. Owner[t] \in Servers
    BY ServerConstants
  <2>2. CASE Owner[t] = s
    BY <2>2 DEF SeenOne, Ensured
  <2>3. CASE Owner[t] # s
    <3>1. SeenOne(t) /\ (call[t] \in Ensured /\ Owns(Owner[t]) => ~interrupted[Owner[t]])
      BY DEF ServerInv, Uninterrupted
    <3>2. /\ call'[t] = call[t] /\ generation'[Owner[t]] = generation[Owner[t]]
          /\ loaded'[Owner[t]] = loaded[Owner[t]] /\ seal'[Owner[t]] = seal[Owner[t]]
          /\ interrupted'[Owner[t]] = interrupted[Owner[t]]
      BY <2>1, <2>3
    <3> QED
      BY <1>1, <3>1, <3>2 DEF SeenOne, Owns, SealedOwn
  <2> QED
    BY <2>2, <2>3
<1>6. ASSUME NEW r \in Servers, r # s
      PROVE  Bound(r)'
  <2>1. Bound(r)
    BY DEF ServerInv
  <2> QED
    BY <1>1, <1>6, <2>1 DEF Bound, Owns, SealedOwn
<1> QED
  BY <1>2, <1>3, <1>4, <1>5, <1>6 DEF ServerInv, Uninterrupted

\* Before it is up a server has no calls.
LEMMA NoCallsYet ==
  ASSUME ServerInv, NEW s \in Servers, phase[s] # "up", call' = call
  PROVE  \A t \in Threads :
           /\ Owner[t] = s => call'[t] = "idle"
           /\ Owner[t] # s => call'[t] = call[t]
BY DEF ServerInv, Shared

LEMMA ExitKeeps ==
  ASSUME ServerInv, NEW s \in Servers, Exit(s)
  PROVE  ServerInv'
<1> USE DEF Exit, To, UnlockShared
<1>1. ServerTypes' /\ SealsAre'
  BY DEF ServerInv, ServerTypes, Phases, Steps, SealsAre, StoreInv, TypeInv, TypeOK, NoSeal, PointerVals
<1>2. /\ phase'[s] = "down" /\ seal'[s] = NoSeal
      /\ \A r \in Servers \ {s} : phase'[r] = phase[r] /\ seal'[r] = seal[r]
  BY DEF ServerInv, ServerTypes, StoreInv, TypeInv, TypeOK
<1>3. /\ readers' \subseteq Descriptors /\ (readers' # {} => writer = Nobody)
      /\ \A t \in Threads : Owner[t] # s /\ <<t, "call">> \in readers => <<t, "call">> \in readers'
  <2>1. readers' \subseteq Descriptors /\ (readers' # {} => writer = Nobody)
    BY DEF ServerInv, Shared, StoreInv, TypeInv, TypeOK
  <2>2. ASSUME NEW t \in Threads, Owner[t] # s
        PROVE  <<t, "call">> \notin FdsOf(s)
    BY <2>2 DEF FdsOf
  <2> QED
    BY <2>1, <2>2
<1>4. Bound(s)'
  BY <1>2, StoreConstants DEF Bound, Owns, Unsealed, Described, NoSeal
<1>5. \A t \in Threads : (Owner[t] = s => call'[t] = "idle") /\ (Owner[t] # s => call'[t] = call[t])
  OBVIOUS
<1>6. ~seal'[s].intact
  BY <1>2 DEF NoSeal
<1> QED
  BY <1>1, <1>2, <1>3, <1>4, <1>5, <1>6, ServerKeeps

LEMMA StartServerKeeps ==
  ASSUME ServerInv, NEW s \in Servers, StartServer(s)
  PROVE  ServerInv'
<1> USE DEF StartServer, To, lockVars, callVars
<1>1. ServerTypes' /\ SealsAre'
  BY DEF ServerInv, ServerTypes, Phases, Steps, SealsAre, StoreInv, TypeInv, TypeOK, PointerVals
<1>2. /\ phase'[s] \in {"capture", "verify"} /\ loaded'[s] = {} /\ ~interrupted'[s]
      /\ seal'[s] = seal[s] /\ seal[s] = NoSeal
  BY DEF ServerInv, ServerTypes, Bound
<1>3. \A r \in Servers \ {s} :
        /\ phase'[r] = phase[r] /\ hosted'[r] = hosted[r] /\ required'[r] = required[r]
        /\ generation'[r] = generation[r] /\ loaded'[r] = loaded[r]
        /\ interrupted'[r] = interrupted[r] /\ seal'[r] = seal[r]
  BY DEF ServerInv, ServerTypes
<1>4. readers' \subseteq Descriptors /\ (readers' # {} => writer = Nobody)
  BY DEF ServerInv, Shared, StoreInv, TypeInv, TypeOK
<1>5. Bound(s)'
  BY <1>2 DEF Bound, Owns, Unsealed, Described, NoSeal
<1> QED
  BY <1>1, <1>2, <1>3, <1>4, <1>5, NoCallsYet, ServerKeeps

LEMMA VerifyKeeps ==
  ASSUME ServerInv, NEW s \in Servers, VerifyLock(s) \/ Verify(s)
  PROVE  ServerInv'
<1>1. CASE Exit(s)
  BY <1>1, ExitKeeps
<1>2. CASE ~Exit(s)
  <2>1. /\ phase[s] \in {"verify", "verifying"}
        /\ To(s, "verifying") \/ To(s, "capture")
        /\ required' = required \/ required' = [required EXCEPT ![s] = NoGeneration]
        /\ UNCHANGED <<lifecycle, writer, hosted, generation, loaded, ready, interrupted, seal,
                       callVars>>
        /\ Untouched
    BY <1>2 DEF VerifyLock, Verify, LockShared, UnlockShared
  <2>2. /\ readers' \subseteq Descriptors /\ (readers' # {} => writer = Nobody)
        /\ \A t \in Threads : <<t, "call">> \in readers => <<t, "call">> \in readers'
    <3>1. <<s, "verify">> \in Descriptors
      BY ServerConstants
    <3>2. readers' \in {readers \cup {<<s, "verify">>}, readers \ {<<s, "verify">>}}
      BY <1>2 DEF VerifyLock, Verify, LockShared, UnlockShared
    <3>3. readers' # {} => writer = Nobody
      BY <1>2 DEF VerifyLock, Verify, LockShared, UnlockShared, ServerInv, Shared
    <3> QED
      BY <3>1, <3>2, <3>3 DEF ServerInv, StoreInv, TypeInv, TypeOK
  <2>3. ServerTypes' /\ SealsAre'
    <3>1. phase' \in [Servers -> Phases]
      BY <2>1 DEF ServerInv, ServerTypes, Phases, To
    <3>2. required' \in [Servers -> PointerVals]
      BY <2>1 DEF ServerInv, ServerTypes, PointerVals
    <3> QED
      BY <2>1, <3>1, <3>2 DEF ServerInv, ServerTypes, SealsAre, StoreInv, TypeInv, TypeOK, callVars
  <2>4. /\ phase'[s] \in {"verifying", "capture"}
        /\ \A r \in Servers \ {s} : phase'[r] = phase[r] /\ required'[r] = required[r]
    BY <2>1 DEF ServerInv, ServerTypes, To
  <2>5. Bound(s)'
    <3>1. seal'[s] = NoSeal /\ ~interrupted'[s] /\ loaded'[s] = {}
      BY <2>1 DEF ServerInv, Bound, Unsealed
    <3> QED
      BY <2>4, <3>1 DEF Bound, Owns, Unsealed, Described, NoSeal
  <2> QED
    BY <2>1, <2>2, <2>3, <2>4, <2>5, NoCallsYet, ServerKeeps DEF callVars
<1> QED
  BY <1>1, <1>2

\* Where the server takes its generation from, and then its seal: on that generation, or not.
LEMMA CaptureKeeps ==
  ASSUME ServerInv, NEW s \in Servers, CaptureGeneration(s) \/ CaptureDatabase(s)
  PROVE  ServerInv'
<1> USE DEF To, lockVars, callVars
<1>1. pointer' = pointer /\ pointer \in PointerVals
  BY DEF CaptureGeneration, CaptureDatabase, Untouched, diskVars, ServerInv, StoreInv, TypeInv, TypeOK
<1>2. readers' \subseteq Descriptors /\ (readers' # {} => writer = Nobody)
  BY DEF CaptureGeneration, CaptureDatabase, ServerInv, Shared, StoreInv, TypeInv, TypeOK
<1>3. Bound(s) /\ phase[s] # "up" /\ seal[s] = NoSeal /\ ~interrupted[s] /\ loaded[s] = {}
  BY DEF CaptureGeneration, CaptureDatabase, ServerInv, Bound, Unsealed
<1>4. CASE CaptureGeneration(s)
  <2> USE <1>4 DEF CaptureGeneration
  <2>1. ServerTypes' /\ SealsAre'
    BY <1>1 DEF ServerInv, ServerTypes, Phases, Steps, SealsAre, StoreInv, TypeInv, TypeOK, PointerVals
  <2>2. /\ phase'[s] = "seal"
        /\ \A r \in Servers \ {s} : phase'[r] = phase[r] /\ generation'[r] = generation[r]
    BY DEF ServerInv, ServerTypes
  <2>3. Bound(s)'
    BY <1>3, <2>2 DEF Bound, Owns, Unsealed, Described, NoSeal
  <2> QED
    BY <1>2, <1>3, <2>1, <2>2, <2>3, NoCallsYet, ServerKeeps
<1>5. CASE CaptureDatabase(s)
  <2> USE <1>5 DEF CaptureDatabase, CaptureSeal
  <2>1. ServerTypes' /\ SealsAre'
    BY <1>1 DEF ServerInv, ServerTypes, Phases, Steps, SealsAre, StoreInv, TypeInv, TypeOK,
                PointerVals, NoSeal
  <2>2. /\ phase'[s] = "compare"
        /\ seal'[s] \in {NoSeal, [key |-> pointer, intact |-> TRUE]}
        /\ seal'[s].intact => seal'[s].key = pointer /\ pointer # NoGeneration
        /\ \A r \in Servers \ {s} : phase'[r] = phase[r] /\ seal'[r] = seal[r]
    BY DEF ServerInv, ServerTypes, StoreInv, TypeInv, TypeOK, Resolves, NoSeal
  <2>3. Bound(s)'
    BY <1>1, <1>3, <2>2 DEF Bound, Owns, SealedOwn, Unsealed, Described, NoSeal
  <2> QED
    BY <1>2, <1>3, <2>1, <2>2, <2>3, NoCallsYet, ServerKeeps
<1> QED
  BY <1>4, <1>5

LEMMA ComeUpKeeps ==
  ASSUME ServerInv, NEW s \in Servers, Compare(s) \/ LoadModel(s) \/ Recheck(s)
  PROVE  ServerInv'
<1>1. CASE Exit(s)
  BY <1>1, ExitKeeps DEF Compare, LoadModel, Recheck
<1>2. CASE ~Exit(s)
  <2>1. /\ \/ /\ phase[s] = "compare" /\ (To(s, "model") \/ To(s, "up"))
              /\ loaded' = loaded /\ (hosted[s] => generation[s] = required[s])
           \/ /\ phase[s] \in {"model", "tokenizer"} /\ (To(s, "tokenizer") \/ To(s, "recheck"))
              /\ loaded' = [loaded EXCEPT ![s] = @ \cup {pointer}]
           \/ phase[s] = "recheck" /\ To(s, "up") /\ loaded' = loaded
        /\ ready' = ready \/ ready' = [ready EXCEPT ![s] = TRUE]
        /\ UNCHANGED <<hosted, required, generation, interrupted, seal, lockVars, callVars>>
        /\ Untouched
    <3>1. CASE Compare(s)
      BY <1>2, <3>1 DEF Compare
    <3>2. CASE LoadModel(s)
      BY <1>2, <3>2 DEF LoadModel
    <3>3. CASE Recheck(s)
      BY <1>2, <3>3 DEF Recheck
    <3> QED
      BY <3>1, <3>2, <3>3
  <2>2. pointer' = pointer /\ pointer \in PointerVals
    BY <2>1 DEF Untouched, diskVars, ServerInv, StoreInv, TypeInv, TypeOK
  <2>3. readers' \subseteq Descriptors /\ (readers' # {} => writer = Nobody)
    BY <2>1 DEF lockVars, ServerInv, Shared, StoreInv, TypeInv, TypeOK
  <2>4. ServerTypes' /\ SealsAre'
    <3>1. phase' \in [Servers -> Phases]
      BY <2>1 DEF ServerInv, ServerTypes, Phases, To
    <3>2. loaded' \in [Servers -> SUBSET PointerVals]
      BY <2>1, <2>2 DEF ServerInv, ServerTypes
    <3>3. ready' \in [Servers -> BOOLEAN]
      BY <2>1 DEF ServerInv, ServerTypes
    <3> QED
      BY <2>1, <3>1, <3>2, <3>3 DEF ServerInv, ServerTypes, SealsAre, StoreInv, TypeInv, TypeOK,
                                    callVars
  <2>5. /\ \A r \in Servers \ {s} : phase'[r] = phase[r] /\ loaded'[r] = loaded[r]
        /\ loaded'[s] \in {loaded[s], loaded[s] \cup {pointer}}
        /\ phase'[s] \in {"model", "tokenizer", "recheck", "up"} /\ phase[s] # "up"
        /\ phase'[s] = "model" => phase[s] = "compare" /\ loaded'[s] = loaded[s]
    BY <2>1 DEF ServerInv, ServerTypes, To
  <2>6. Bound(s)'
    <3>1. Bound(s)
      BY DEF ServerInv
    <3>2. Owns(s)' = Owns(s)
      BY <2>1 DEF Owns, SealedOwn
    <3>3. hosted'[s] => required'[s] = generation'[s]
      BY <2>1, <3>1 DEF Bound, Described
    <3>4. Owns(s)' => loaded'[s] \subseteq {generation'[s]} \/ interrupted'[s]
      BY <2>1, <2>5, <3>1, <3>2 DEF Bound
    <3>5. phase'[s] = "model" => loaded'[s] = {}
      BY <2>5, <3>1 DEF Bound
    <3> QED
      BY <2>1, <2>2, <2>5, <3>1, <3>2, <3>3, <3>4, <3>5 DEF Bound, Unsealed
  <2> QED
    BY <2>1, <2>3, <2>4, <2>5, <2>6, NoCallsYet, ServerKeeps DEF callVars, lockVars
<1> QED
  BY <1>1, <1>2

-----------------------------------------------------------------------------
(* The steps of the store, and the invariant *)

\* A seal on the generation of a server that is still intact although the server was
\* interrupted does not come to be on the active generation: the command that switches back has
\* touched that generation first.
LEMMA BoundThroughStep ==
  ASSUME ServerInv, StoreStep, NEW s \in Servers
  PROVE  Bound(s)'
<1>1. Lifecycle /\ StoreInv /\ Bound(s)
  BY DEF StoreStep, Lifecycle, ServerInv
<1>2. /\ UNCHANGED <<phase, hosted, required, generation, loaded>>
      /\ interrupted'[s] = (interrupted[s] \/ (seal[s] # NoSeal /\ pointer' # generation[s]))
  BY DEF StoreStep
<1>3. /\ seal'[s].key = seal[s].key
      /\ seal'[s].intact => seal[s].intact
      /\ seal[s].key = NoGeneration => seal'[s] = seal[s]
  BY <1>1, LifecycleTouches
<1>4. Owns(s)' = Owns(s) /\ (Owns(s) => seal[s] # NoSeal)
  <2>1. NoSeal.key = NoGeneration
    BY DEF NoSeal
  <2>2. generation' = generation
    BY <1>2
  <2> QED
    BY <1>3, <2>1, <2>2 DEF Owns, SealedOwn
<1>5. seal[s] = NoSeal => seal'[s] = NoSeal /\ (interrupted'[s] => interrupted[s])
  <2>1. NoSeal.key = NoGeneration
    BY DEF NoSeal
  <2> QED
    BY <1>2, <1>3, <2>1
<1>6. Owns(s) /\ seal'[s].intact /\ interrupted'[s] => pointer' # generation[s]
  <2> SUFFICES ASSUME Owns(s), seal[s].intact, interrupted[s], pointer' = generation[s]
               PROVE  FALSE
    BY <1>2, <1>3
  <2>1. pointer # generation[s] /\ generation[s] # NoGeneration /\ seal[s].key = generation[s]
    BY <1>1 DEF Bound, Owns, SealedOwn
  <2>2. PICK a \in Admins : pc[a] = "point" /\ pointer' = target[a]
    BY <1>1, <2>1, LifecycleWaits
  <2>3. pointer = target[a]
    BY <2>1, <2>2 DEF ServerInv, TouchedFirst, Switching
  <2> QED
    BY <2>1, <2>2, <2>3
<1>7. Owns(s) => pointer' = generation[s] \/ interrupted'[s]
  BY <1>2, <1>4
<1>8. /\ phase'[s] = "down" => seal'[s] = NoSeal
      /\ phase'[s] \in Unsealed => seal'[s] = NoSeal /\ ~interrupted'[s]
      /\ seal'[s].key = NoGeneration => ~seal'[s].intact
  BY <1>1, <1>2, <1>3, <1>5 DEF Bound
<1> QED
  BY <1>1, <1>2, <1>4, <1>6, <1>7, <1>8 DEF Bound

LEMMA StoreStepKeeps ==
  ASSUME OrderedJournal, ServerInv, StoreStep
  PROVE  ServerInv'
<1>1. Lifecycle /\ StoreInv
  BY DEF StoreStep, Lifecycle, ServerInv
<1>2. StoreInv'
  BY <1>1, LifecycleKeepsStore
<1>3. UNCHANGED <<phase, hosted, required, generation, loaded, ready, callVars>>
  BY DEF StoreStep
<1>4. ServerTypes'
  BY <1>3 DEF StoreStep, ServerInv, ServerTypes, callVars
<1>5. /\ readers' = readers
      /\ readers # {} => writer' = Nobody /\ pointer' = pointer
  BY <1>1, LifecycleWaits DEF ServerInv, Shared
<1>6. Shared'
  BY <1>3, <1>5 DEF ServerInv, Shared, callVars
<1>7. TouchedFirst'
  <2> SUFFICES ASSUME NEW a \in Admins, NEW s \in Servers, Switching(a)', seal'[s].intact,
                      seal'[s].key = target'[a]
               PROVE  pointer' = target'[a]
    BY DEF TouchedFirst
  <2>1. seal'[s].key = seal[s].key /\ seal[s].intact
    BY <1>1, LifecycleTouches
  <2>2. CASE Switching(a) /\ UNCHANGED <<target[a], pointer>>
    BY <2>1, <2>2 DEF ServerInv, TouchedFirst
  <2>3. CASE Touch(target[a]) /\ target'[a] = target[a]
    <3>1. ~seal'[s].intact
      BY <1>1, <2>1, <2>3 DEF Touch, StoreInv, TypeInv, TypeOK
    <3> QED
      BY <3>1
  <2> QED
    BY <1>1, <2>2, <2>3, SwitchesAfterTouch
<1>8. ASSUME NEW t \in Threads, call[t] \in Ensured
      PROVE  pointer' = pointer /\ pointer = generation[Owner[t]]
  <2>1. <<t, "call">> \in readers
    BY <1>8 DEF ServerInv, Shared, Reading
  <2> QED
    BY <1>5, <1>8, <2>1 DEF ServerInv, SeenOne
<1>9. Uninterrupted'
  <2> SUFFICES ASSUME NEW t \in Threads, call'[t] \in Ensured, Owns(Owner[t])'
               PROVE  ~interrupted'[Owner[t]]
    BY DEF Uninterrupted
  <2>1. Owner[t] \in Servers
    BY ServerConstants
  <2>2. Owns(Owner[t])
    BY <1>1, <1>3, <2>1, LifecycleTouches DEF Owns, SealedOwn
  <2> QED
    BY <1>3, <1>8, <2>1, <2>2 DEF StoreStep, ServerInv, Uninterrupted, callVars
<1>10. ASSUME NEW t \in Threads
       PROVE  SeenOne(t)'
  <2>1. SeenOne(t)
    BY DEF ServerInv
  <2> QED
    BY <1>3, <1>8, <2>1 DEF SeenOne, callVars
<1>11. \A s \in Servers : Bound(s)'
  BY BoundThroughStep
<1> QED
  BY <1>2, <1>4, <1>6, <1>7, <1>9, <1>10, <1>11 DEF ServerInv

LEMMA BlackoutKeeps ==
  ASSUME OrderedJournal, ServerInv, Blackout
  PROVE  ServerInv'
<1>1. StoreInv'
  BY LifecycleKeepsStore DEF Blackout, ServerInv
<1>2. /\ \A s \in Servers : phase'[s] = "down" /\ seal'[s] = NoSeal
      /\ \A t \in Threads : call'[t] = "idle"
      /\ readers' = {}
  BY DEF Blackout, PowerLoss
<1>3. ServerTypes'
  BY DEF Blackout, ServerInv, ServerTypes, Phases, Steps
<1>4. Shared' /\ TouchedFirst' /\ Uninterrupted' /\ \A t \in Threads : SeenOne(t)'
  BY <1>2 DEF Shared, TouchedFirst, Uninterrupted, SeenOne, Ensured, Reading, NoSeal
<1>5. \A s \in Servers : ~Owns(s)' /\ ~seal'[s].intact /\ phase'[s] \notin Unsealed \cup Described
  BY <1>2 DEF Owns, Unsealed, Described, NoSeal
<1>6. \A s \in Servers : Bound(s)'
  BY <1>2, <1>5 DEF Bound
<1> QED
  BY <1>1, <1>3, <1>4, <1>6 DEF ServerInv

LEMMA ServerStep == OrderedJournal /\ ServerInv /\ [ServerNext]_vars => ServerInv'
<1> SUFFICES ASSUME OrderedJournal, ServerInv, [ServerNext]_vars
             PROVE  ServerInv'
  OBVIOUS
<1>1. CASE StoreStep \/ Blackout
  BY <1>1, StoreStepKeeps, BlackoutKeeps
<1>2. ASSUME NEW s \in Servers, StartServer(s) \/ Startup(s) \/ Crash(s)
      PROVE  ServerInv'
  BY <1>2, ExitKeeps, StartServerKeeps, VerifyKeeps, CaptureKeeps, ComeUpKeeps DEF Startup, Crash
<1>3. ASSUME NEW t \in Threads, BeginCall(t) \/ CallStep(t)
      PROVE  ServerInv'
  BY <1>3, CallStepKeeps
<1>4. CASE UNCHANGED vars
  <2>1. /\ UNCHANGED storeVars /\ UNCHANGED <<pointer, readers, writer, pc, op, target, seal>>
        /\ UNCHANGED <<phase, hosted, required, generation, loaded, ready, interrupted, call, kind,
                       seen>>
    BY <1>4 DEF vars, serverVars, callVars, storeVars, diskVars, lockVars, commandVars
  <2>2. StoreInv'
    BY <2>1, TypeStep, StoreInvStep DEF ServerInv, StoreInv
  <2>3. ServerTypes' /\ Shared' /\ TouchedFirst' /\ Uninterrupted'
    BY <2>1 DEF ServerInv, ServerTypes, Shared, TouchedFirst, Switching, Uninterrupted, Owns,
                SealedOwn
  <2>4. \A t \in Threads : SeenOne(t)'
    BY <2>1 DEF ServerInv, SeenOne
  <2>5. \A s \in Servers : Bound(s)'
    BY <2>1 DEF ServerInv, Bound, Owns, SealedOwn
  <2> QED
    BY <2>2, <2>3, <2>4, <2>5 DEF ServerInv
<1> QED
  BY <1>1, <1>2, <1>3, <1>4 DEF ServerNext

LEMMA ServerStart == ServerInit => ServerInv
<1> SUFFICES ASSUME ServerInit
             PROVE  ServerInv
  OBVIOUS
<1>1. StoreInv
  BY StoreStart DEF ServerInit
<1>2. /\ \A s \in Servers : phase[s] = "down" /\ seal[s] = NoSeal
      /\ \A t \in Threads : call[t] = "idle"
      /\ readers = {}
  BY DEF ServerInit, Init
<1>3. ServerTypes
  BY DEF ServerInit, ServerTypes, Phases, Steps, PointerVals
<1>4. Shared /\ TouchedFirst /\ Uninterrupted /\ \A t \in Threads : SeenOne(t)
  BY <1>2 DEF Shared, TouchedFirst, Uninterrupted, SeenOne, Ensured, Reading, NoSeal
<1>5. \A s \in Servers : ~Owns(s) /\ ~seal[s].intact /\ phase[s] \notin Unsealed \cup Described
  BY <1>2 DEF Owns, Unsealed, Described, NoSeal
<1>6. \A s \in Servers : Bound(s)
  BY <1>2, <1>5 DEF Bound
<1> QED
  BY <1>1, <1>3, <1>4, <1>6 DEF ServerInv

LEMMA ServerInvHolds == ASSUME OrderedJournal PROVE ServerSpec => []ServerInv
<1>1. ServerInit => ServerInv
  BY ServerStart
<1>2. ServerInv /\ [ServerNext]_vars => ServerInv'
  BY ServerStep
<1> QED
  BY <1>1, <1>2, PTL DEF ServerSpec

-----------------------------------------------------------------------------
(* What is concluded about the answers *)

\* A call that is about to answer has seen its server's generation and no other, and that one is
\* installed and sealed: the store's promise, under the lock the call has held since it checked.
THEOREM AnswersAreCoherent == ASSUME OrderedJournal PROVE ServerSpec => []AnswersCoherent
<1>1. ServerInv => AnswersCoherent
  <2> SUFFICES ASSUME ServerInv, NEW t \in Threads, call[t] = "answer"
               PROVE  LET g == generation[Owner[t]]
                      IN  seen[t] = {g} /\ installed[g] = g /\ g \in sealed
    BY DEF AnswersCoherent, Answering
  <2>1. /\ seen[t] = {generation[Owner[t]]} /\ generation[Owner[t]] # NoGeneration
        /\ pointer = generation[Owner[t]]
    BY DEF ServerInv, SeenOne, Ensured
  <2>2. Servable(Now)
    BY DEF ServerInv, StoreInv, Sound
  <2> QED
    BY <2>1, <2>2 DEF Servable, Now, Disk
<1> QED
  BY <1>1, ServerInvHolds, PTL

\* A hosted server answers from the generation it verified and described to its clients.
THEOREM InstructionsMatch == ASSUME OrderedJournal PROVE ServerSpec => []HostedInstructionsMatch
<1>1. ServerInv => HostedInstructionsMatch
  <2> SUFFICES ASSUME ServerInv, NEW t \in Threads, call[t] = "answer", hosted[Owner[t]]
               PROVE  required[Owner[t]] = generation[Owner[t]]
    BY DEF HostedInstructionsMatch, Answering
  <2>1. phase[Owner[t]] = "up" /\ Owner[t] \in Servers
    BY CallsOpen, ServerConstants
  <2> QED
    BY <2>1 DEF ServerInv, Bound, Described
<1> QED
  BY <1>1, ServerInvHolds, PTL

\* A call about to answer has a generation, so that a seal on it is not the empty one.
LEMMA AnswersOwn ==
  ASSUME ServerInv, NEW t \in Threads, call[t] = "answer", SealedOwn(Owner[t])
  PROVE  Owns(Owner[t]) /\ ~interrupted[Owner[t]] /\ Owner[t] \in Servers
<1>1. generation[Owner[t]] # NoGeneration
  BY DEF ServerInv, SeenOne
<1>2. Owns(Owner[t])
  BY <1>1 DEF Owns, SealedOwn
<1> QED
  BY <1>2, ServerConstants DEF ServerInv, Uninterrupted, Ensured

\* A search is answered with the model and the tokenizer of the generation it reads, although
\* both were loaded outside the lock.
THEOREM ModelIsCoherent == ASSUME OrderedJournal PROVE ServerSpec => []ModelCoherent
<1>1. ServerInv => ModelCoherent
  <2> SUFFICES ASSUME ServerInv, NEW t \in Threads, call[t] = "answer", kind[t] = "search",
                      SealedOwn(Owner[t])
               PROVE  loaded[Owner[t]] = {generation[Owner[t]]}
    BY DEF ModelCoherent, Answering
  <2>1. loaded[Owner[t]] # {}
    BY DEF ServerInv, SeenOne
  <2>2. loaded[Owner[t]] \subseteq {generation[Owner[t]]}
    BY AnswersOwn DEF ServerInv, Bound
  <2> QED
    BY <2>1, <2>2
<1> QED
  BY <1>1, ServerInvHolds, PTL

\* A server whose generation was switched away from never answers again, not even once a
\* rollback has made it the active one again.
THEOREM InterruptedStaysSilent ==
  ASSUME OrderedJournal PROVE ServerSpec => []NoAnswerAfterInterruption
<1>1. ServerInv => NoAnswerAfterInterruption
  BY AnswersOwn DEF NoAnswerAfterInterruption, Answering
<1> QED
  BY <1>1, ServerInvHolds, PTL

\* Whatever the servers and their calls do, the store they read from stays the register of
\* ActiveGeneration: none of their steps, ends or crashes touches what it promises.
THEOREM StoreKeepsPromiseWithServers ==
  ASSUME OrderedJournal PROVE ServerSpec => ImplementsPromise
<1>1. ServerInit => Promise!Start
  BY PromiseStart DEF ServerInit
<1>2. ASSUME ServerInv, ServerInv', [ServerNext]_vars
      PROVE  [Promise!Step]_(Promise!abstractVars)
  <2>1. CASE StoreStep \/ Blackout
    <3>1. [Next]_storeVars
      BY <2>1 DEF StoreStep, Blackout, Next, StoreNext
    <3> QED
      BY <1>2, <3>1, PromiseStep DEF ServerInv
  <2>2. CASE UNCHANGED diskVars
    BY <2>2, Stutters DEF diskVars
  <2>3. ASSUME NEW s \in Servers, StartServer(s) \/ Startup(s) \/ Crash(s)
        PROVE  UNCHANGED diskVars
    BY <2>3 DEF StartServer, Startup, Crash, VerifyLock, Verify, CaptureGeneration,
                CaptureDatabase, Compare, LoadModel, Recheck, Exit, Untouched
  <2>4. ASSUME NEW t \in Threads, BeginCall(t) \/ CallStep(t)
        PROVE  UNCHANGED diskVars
    BY <2>4 DEF BeginCall, CallStep, TakeReadLock, Ensure, Resolve, Read, Encode, Answer, EndCall,
                Untouched
  <2> QED
    BY <1>2, <2>1, <2>2, <2>3, <2>4 DEF ServerNext, vars, storeVars
<1> QED
  BY <1>1, <1>2, ServerInvHolds, PTL DEF ServerSpec, ImplementsPromise, Promise!ActiveSpec
=============================================================================
