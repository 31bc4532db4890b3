-------------------------- MODULE GenerationStore --------------------------
(***************************************************************************)
(* The corpus generations under <data>/generations/ and the pointer file   *)
(* lifecycle/active-generation, as the commands `activate`, `rollback`,    *)
(* `deactivate` and `prune-generations` change them: every lock, check,    *)
(* rename, directory sync and early return, with a process kill possible   *)
(* between any two steps and a power loss at any time.                     *)
(*                                                                         *)
(* A generation is named by the hash of its content, so a directory tree   *)
(* is modelled by the key its content hashes to, or Damaged when it fails  *)
(* validation, or Absent.                                                  *)
(***************************************************************************)
EXTENDS Naturals, FiniteSets

CONSTANTS
  Keys,            \* generation keys
  Paths,           \* directories a builder leaves candidate generations in
  Admins,          \* operator processes running lifecycle commands
  Servers,         \* processes holding a LiveDbSeal on an installed legal.db
  Descriptors,     \* open file descriptions that may hold LOCK shared
  MaxCommands,     \* bound: lifecycle commands issued in a behaviour
  OrderedJournal,  \* TRUE: a power loss keeps a prefix of the metadata updates
  Absent, Damaged, NoGeneration, Nobody

ASSUME StoreConstants ==
  /\ {Absent, Damaged, NoGeneration} \cap Keys = {}
  /\ Cardinality({Absent, Damaged, NoGeneration}) = 3
  /\ Nobody \notin Admins
  /\ MaxCommands \in Nat
  /\ OrderedJournal \in BOOLEAN

VARIABLES
  staged,        \* what lies at each builder path
  stagedSealed,  \* builder paths whose tree has been made read-only
  installed,     \* what lies at generations/<key>
  sealed,        \* installed keys whose whole tree is read-only
  pointer,       \* lifecycle/active-generation as processes see it
  survivors,     \* the states of the three above a power loss may leave
  lifecycle,     \* holder of LIFECYCLE_LOCK
  writer,        \* exclusive holder of LOCK
  readers,       \* shared holders of LOCK
  seal,          \* per server: the legal.db it sealed, and whether it is intact
  issued,        \* commands issued so far (bounded by MaxCommands)
  pc,            \* per admin: next step of its command, or how the last one ended
  op, path,      \* its command, and the directory an activation was given
  target,        \* the key required (before validation) or being switched to
  durable,       \* whether both directory syncs after the rename succeeded
  doomed         \* generations a prune has still to remove

diskVars    == <<staged, stagedSealed, installed, sealed, pointer, survivors>>
lockVars    == <<lifecycle, writer, readers>>
commandVars == <<op, path, target, durable, doomed>>
storeVars   == <<diskVars, lockVars, seal, issued, pc, commandVars>>

Trees       == Keys \cup {Damaged, Absent}
PointerVals == Keys \cup {NoGeneration}
DiskStates  == [tree : [Keys -> Trees], sealed : SUBSET Keys, pointer : PointerVals]
Operations  == {"activate", "rollback", "deactivate", "prune"}
Finished    == {"idle", "ok", "failed"}
NoSeal      == [key |-> NoGeneration, intact |-> FALSE]

\* Steps at which a command holds LIFECYCLE_LOCK, and LOCK as well.
CorpusSteps    == {"commit", "rename", "syncRename", "reseal", "point", "syncPointer",
                   "resyncPointer", "clear", "syncClear", "check", "prune",
                   "remove"}
LifecycleSteps == CorpusSteps \cup {"validate", "seal", "confirm", "protect", "corpus"}

-----------------------------------------------------------------------------
(* Durability.  `survivors` holds every state the disk may be in after a    *)
(* power loss.  An update adds states; a directory sync discards them.  On  *)
(* an ordered journal those states are the ones the disk went through since *)
(* the last sync; otherwise each directory keeps or loses its own updates.  *)

Disk(tree, readOnly, ptr) == [tree |-> tree, sealed |-> readOnly, pointer |-> ptr]

UpdateTree(k, content, readOnly) ==
  /\ installed' = [installed EXCEPT ![k] = content]
  /\ sealed' = readOnly
  /\ survivors' = survivors \cup
       IF OrderedJournal
       THEN {Disk(installed', readOnly, pointer)}
       ELSE {[s EXCEPT !.tree[k] = content, !.sealed = readOnly] : s \in survivors}

UpdatePointer(value) ==
  /\ pointer' = value
  /\ survivors' = survivors \cup
       IF OrderedJournal
       THEN {Disk(installed, sealed, value)}
       ELSE {[s EXCEPT !.pointer = value] : s \in survivors}

\* set_generation_read_only over the whole tree, root included.
Protected(k) ==
  /\ sealed' = sealed \cup {k}
  /\ survivors' = IF OrderedJournal
                  THEN survivors \cup {Disk(installed, sealed \cup {k}, pointer)}
                  ELSE {[s EXCEPT !.sealed = sealed \cup {k}] : s \in survivors}

SyncGenerations ==
  survivors' = IF OrderedJournal THEN {Disk(installed, sealed, pointer)}
               ELSE {[s EXCEPT !.tree = installed] : s \in survivors}

SyncLifecycle ==
  survivors' = IF OrderedJournal THEN {Disk(installed, sealed, pointer)}
               ELSE {[s EXCEPT !.pointer = pointer] : s \in survivors}

-----------------------------------------------------------------------------
(* config::active_generation_key fails on a pointer whose directory is gone. *)
Dangling == pointer # NoGeneration /\ installed[pointer] = Absent

\* The key live_dir() resolves to, when it resolves.
Resolves == pointer # NoGeneration /\ installed[pointer] # Absent

\* A mutation: the change time is not part of the sealed stamp.
TouchUnnoticed(k) == UNCHANGED seal

\* chmod over a tree moves legal.db's ctime, which every seal on it compares.
Touch(k) ==
  seal' = [s \in Servers |-> IF seal[s].key = k THEN [seal[s] EXCEPT !.intact = FALSE]
                                                ELSE seal[s]]

Goto(a, step) == pc' = [pc EXCEPT ![a] = step]

\* A mutation: the process keeps LOCK when it returns.
ReturnHoldingCorpus(a, outcome) ==
  /\ Goto(a, outcome)
  /\ lifecycle' = IF lifecycle = a THEN Nobody ELSE lifecycle
  /\ UNCHANGED <<writer, readers>>

\* A command returns: both locks it may hold are unlocked or closed.
Return(a, outcome) ==
  /\ Goto(a, outcome)
  /\ lifecycle' = IF lifecycle = a THEN Nobody ELSE lifecycle
  /\ writer' = IF writer = a THEN Nobody ELSE writer
  /\ UNCHANGED readers

\* An early return with an error that leaves the disk as it is.
Fail(a) ==
  /\ Return(a, "failed")
  /\ UNCHANGED <<diskVars, seal, issued, commandVars>>
-----------------------------------------------------------------------------
(* Issuing a command and taking its locks.                                  *)

\* `activate` names a directory and may name the key it must hold;
\* `rollback` and `deactivate` name a key; `prune` names none.
Issue(a) ==
  /\ pc[a] \in Finished
  /\ issued < MaxCommands
  /\ issued' = issued + 1
  /\ Goto(a, "start")
  /\ \E o \in Operations, p \in Paths, k \in PointerVals :
       /\ o \in {"rollback", "deactivate"} => k \in Keys
       /\ o = "prune" => k = NoGeneration
       /\ op' = [op EXCEPT ![a] = o]
       /\ path' = [path EXCEPT ![a] = p]
       /\ target' = [target EXCEPT ![a] = k]
  /\ durable' = [durable EXCEPT ![a] = FALSE]
  /\ doomed' = [doomed EXCEPT ![a] = {}]
  /\ UNCHANGED <<diskVars, lockVars, seal>>

TakeLifecycle(a) ==
  /\ pc[a] = "start"
  /\ lifecycle = Nobody
  /\ lifecycle' = a
  /\ Goto(a, CASE op[a] = "activate" -> "validate"
               [] op[a] = "rollback" -> "confirm"
               [] OTHER              -> "corpus")
  /\ UNCHANGED <<diskVars, writer, readers, seal, issued, commandVars>>

TakeCorpus(a) ==
  /\ pc[a] = "corpus"
  /\ writer = Nobody
  /\ readers = {}
  /\ writer' = a
  /\ Goto(a, CASE op[a] = "activate"   -> "commit"
               [] op[a] = "rollback"   -> "point"
               [] op[a] = "deactivate" -> "clear"
               [] op[a] = "prune"      -> "check")
  /\ UNCHANGED <<diskVars, lifecycle, readers, seal, issued, commandVars>>

-----------------------------------------------------------------------------
(* activate                                                                 *)

Validate(a) ==
  /\ pc[a] = "validate"
  /\ LET found == staged[path[a]]
     IN  IF found \in Keys /\ target[a] \in {NoGeneration, found}
         THEN /\ Goto(a, "seal")
              /\ target' = [target EXCEPT ![a] = found]
              /\ UNCHANGED <<diskVars, lockVars, seal, issued, op, path, durable, doomed>>
         ELSE Fail(a)

\* A mutation: the sealed tree is not validated again.
SealStagedUnchecked(a) ==
  /\ pc[a] = "seal"
  /\ stagedSealed' = stagedSealed \cup {path[a]}
  /\ Goto(a, "corpus")
  /\ UNCHANGED <<staged, installed, sealed, pointer, survivors, lockVars, seal, issued,
                 commandVars>>

\* Sealing the tree, then revalidating it: a builder may have rewritten it
\* since Validate, and cannot any more.
SealStaged(a) ==
  /\ pc[a] = "seal"
  /\ stagedSealed' = IF staged[path[a]] = Absent THEN stagedSealed
                                                 ELSE stagedSealed \cup {path[a]}
  /\ IF staged[path[a]] = target[a]
     THEN Goto(a, "corpus") /\ UNCHANGED lockVars
     ELSE Return(a, "failed")
  /\ UNCHANGED <<staged, installed, sealed, pointer, survivors, seal, issued, commandVars>>

\* An installed directory of this key is either the active one (nothing to do)
\* or a collision the command refuses to overwrite.
Commit(a) ==
  /\ pc[a] = "commit"
  /\ IF Dangling THEN Fail(a)
     ELSE IF installed[target[a]] = Absent
     THEN Goto(a, "rename") /\ UNCHANGED <<diskVars, lockVars, seal, issued, commandVars>>
     ELSE /\ Return(a, IF pointer = target[a] THEN "ok" ELSE "failed")
          /\ UNCHANGED <<diskVars, seal, issued, commandVars>>

Rename(a) ==
  /\ pc[a] = "rename"
  /\ UpdateTree(target[a], staged[path[a]], sealed)
  /\ staged' = [staged EXCEPT ![path[a]] = Absent]
  /\ stagedSealed' = stagedSealed \ {path[a]}
  /\ Goto(a, "syncRename")
  /\ UNCHANGED <<pointer, lockVars, seal, issued, commandVars>>

\* The rename fails (another filesystem, an I/O error): the source is resealed.
RenameFails(a) == pc[a] = "rename" /\ Fail(a)

SyncRename(a) ==
  /\ pc[a] = "syncRename"
  /\ Goto(a, "reseal")
  /\ \/ SyncGenerations /\ durable' = [durable EXCEPT ![a] = TRUE]
     \/ UNCHANGED <<survivors, durable>>
  /\ UNCHANGED <<staged, stagedSealed, installed, sealed, pointer, lockVars, seal, issued,
                 op, path, target, doomed>>

\* Resealing and revalidating the installed tree; only then is an unconfirmed
\* rename reported.
Reseal(a) ==
  /\ pc[a] = "reseal"
  /\ Protected(target[a])
  /\ Touch(target[a])
  /\ IF installed[target[a]] = target[a] /\ durable[a]
     THEN Goto(a, "point") /\ UNCHANGED lockVars
     ELSE Return(a, "failed")
  /\ UNCHANGED <<staged, stagedSealed, installed, pointer, issued, commandVars>>

-----------------------------------------------------------------------------
(* Switching the pointer, for activate and rollback.                        *)

Point(a) ==
  /\ pc[a] = "point"
  /\ installed[target[a]] # Absent
  /\ UpdatePointer(target[a])
  /\ Goto(a, "syncPointer")
  /\ UNCHANGED <<staged, stagedSealed, installed, sealed, lockVars, seal, issued, commandVars>>

\* The directory is missing, or the temporary file cannot be written.
PointFails(a) == pc[a] = "point" /\ Fail(a)

\* A mutation: the result of the directory sync is ignored.
SyncPointerIgnored(a) ==
  /\ pc[a] = "syncPointer"
  /\ SyncLifecycle \/ UNCHANGED survivors
  /\ Return(a, "ok")
  /\ UNCHANGED <<staged, stagedSealed, installed, sealed, pointer, seal, issued, commandVars>>

\* atomic_write syncs the directory after its rename.  When that fails,
\* activate finds its own key in the pointer and syncs once more.
SyncPointer(a) ==
  /\ pc[a] \in {"syncPointer", "resyncPointer"}
  /\ \/ SyncLifecycle /\ Return(a, "ok")
     \/ /\ UNCHANGED survivors
        /\ IF op[a] = "activate" /\ pc[a] = "syncPointer"
           THEN Goto(a, "resyncPointer") /\ UNCHANGED lockVars
           ELSE Return(a, "failed")
  /\ UNCHANGED <<staged, stagedSealed, installed, sealed, pointer, seal, issued, commandVars>>

-----------------------------------------------------------------------------
(* rollback: validate, seal, then take LOCK only for the switch.            *)

Confirm(a) ==
  /\ pc[a] = "confirm"
  /\ IF ~Dangling /\ installed[target[a]] = target[a]
     THEN Goto(a, "protect") /\ UNCHANGED <<diskVars, lockVars, seal, issued, commandVars>>
     ELSE Fail(a)

\* A mutation: an installed tree is taken to be read-only already.
ProtectSkipped(a) ==
  /\ pc[a] = "protect"
  /\ Goto(a, "corpus")
  /\ UNCHANGED <<diskVars, lockVars, seal, issued, commandVars>>

Protect(a) ==
  /\ pc[a] = "protect"
  /\ Protected(target[a])
  /\ Touch(target[a])
  /\ Goto(a, "corpus")
  /\ UNCHANGED <<staged, stagedSealed, installed, pointer, lockVars, issued, commandVars>>

-----------------------------------------------------------------------------
(* deactivate                                                               *)

Clear(a) ==
  /\ pc[a] = "clear"
  /\ IF ~Dangling /\ pointer = target[a]
     THEN /\ UpdatePointer(NoGeneration)
          /\ Goto(a, "syncClear")
          /\ UNCHANGED <<staged, stagedSealed, installed, sealed, lockVars, seal, issued,
                         commandVars>>
     ELSE Fail(a)

SyncClear(a) ==
  /\ pc[a] = "syncClear"
  /\ \/ SyncLifecycle /\ Return(a, "ok")
     \/ UNCHANGED survivors /\ Return(a, "failed")
  /\ UNCHANGED <<staged, stagedSealed, installed, sealed, pointer, seal, issued, commandVars>>

-----------------------------------------------------------------------------
(* prune-generations                                                        *)

\* A mutation: the active generation is a candidate too.
InactiveOrActive == {k \in Keys : installed[k] # Absent}

Inactive == {k \in Keys \ {pointer} : installed[k] # Absent}

\* The most recently modified `keep` directories are skipped: with `keep` and
\* the modification times free, any subset of the inactive ones may go.
Check(a) ==
  /\ pc[a] = "check"
  /\ IF Resolves /\ installed[pointer] = pointer /\ pointer \in sealed
     THEN /\ \E victims \in SUBSET Inactive : doomed' = [doomed EXCEPT ![a] = victims]
          /\ Goto(a, "prune")
          /\ UNCHANGED <<diskVars, lockVars, seal, issued, op, path, target, durable>>
     ELSE Fail(a)

\* set_generation_owner_writable and the first unlinks of remove_dir_all.
StartRemoval(a) ==
  /\ pc[a] = "prune"
  /\ \E k \in doomed[a] :
       /\ target' = [target EXCEPT ![a] = k]
       /\ UpdateTree(k, Damaged, sealed \ {k})
       /\ Touch(k)
  /\ Goto(a, "remove")
  /\ UNCHANGED <<staged, stagedSealed, pointer, lockVars, issued, op, path, durable, doomed>>

FinishRemoval(a) ==
  /\ pc[a] = "remove"
  /\ UpdateTree(target[a], Absent, sealed)
  /\ doomed' = [doomed EXCEPT ![a] = @ \ {target[a]}]
  /\ Goto(a, "prune")
  /\ UNCHANGED <<staged, stagedSealed, pointer, lockVars, seal, issued, op, path, target, durable>>

RemovalFails(a) == pc[a] = "remove" /\ Fail(a)

SyncPrune(a) ==
  /\ pc[a] = "prune"
  /\ doomed[a] = {}
  /\ \/ SyncGenerations /\ Return(a, "ok")
     \/ UNCHANGED survivors /\ Return(a, "failed")
  /\ UNCHANGED <<staged, stagedSealed, installed, sealed, pointer, seal, issued, commandVars>>

-----------------------------------------------------------------------------
(* The environment: builders, crashes, processes reading the corpus.        *)

\* A builder (re)writes or removes its directory, sealed trees excepted.
Build(p) ==
  /\ p \notin stagedSealed
  /\ \E content \in Trees \ {staged[p]} : staged' = [staged EXCEPT ![p] = content]
  /\ UNCHANGED <<stagedSealed, installed, sealed, pointer, survivors, lockVars, seal, issued,
                 pc, commandVars>>

\* The kernel closes the descriptors of a killed process and so its locks.
Kill(a) ==
  /\ pc[a] \notin Finished
  /\ Return(a, "idle")
  /\ UNCHANGED <<diskVars, seal, issued, commandVars>>

\* Every process is gone; the disk is one of the states it may be left in.
PowerLoss ==
  /\ \E s \in survivors :
       /\ installed' = s.tree
       /\ pointer' = s.pointer
       /\ survivors' = {s}
       /\ sealed' = s.sealed
  /\ lifecycle' = Nobody
  /\ writer' = Nobody
  /\ readers' = {}
  /\ seal' = [s \in Servers |-> NoSeal]
  /\ pc' = [a \in Admins |-> IF pc[a] \in Finished THEN pc[a] ELSE "idle"]
  /\ UNCHANGED <<staged, stagedSealed, issued, commandVars>>

\* corpus_read_lock and its release, and LiveDbSeal::capture_path: the steps
\* through which a reader touches the store.
LockShared(d) ==
  /\ writer = Nobody
  /\ d \notin readers
  /\ readers' = readers \cup {d}
  /\ UNCHANGED <<lifecycle, writer>>

UnlockShared(D) ==
  /\ readers' = readers \ D
  /\ UNCHANGED <<lifecycle, writer>>

CaptureSeal(s) ==
  seal' = [seal EXCEPT ![s] = IF Resolves THEN [key |-> pointer, intact |-> TRUE] ELSE NoSeal]

\* A reader in its simplest form, `legal-mcp verify`: it holds LOCK shared
\* while it looks at the active generation.
ReadBegins(d) == LockShared(d) /\ UNCHANGED <<diskVars, seal, issued, pc, commandVars>>
ReadEnds(d) ==
  /\ d \in readers
  /\ UnlockShared({d})
  /\ UNCHANGED <<diskVars, seal, issued, pc, commandVars>>

-----------------------------------------------------------------------------
Init ==
  /\ staged \in [Paths -> {Absent}]
  /\ stagedSealed = {}
  /\ installed = [k \in Keys |-> Absent]
  /\ sealed = {}
  /\ pointer = NoGeneration
  /\ survivors = {Disk(installed, sealed, pointer)}
  /\ lifecycle = Nobody /\ writer = Nobody /\ readers = {}
  /\ seal = [s \in Servers |-> NoSeal]
  /\ issued = 0
  /\ pc = [a \in Admins |-> "idle"]
  /\ op = [a \in Admins |-> "prune"]
  /\ path \in [Admins -> Paths]
  /\ target = [a \in Admins |-> NoGeneration]
  /\ durable = [a \in Admins |-> FALSE]
  /\ doomed = [a \in Admins |-> {}]

\* The steps of a command that no other process can hold up.
Proceed(a) ==
  \/ Validate(a) \/ SealStaged(a) \/ Commit(a) \/ Rename(a) \/ RenameFails(a)
  \/ SyncRename(a) \/ Reseal(a) \/ Point(a) \/ PointFails(a) \/ SyncPointer(a)
  \/ Confirm(a) \/ Protect(a) \/ Clear(a) \/ SyncClear(a)
  \/ Check(a) \/ StartRemoval(a) \/ FinishRemoval(a) \/ RemovalFails(a) \/ SyncPrune(a)

Command(a) == TakeLifecycle(a) \/ TakeCorpus(a) \/ Proceed(a)

StoreNext ==
  \/ \E a \in Admins : Issue(a) \/ Command(a) \/ Kill(a)
  \/ \E p \in Paths : Build(p)
  \/ PowerLoss

Next == StoreNext \/ \E d \in Descriptors : ReadBegins(d) \/ ReadEnds(d)

Spec == Init /\ [][Next]_storeVars

\* A command that can take its next step takes it; a builder, a crash, a new
\* command and a reader's progress are not required.
FairSpec == Spec /\ \A a \in Admins : WF_storeVars(Command(a))
-----------------------------------------------------------------------------
(* Properties.                                                              *)

TypeOK ==
  /\ staged \in [Paths -> Trees]
  /\ stagedSealed \subseteq Paths
  /\ installed \in [Keys -> Trees]
  /\ sealed \subseteq Keys
  /\ pointer \in PointerVals
  /\ survivors \subseteq DiskStates
  /\ lifecycle \in Admins \cup {Nobody}
  /\ writer \in Admins \cup {Nobody}
  /\ readers \subseteq Descriptors
  /\ seal \in [Servers -> [key : PointerVals, intact : BOOLEAN]]
  /\ issued \in 0..MaxCommands
  /\ pc \in [Admins -> Finished \cup {"start"} \cup LifecycleSteps]
  /\ op \in [Admins -> Operations]
  /\ path \in [Admins -> Paths]
  /\ target \in [Admins -> PointerVals]
  /\ durable \in [Admins -> BOOLEAN]
  /\ doomed \in [Admins -> SUBSET Keys]

Servable(disk) ==
  disk.pointer # NoGeneration =>
    /\ disk.tree[disk.pointer] = disk.pointer
    /\ disk.pointer \in disk.sealed

\* Whatever interleaving of commands, kills and power losses led here, the
\* pointer names a complete generation whose whole tree is read-only; so it does
\* in every state a power loss may leave (ordered journal).
ActiveServable ==
  /\ Servable(Disk(installed, sealed, pointer))
  /\ \A s \in survivors : Servable(s)

\* An installed tree holds the content its directory is named for, although a
\* builder may write to its directory until activation seals it: the hash is
\* taken again after sealing.
ContentNamed == \A k \in Keys : installed[k] \in {k, Damaged, Absent}

\* When an activation or a rollback that switched the pointer reports success,
\* no power loss takes the switch back or the generation away.
SwitchIsDurable ==
  [][\A a \in Admins :
       pc[a] \in {"syncPointer", "resyncPointer"} /\ pc'[a] = "ok" =>
         \A s \in survivors' : s.pointer = target[a] /\ s.tree[target[a]] = target[a]]_storeVars

\* `rollback` is what the message of an unconfirmed rename prescribes: after it
\* succeeded, no power loss takes the generation away.
RollbackConfirmsInstallation ==
  [][\A a \in Admins :
       op[a] = "rollback" /\ pc[a] = "syncPointer" /\ pc'[a] = "ok" =>
         \A s \in survivors' : s.tree[target[a]] = target[a]]_storeVars

\* A command returns unless readers come to LOCK for ever: the two locks are
\* always taken in the same order and always given back.
CommandsReturn ==
  \A a \in Admins : pc[a] \notin Finished ~> pc[a] \in Finished \/ readers # {}

\* The store implements the register of ActiveGeneration.
Promise == INSTANCE ActiveGeneration WITH
             active    <- pointer,
             available <- {k \in sealed : installed[k] = k},
             fallback  <- {s.pointer : s \in survivors}
ImplementsPromise == Promise!ActiveSpec
=============================================================================
