---------------------------- MODULE MaintainerSync ----------------------------
(***************************************************************************)
(* scripts/maintainer-sync.sh: acquire the official sources, build one     *)
(* generation from them, activate it and, for a full refresh, exchange the *)
(* complete new source set for the old one.  Every phase is journalled in  *)
(* pending-generation.json, so that a run that was killed is resumed by    *)
(* the next invocation.  `flock -n` admits one script at a time.           *)
(*                                                                         *)
(* A source set maps each source to the version of its committed           *)
(* inventory, 0 when the workspace has none.  The sources of indexOnly     *)
(* commit an index.jsonl and never a state.json (as ATO does).  A run is   *)
(* named by its number, and the one generation it installs by the run; 0   *)
(* is the generation that was active before the first run.                 *)
(***************************************************************************)
EXTENDS Naturals

CONSTANTS
  Sources,        \* the ids that `legal-mcp source-list` prints
  Catalogues,     \* what indexOnly may be
  Modes,          \* the modes that are requested
  StartVersions,  \* the versions the source set may start with
  MaxVersion,     \* bound: official publications of a source
  MaxRuns,        \* bound: runs that are not resumed ones
  MaxFaults,      \* bound: kills and failed acquisitions
  KillAt,         \* the points at which the script may be killed
  None

SyncConstants ==
  /\ Catalogues \subseteq SUBSET Sources
  /\ Modes \subseteq {"incremental", "full"}
  /\ StartVersions \subseteq {0, 1}
  /\ MaxVersion \in Nat \ {0}
  /\ MaxRuns \in Nat
  /\ MaxFaults \in Nat

VARIABLES
  sources,  \* the source set at SOURCE_DATA_DIR
  fresh,    \* the one at FRESH_ROOT of the current run, or None
  backup,   \* rollback/pre-full-<run>, or None
  build,    \* BUILD_DIR of the current run
  made,     \* the source set an installed generation was built from, or None
  active,   \* the active generation, or None
  pending,  \* pending-generation.json, or None
  run,      \* RUN_ID of the latest run
  pc, sh,   \* the script and its shell variables
  faults,
  indexOnly,  \* the sources whose workspace never holds a state.json; constant
  prior     \* history: the source set that the current full run replaces

durable == <<sources, fresh, backup, build, made, active>>
vars == <<durable, pending, run, pc, sh, faults, indexOnly, prior>>

Generations == 0 .. MaxRuns
Phases == {"acquiring", "build", "activating", "activated"}
Empty == [s \in Sources |-> 0]
NoBuild == [state |-> "none", of |-> None]
NoShell == [mode |-> None, phase |-> None, resuming |-> FALSE, force |-> FALSE,
            changed |-> FALSE, todo |-> {}, previous |-> None, new |-> None,
            fingerprint |-> None]

\* A killed or failed script keeps nothing but what it wrote.
Exit == pc' = "idle" /\ sh' = NoShell

\* write_pending with the phase and the shell variables of the next state.
Journal(phase, shell) ==
  /\ sh' = [shell EXCEPT !.phase = phase]
  /\ pending' = [mode |-> shell.mode, phase |-> phase, previous |-> shell.previous,
                 new |-> shell.new, fingerprint |-> shell.fingerprint]

\* source_set_fingerprint: every source must have a state.json.
Fingerprint(tree) ==
  IF \E s \in Sources : tree[s] = 0 \/ s \in indexOnly THEN None ELSE tree

\* UPDATE_WORKSPACES
Target == IF sh.mode = "full" THEN fresh ELSE sources

Init ==
  /\ sources \in [Sources -> StartVersions]
  /\ fresh = None
  /\ backup = [r \in Generations |-> None]
  /\ build = NoBuild
  /\ active \in {None, 0}
  /\ made = [g \in Generations |-> IF g = active THEN sources ELSE None]
  /\ pending = None
  /\ run = 0
  /\ pc = "idle" /\ sh = NoShell
  /\ faults = 0
  /\ indexOnly \in Catalogues
  /\ prior = None
-----------------------------------------------------------------------------
(* Starting and resuming *)

Begin(mode, force) ==
  /\ pc = "idle" /\ pending = None
  /\ run < MaxRuns
  /\ run' = run + 1
  /\ Journal("acquiring", [NoShell EXCEPT !.mode = mode, !.force = force])
  /\ pc' = "started"
  /\ prior' = IF mode = "full" THEN sources ELSE None
  /\ fresh' = None /\ build' = NoBuild
  /\ UNCHANGED <<sources, backup, made, active, faults>>

\* A full refresh may not be requested over a pending incremental run; an
\* incremental request adopts the mode of the pending run.
Resume(mode, force) ==
  /\ pc = "idle" /\ pending # None
  /\ mode = "full" => pending.mode = "full"
  /\ sh' = [NoShell EXCEPT !.mode = pending.mode, !.phase = pending.phase,
                           !.resuming = TRUE, !.force = force,
                           !.previous = pending.previous, !.new = pending.new,
                           !.fingerprint = pending.fingerprint]
  /\ pc' = "started"
  /\ UNCHANGED <<durable, pending, run, faults, prior>>

\* `mkdir -p "$FRESH_ROOT"`, in every phase of a full run.
Prepare ==
  /\ pc = "started"
  /\ fresh' = IF sh.mode = "full" /\ fresh = None THEN Empty ELSE fresh
  /\ pc' = CASE sh.phase = "acquiring"  -> "submit"
             [] sh.phase = "build"      -> "build"
             [] sh.phase = "activating" -> "activate"
             [] sh.phase = "activated"  -> "promote"
  /\ UNCHANGED <<sources, backup, build, made, active, pending, run, sh, faults, prior>>
-----------------------------------------------------------------------------
(* Acquisition *)

SubmittedAll == Sources

\* A full run leaves out the workspaces that hold a state.json already.
Submitted ==
  IF sh.mode = "full" THEN {s \in Sources : fresh[s] = 0 \/ s \in indexOnly} ELSE Sources

\* prepare_context: a full refresh does not start on a committed workspace.
Acceptable == sh.mode = "full" => \A s \in Submitted : fresh[s] = 0

Submit ==
  /\ pc = "submit" /\ Acceptable
  /\ sh' = [sh EXCEPT !.todo = Submitted, !.changed = Submitted = {}]
  /\ pc' = IF Submitted = {} THEN "acquired" ELSE "acquiring"
  /\ UNCHANGED <<durable, pending, run, faults, prior>>

SubmitRefused ==
  /\ pc = "submit" /\ ~Acceptable
  /\ Exit
  /\ UNCHANGED <<durable, pending, run, faults, prior>>

CommitInPlace(s) ==
  /\ pc = "acquiring" /\ s \in sh.todo
  /\ \E v \in 1 .. MaxVersion :
       /\ v >= sources[s]
       /\ sources' = [sources EXCEPT ![s] = v]
       /\ sh' = [sh EXCEPT !.todo = @ \ {s}, !.changed = @ \/ v # sources[s]]
  /\ pc' = IF sh.todo = {s} THEN "acquired" ELSE "acquiring"
  /\ UNCHANGED <<fresh, backup, build, made, active, pending, run, faults, prior>>

\* source-update ends when every source has; each commits its workspace alone.
CommitSource(s) ==
  /\ pc = "acquiring" /\ s \in sh.todo
  /\ \E v \in 1 .. MaxVersion :
       /\ v >= sources[s]
       /\ IF sh.mode = "full"
            THEN fresh' = [fresh EXCEPT ![s] = v] /\ UNCHANGED sources
            ELSE sources' = [sources EXCEPT ![s] = v] /\ UNCHANGED fresh
       /\ sh' = [sh EXCEPT !.todo = @ \ {s}, !.changed = @ \/ v # Target[s]]
  /\ pc' = IF sh.todo = {s} THEN "acquired" ELSE "acquiring"
  /\ UNCHANGED <<backup, build, made, active, pending, run, faults, prior>>

AcquisitionFails ==
  /\ pc = "acquiring"
  /\ faults < MaxFaults /\ faults' = faults + 1
  /\ Exit
  /\ UNCHANGED <<durable, pending, run, prior>>

UnchangedByThisCommand == ~sh.force /\ sh.mode # "full" /\ ~sh.changed

\* Only a run that is not resumed knows that no earlier attempt changed a source.
NothingToBuild == ~sh.force /\ sh.mode # "full" /\ ~sh.changed /\ ~sh.resuming

KeepGeneration ==
  /\ pc = "acquired" /\ NothingToBuild
  /\ pending' = None
  /\ Exit
  /\ UNCHANGED <<durable, run, faults, prior>>

RecordSources ==
  /\ pc = "acquired" /\ ~NothingToBuild
  /\ sh.mode = "full" => Fingerprint(fresh) # None
  /\ LET fingerprint == IF sh.mode = "full" THEN Fingerprint(fresh) ELSE None
     IN Journal("build", [sh EXCEPT !.previous = None, !.new = None,
                                    !.fingerprint = fingerprint])
  /\ pc' = "build"
  /\ UNCHANGED <<durable, run, faults, prior>>

FingerprintFails ==
  /\ pc = "acquired" /\ ~NothingToBuild
  /\ sh.mode = "full" /\ Fingerprint(fresh) = None
  /\ Exit
  /\ UNCHANGED <<durable, pending, run, faults, prior>>
-----------------------------------------------------------------------------
(* Build *)

\* The script skips the build when BUILD_DIR holds a generation.json; an
\* interrupted build without one continues from its checkpoint.
StartBuild ==
  /\ pc = "build"
  /\ IF build.state \in {"published", "complete"}
       THEN pc' = "built" /\ UNCHANGED build
       ELSE pc' = "compiling" /\ build' = [state |-> "partial", of |-> Target]
  /\ UNCHANGED <<sources, fresh, backup, made, active, pending, run, sh, faults, prior>>

\* build.rs publishes the manifest before it removes build-state.json.
PublishManifest ==
  /\ pc = "compiling"
  /\ build' = [build EXCEPT !.state = "published"]
  /\ pc' = "published"
  /\ UNCHANGED <<sources, fresh, backup, made, active, pending, run, sh, faults, prior>>

RemoveCheckpoint ==
  /\ pc = "published"
  /\ build' = [build EXCEPT !.state = "complete"]
  /\ pc' = "built"
  /\ UNCHANGED <<sources, fresh, backup, made, active, pending, run, sh, faults, prior>>

RecordBuild ==
  /\ pc = "built"
  /\ Journal("activating", [sh EXCEPT !.previous = active, !.new = None])
  /\ pc' = "activate"
  /\ UNCHANGED <<durable, run, faults, prior>>
-----------------------------------------------------------------------------
(* Activation *)

Install ==
  /\ pc = "activate" /\ build.state = "complete"
  /\ made' = [made EXCEPT ![run] = build.of]
  /\ build' = NoBuild
  /\ pc' = "installed"
  /\ UNCHANGED <<sources, fresh, backup, active, pending, run, sh, faults, prior>>

\* A directory that still holds build-state.json is not a generation.
InstallRefused ==
  /\ pc = "activate" /\ build.state = "published"
  /\ Exit
  /\ UNCHANGED <<durable, pending, run, faults, prior>>

Point ==
  /\ pc = "installed"
  /\ active' = run
  /\ sh' = [sh EXCEPT !.new = run, !.previous = active]
  /\ pc' = "verified"
  /\ UNCHANGED <<sources, fresh, backup, build, made, pending, run, faults, prior>>

\* BUILD_DIR is gone: a pointer that has moved shows that the activation ended.
RecoverOutcome ==
  /\ pc = "activate" /\ build.state = "none"
  /\ active # None /\ active # sh.previous
  /\ sh' = [sh EXCEPT !.new = active]
  /\ pc' = "verified"
  /\ UNCHANGED <<durable, pending, run, faults, prior>>

OutcomeUnknown ==
  /\ pc = "activate" /\ build.state = "none"
  /\ active = None \/ active = sh.previous
  /\ Exit
  /\ UNCHANGED <<durable, pending, run, faults, prior>>

RecordActivated ==
  /\ pc = "verified"
  /\ Journal("activated", sh)
  /\ pc' = "promote"
  /\ UNCHANGED <<durable, run, faults, prior>>
-----------------------------------------------------------------------------
(* Promotion of a full source set *)

\* An incremental run has nothing to promote.
SkipPromotion ==
  /\ pc = "promote" /\ sh.mode # "full"
  /\ pc' = "finish"
  /\ UNCHANGED <<durable, pending, run, sh, faults, prior>>

PromotionRefused ==
  /\ pc = "promote" /\ sh.mode = "full" /\ Fingerprint(sources) = None
  /\ Exit
  /\ UNCHANGED <<durable, pending, run, faults, prior>>

\* `mv --exchange` swaps the two directories in one step.
Exchange ==
  /\ pc = "promote" /\ sh.mode = "full"
  /\ Fingerprint(sources) \notin {None, sh.fingerprint}
  /\ sources' = fresh /\ fresh' = sources
  /\ IF Fingerprint(sources') = sh.fingerprint THEN pc' = "retain" /\ UNCHANGED sh ELSE Exit
  /\ UNCHANGED <<backup, build, made, active, pending, run, faults, prior>>

AlreadyPromoted ==
  /\ pc = "promote" /\ sh.mode = "full" /\ Fingerprint(sources) # None
  /\ Fingerprint(sources) = sh.fingerprint
  /\ pc' = "retain"
  /\ UNCHANGED <<durable, pending, run, sh, faults, prior>>

RetainOver ==
  /\ pc = "retain"
  /\ backup' = [backup EXCEPT ![run] = fresh] /\ fresh' = None
  /\ pc' = "finish"
  /\ UNCHANGED <<sources, build, made, active, pending, run, sh, faults, prior>>

RetainPrior ==
  /\ pc = "retain" /\ backup[run] = None
  /\ backup' = [backup EXCEPT ![run] = fresh] /\ fresh' = None
  /\ pc' = "finish"
  /\ UNCHANGED <<sources, build, made, active, pending, run, sh, faults, prior>>

SnapshotCollision ==
  /\ pc = "retain" /\ backup[run] # None
  /\ Exit
  /\ UNCHANGED <<durable, pending, run, faults, prior>>

Finish ==
  /\ pc = "finish"
  /\ pending' = None
  /\ Exit
  /\ UNCHANGED <<durable, run, faults, prior>>
-----------------------------------------------------------------------------
(* The environment *)

Kill ==
  /\ pc \in KillAt
  /\ faults < MaxFaults /\ faults' = faults + 1
  /\ Exit
  /\ UNCHANGED <<durable, pending, run, prior>>

\* `legal-mcp rollback --generation <new>` after an activation that was
\* killed between its rename and the pointer (LIFECYCLE_LOCK keeps it out of
\* an activation that is running).
OperatorRecovers ==
  /\ pc # "installed" /\ pending # None
  /\ pending.phase = "activating" /\ build.state = "none"
  /\ made[run] # None /\ active # run
  /\ active' = run
  /\ UNCHANGED <<sources, fresh, backup, build, made, pending, run, pc, sh, faults, prior>>

Work ==
  \/ Prepare
  \/ Submit \/ SubmitRefused \/ \E s \in Sources : CommitSource(s)
  \/ KeepGeneration \/ RecordSources \/ FingerprintFails
  \/ StartBuild \/ PublishManifest \/ RemoveCheckpoint \/ RecordBuild
  \/ Install \/ InstallRefused \/ Point \/ RecoverOutcome \/ OutcomeUnknown
  \/ RecordActivated
  \/ SkipPromotion \/ PromotionRefused \/ Exchange \/ AlreadyPromoted
  \/ RetainPrior \/ SnapshotCollision
  \/ Finish

Next ==
  /\ \/ \E mode \in Modes, force \in BOOLEAN : Begin(mode, force) \/ Resume(mode, force)
     \/ Work
     \/ AcquisitionFails
     \/ Kill
     \/ OperatorRecovers
  /\ UNCHANGED indexOnly

Spec == Init /\ [][Next]_vars

\* The script runs on, the maintainer invokes it again after a failure and
\* recovers an activation as the error asks; faults are bounded.
FairSpec ==
  /\ Spec
  /\ WF_vars(Work /\ UNCHANGED indexOnly)
  /\ WF_vars((\E mode \in Modes, force \in BOOLEAN : Resume(mode, force))
                /\ UNCHANGED indexOnly)
  /\ WF_vars(OperatorRecovers /\ UNCHANGED indexOnly)
-----------------------------------------------------------------------------
(* Properties *)

\* Outside a pending run, the active generation was built from exactly the
\* source set that is in place: no committed change of a source is forgotten
\* by an early exit, however many attempts failed before (lines 213-217).
SyncedTogether == pending = None /\ active # None => made[active] = sources

\* While a full refresh is pending the source set in place is either the whole
\* one it found or the whole one the active generation was built from, never
\* a mixture and never ahead of the generation (lines 185-190 and 264-272).
FullRefreshIsAtomic ==
  pending # None /\ pending.mode = "full" =>
    \/ sources = prior
    \/ active = run /\ sources = made[run]

\* A full refresh never loses the source set it replaces: it is in place, at
\* FRESH_ROOT after the exchange, or in the rollback snapshot (lines 273-278).
PriorSetKept == prior # None => prior \in {sources, fresh, backup[run]}

\* MAINTENANCE.md 182-184: a pending run is resumed until it completes.
PendingCompletes == pending # None ~> pending = None

\* The manifest is published and the checkpoint will never be removed
\* (build.rs 536, maintainer-sync.sh 237).
CheckpointLeft == build.state = "published" /\ pc # "published"

\* The snapshot is taken, so that it cannot be taken again (line 275).
SnapshotTaken == pending.mode = "full" /\ backup[run] # None /\ pc # "finish"

\* The source set to be replaced has no fingerprint (line 266).
PriorIncomplete == pending.mode = "full" /\ Fingerprint(sources) = None

\* The set that a full refresh acquires has no fingerprint (line 93).
FreshIncomplete ==
  pending.mode = "full" /\ pending.phase = "acquiring" /\ indexOnly # {}

Stranded ==
  pending # None /\ (CheckpointLeft \/ SnapshotTaken \/ PriorIncomplete \/ FreshIncomplete)

\* Whatever was killed or failed, a pending run completes when the script is
\* invoked again, except in the four dead ends named by Stranded.
CompletesOrStrands == pending # None ~> pending = None \/ Stranded

=============================================================================
