------------------------------ MODULE CorpusBuild -------------------------------
(***************************************************************************)
(* The build of a generation (src/build.rs, build_corpus) in an output      *)
(* directory that an earlier run may have left half made: build-state.json  *)
(* binds the directory to the exact bytes of the workspaces, the sources    *)
(* are ingested one transaction each, a second thread writes the vector     *)
(* index of those that are committed, and the manifest is published before  *)
(* the checkpoint goes.  A run may be killed between any two steps.         *)
(***************************************************************************)
EXTENDS Naturals, Sequences, FiniteSets, SequencesExt

CONSTANTS
  Order,            \* the sources, the largest first
  MaxWorkspaceVersions, MaxBuildRuns, MaxBuildFaults, MaxKills,  \* bounds
  Missing

BuildConstants ==
  /\ Order \in Seq(ToSet(Order)) /\ IsInjective(Order)
  /\ {MaxWorkspaceVersions, MaxBuildRuns, MaxBuildFaults, MaxKills} \subseteq Nat

Legal == ToSet(Order)

VARIABLES
  workspace,  \* the bytes of each source workspace
  out,        \* the output directory
  main,       \* the build process, and what it has read of the workspaces
  ann,        \* its second thread
  buildFaults, kills

buildVars == <<workspace, out, main, ann, buildFaults, kills>>

Nothing == [s \in Legal |-> Missing]
Idle == [pc |-> "idle", binding |-> Nothing, todo |-> <<>>, runs |-> 0]
NoThread == [pc |-> "none", queue |-> <<>>, source |-> Missing, open |-> FALSE, made |-> Nothing]

\* stamp: the run whose metadata the database holds (created_at); litter: the temporary files
\* and directories that nobody has removed.
BuildInit ==
  /\ workspace = [s \in Legal |-> 0]
  /\ out = [state |-> Missing, db |-> FALSE, rows |-> Nothing, cache |-> FALSE, stamp |-> 0,
            vectors |-> Nothing, lexical |-> Nothing, models |-> FALSE, manifest |-> Missing,
            litter |-> {}]
  /\ main = Idle /\ ann = NoThread
  /\ buildFaults = 0 /\ kills = 0
-----------------------------------------------------------------------------
(* The workspaces *)

\* An update commits its workspace under an exclusive lock, which a build excludes; a change by
\* other hands is what the second fingerprint is for.
WorkspaceChanges(s) ==
  /\ workspace[s] < MaxWorkspaceVersions
  /\ workspace' = [workspace EXCEPT ![s] = @ + 1]
  /\ UNCHANGED <<out, main, ann, buildFaults, kills>>
-----------------------------------------------------------------------------
(* The start *)

At(pc) == main.pc = pc
Go(pc) == main' = [main EXCEPT !.pc = pc]

\* The shared locks are taken and the workspaces fingerprinted.
Launch ==
  /\ At("idle") /\ main.runs < MaxBuildRuns
  /\ main' = [pc |-> "check", binding |-> workspace, todo |-> Order, runs |-> main.runs + 1]
  /\ ann' = NoThread
  /\ UNCHANGED <<workspace, out, buildFaults, kills>>

RefusedUnbound == out.state = Missing /\ (out.manifest # Missing \/ out.db)

\* A completed output, a database without a checkpoint and a checkpoint of other bytes are
\* refused.
Refused ==
  IF out.state = Missing THEN out.manifest # Missing \/ out.db ELSE out.state # main.binding

Check ==
  /\ At("check")
  /\ Go(IF Refused THEN "idle" ELSE IF out.state = Missing THEN "bind" ELSE "unpublish")
  /\ UNCHANGED <<workspace, out, ann, buildFaults, kills>>

\* validate_or_create_build_state creates the checkpoint, in a temporary file first.
Bind ==
  /\ At("bind") /\ Go("unpublish")
  /\ out' = [out EXCEPT !.state = main.binding]
  /\ UNCHANGED <<workspace, ann, buildFaults, kills>>

\* The manifest of a run that was killed before it removed the checkpoint goes; then the
\* database is opened and the second thread started.
Unpublish ==
  /\ At("unpublish") /\ Go("ingest")
  /\ out' = [out EXCEPT !.manifest = Missing, !.db = TRUE]
  /\ ann' = [NoThread EXCEPT !.pc = "idle", !.open = TRUE]
  /\ UNCHANGED <<workspace, buildFaults, kills>>
-----------------------------------------------------------------------------
(* The sources, and the thread behind them *)

\* ingest_source_results commits the snapshot of the next source, which is then queued.  The
\* commit waits for a reader of the database; a thread that has stopped takes no more.
Ingest ==
  LET s == Head(main.todo) IN
  /\ At("ingest") /\ main.todo # <<>> /\ ann.pc # "scan"
  /\ out' = [out EXCEPT !.rows[s] = workspace[s],
                        !.cache = @ \/ out.rows[s] # workspace[s]]
  /\ IF ann.pc = "failed"
     THEN main' = [main EXCEPT !.pc = "join"] /\ UNCHANGED ann
     ELSE /\ main' = [main EXCEPT !.todo = Tail(@)]
          /\ ann' = [ann EXCEPT !.queue = Append(@, s)]
  /\ UNCHANGED <<workspace, buildFaults, kills>>

\* A source that cannot be read or encoded, or whose commit has waited too long for the reader.
IngestFails ==
  /\ At("ingest") /\ main.todo # <<>> /\ buildFaults < MaxBuildFaults
  /\ buildFaults' = buildFaults + 1 /\ Go("join")
  /\ UNCHANGED <<workspace, out, ann, kills>>

Ingested ==
  /\ At("ingest") /\ main.todo = <<>> /\ Go("join")
  /\ UNCHANGED <<workspace, out, ann, buildFaults, kills>>

\* The thread takes a source, scans its rows into a file of a new directory (build_sidecar)
\* and puts it in place; or stops with an error, and the directory is removed.
Scan ==
  /\ ann.pc = "idle" /\ ann.queue # <<>>
  /\ ann' = [ann EXCEPT !.pc = "scan", !.source = Head(ann.queue), !.queue = Tail(@)]
  /\ UNCHANGED <<workspace, out, main, buildFaults, kills>>

Scanned ==
  /\ ann.pc = "scan"
  /\ ann' = [ann EXCEPT !.pc = "write", !.made[ann.source] = out.rows[ann.source]]
  /\ UNCHANGED <<workspace, out, main, buildFaults, kills>>

Replace ==
  /\ ann.pc = "write"
  /\ out' = [out EXCEPT !.vectors[ann.source] = ann.made[ann.source]]
  /\ ann' = [ann EXCEPT !.pc = "idle"]
  /\ UNCHANGED <<workspace, main, buildFaults, kills>>

AnnFails ==
  /\ ann.pc \in {"scan", "write"} /\ buildFaults < MaxBuildFaults
  /\ buildFaults' = buildFaults + 1
  /\ ann' = [ann EXCEPT !.pc = "failed"]
  /\ UNCHANGED <<workspace, out, main, kills>>

\* The channel is closed and the thread joined; its error or that of a source ends the run.
Join ==
  /\ At("join") /\ (ann.pc = "failed" \/ (ann.pc = "idle" /\ ann.queue = <<>>))
  /\ Go(IF ann.pc = "idle" /\ main.todo = <<>> THEN "finish" ELSE "idle")
  /\ ann' = [ann EXCEPT !.open = FALSE]
  /\ UNCHANGED <<workspace, out, buildFaults, kills>>
-----------------------------------------------------------------------------
(* The end *)

\* The metadata of the run is bound in one transaction.
BindMetadata ==
  /\ At("finish") /\ Go("clear")
  /\ out' = [out EXCEPT !.stamp = main.runs]
  /\ UNCHANGED <<workspace, ann, buildFaults, kills>>

\* The cache is deleted; then the workspaces must still be what they were.
ClearCache ==
  /\ At("clear") /\ Go("compare")
  /\ out' = [out EXCEPT !.cache = FALSE]
  /\ UNCHANGED <<workspace, ann, buildFaults, kills>>

Compare ==
  /\ At("compare") /\ Go(IF workspace = main.binding THEN "models" ELSE "idle")
  /\ UNCHANGED <<workspace, out, ann, buildFaults, kills>>

\* install_model_file copies a file under a temporary name, which a later run takes again.
InstallModels ==
  /\ At("models") /\ Go("lexical")
  /\ out' = [out EXCEPT !.models = TRUE]
  /\ UNCHANGED <<workspace, ann, buildFaults, kills>>

\* build_sidecars of lexical.rs removes the directories an earlier run has left, and makes the
\* text index of every source for the hash of this database.
LexicalSidecars ==
  /\ At("lexical") /\ Go("publish")
  /\ out' = [out EXCEPT !.litter = @ \ {"lexical"},
                        !.lexical = [s \in Legal |-> <<out.rows[s], out.stamp>>]]
  /\ UNCHANGED <<workspace, ann, buildFaults, kills>>

Publish ==
  /\ At("publish") /\ Go("release")
  /\ out' = [out EXCEPT !.manifest = [rows |-> out.rows, stamp |-> main.runs, vectors |-> ann.made]]
  /\ UNCHANGED <<workspace, ann, buildFaults, kills>>

Release ==
  /\ At("release") /\ Go("idle")
  /\ out' = [out EXCEPT !.state = Missing]
  /\ UNCHANGED <<workspace, ann, buildFaults, kills>>

\* The process is killed: nobody removes what it was writing.
Litter ==
  (IF ann.pc \in {"scan", "write"} THEN {"ann"} ELSE {})
  \cup (IF main.pc \in {"bind", "publish"} THEN {"temporary"} ELSE {})
  \cup (IF main.pc = "lexical" THEN {"lexical"} ELSE {})

Kill ==
  /\ ~At("idle") /\ kills < MaxKills /\ kills' = kills + 1
  /\ Go("idle") /\ ann' = NoThread
  /\ \E left \in SUBSET Litter : out' = [out EXCEPT !.litter = @ \cup left]
  /\ UNCHANGED <<workspace, buildFaults>>

BuildEnded == At("idle") /\ main.runs = MaxBuildRuns /\ UNCHANGED buildVars

BuildNext ==
  \/ \E s \in Legal : WorkspaceChanges(s)
  \/ Launch \/ Check \/ Bind \/ Unpublish
  \/ Ingest \/ IngestFails \/ Ingested \/ Scan \/ Scanned \/ Replace \/ AnnFails \/ Join
  \/ BindMetadata \/ ClearCache \/ Compare \/ InstallModels \/ LexicalSidecars
  \/ Publish \/ Release \/ Kill \/ BuildEnded
-----------------------------------------------------------------------------
Completed == out.state = Missing /\ out.manifest # Missing

\* A run that was killed can be taken up again: there is never a database without a checkpoint
\* before the manifest.  And what is complete holds one snapshot: the rows of the bytes the
\* directory was bound to, with indexes of those rows and of that database.
BuildResumes ==
  /\ (out.db /\ out.manifest = Missing) => out.state # Missing
  /\ (At("idle") /\ out.manifest # Missing /\ out.state # Missing) => out.manifest.rows = out.state
  /\ Completed =>
       /\ out.manifest.rows = out.rows /\ out.vectors = out.rows
       /\ out.manifest.vectors = out.vectors
       /\ out.manifest.stamp = out.stamp
       /\ out.lexical = [s \in Legal |-> <<out.rows[s], out.stamp>>]
       /\ out.models /\ ~out.cache

\* The files of a complete output are those its validation expects
\* (validate_generation_dir_with_mode).
CompleteActivates == Completed => out.litter = {}
=============================================================================
