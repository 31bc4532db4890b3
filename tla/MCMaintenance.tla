----------------------------- MODULE MCMaintenance -----------------------------
(* What a maintainer asks for again until it is done, one at a time: a refresh of the
   whole installation, or the update of one source workspace. *)
EXTENDS MaintainerSync, FiniteSets

CONSTANTS
  Tasks,  \* what is checked: "sync", "update"
  Procs, Docs, Assets, Retention, Versions, MaxWithdrawals, UpdateRuns, UpdateFaults, MaxBuilds,
  UpdateKillAt

\* One document has the images.
AssetsOf == [d \in Docs |-> IF d = CHOOSE x \in Docs : TRUE THEN Assets ELSE {}]

VARIABLES
  task,
  upstream, withdrawn, files, staging, state, lockfile, runDirs, plan, asked, done, holder,
  reading, builds, job, work, updateFaults

Update == INSTANCE SourceWorkspace
  WITH KillAt <- UpdateKillAt, MaxVersion <- Versions, MaxRuns <- UpdateRuns,
       MaxFaults <- UpdateFaults, faults <- updateFaults

ASSUME MaintenanceConstants == SyncConstants /\ Update!WorkspaceConstants

ofSync == vars
ofUpdate == <<upstream, withdrawn, files, staging, state, lockfile, runDirs, plan, asked, done,
              holder, reading, builds, job, work, updateFaults>>
tasks == <<task, ofSync, ofUpdate>>

Syncing(step) == task = "sync" /\ step /\ UNCHANGED <<task, ofUpdate>>
Updating(step) == task = "update" /\ step /\ UNCHANGED <<task, ofSync>>

\* The one that is not checked stays where it started.
InitTask ==
  /\ task \in Tasks
  /\ Init /\ Update!WorkspaceInit
  /\ task = "sync" => upstream = [d \in Docs |-> 0]
  /\ task = "update" =>
       /\ sources = [s \in Sources |-> 0] /\ active = None
       /\ indexOnly = CHOOSE c \in Catalogues : TRUE

NextTask == Syncing(Next) \/ Updating(Update!WorkspaceNext)

\* The fairness of both.
FairTasks ==
  /\ InitTask /\ [][NextTask]_tasks
  /\ WF_tasks(Syncing(Work /\ UNCHANGED indexOnly))
  /\ WF_tasks(Syncing((\E mode \in Modes, force \in BOOLEAN : Resume(mode, force))
                        /\ UNCHANGED indexOnly))
  /\ WF_tasks(Syncing(OperatorRecovers /\ UNCHANGED indexOnly))
  /\ WF_tasks(Updating(Update!EndBuild))
  /\ \A r \in Update!Runs :
       WF_tasks(Updating(Update!Retain(r) \/ \E p \in Procs : Update!Start(p, r)))
  /\ \A p \in Procs : WF_tasks(Updating(Update!ProcessStep(p)))
  /\ \A d \in Docs : WF_tasks(Updating(Update!ThreadStep(d)))

\* Whatever was killed or failed, a pending run of the script and an update of a workspace
\* complete when they are asked for again, except in the dead ends that each names.
CommandsCompleteOrStrand == CompletesOrStrands /\ Update!CompletesOrStrands
=============================================================================
