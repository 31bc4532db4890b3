---------------------------- MODULE SourceWorkspace ----------------------------
(***************************************************************************)
(* One source workspace of src/official_sources/mod.rs (the shared store   *)
(* of the court and State legislation adapters) under `legal-mcp           *)
(* source-update`: the locks of source_update.rs, the resumable plan of a  *)
(* run directory, the parallel acquisition of the planned documents into   *)
(* content-addressed files, the staged entries, and the one write of       *)
(* state.json that commits them.  A build reads the committed inventory    *)
(* under the shared lock.                                                  *)
(*                                                                         *)
(* The upstream version of a document is a number, 0 while there is no     *)
(* such document.  An inventory entry has the version its plan announced   *)
(* (`label`) and the version whose text was stored (`content`).            *)
(***************************************************************************)
EXTENDS Naturals, FiniteSets

CONSTANTS
  Procs,           \* invocations of source-update
  Docs,            \* native ids
  Assets,          \* digests of assets
  AssetsOf,        \* the assets of each document
  Modes,           \* the modes that are requested
  Retention,       \* minimum_snapshot_retention_percent
  KillAt,          \* the points at which an update may be killed
  MaxVersion,      \* bound: versions of a document
  MaxWithdrawals,  \* bound: documents withdrawn upstream
  MaxRuns,         \* bound: run directories
  MaxFaults,       \* bound: kills and failed requests or writes
  MaxBuilds,       \* bound: builds
  None

WorkspaceConstants ==
  /\ IsFiniteSet(Docs) /\ Docs # {}
  /\ AssetsOf \in [Docs -> SUBSET Assets]
  /\ Modes \subseteq {"incremental", "full"}
  /\ Retention \in 1 .. 100
  /\ KillAt \subseteq {"prepare", "write", "else"}
  /\ {MaxVersion, MaxWithdrawals, MaxRuns, MaxFaults, MaxBuilds} \subseteq Nat

Runs == 1 .. MaxRuns
Files == Assets \cup (Docs \X (1 .. MaxVersion))
Entries == [label : 1 .. MaxVersion, content : 1 .. MaxVersion]
FullText == 99

VARIABLES
  upstream,  \* the latest version published of each document
  withdrawn, \* documents that are no longer served or listed
  files,     \* documents/ and assets/: absent, partial or complete
  staging,   \* staging/: an entry per acquired document
  state,     \* state.json: the committed inventory
  lockfile,  \* .source-update.lock exists
  runDirs,   \* the run directories that exist
  plan,      \* discovery.json of each run directory, or None
  asked,     \* the mode each run was requested with, or None
  done,      \* the runs whose update has been reported or found committed
  holder,    \* the update that holds the lock exclusively, or None
  reading,   \* a build holds it shared
  builds,
  job,       \* each invocation's request and position
  work,      \* the acquisition threads of the holder, one per document
  faults

disk == <<files, staging, state, lockfile, runDirs, plan>>
requests == <<asked, done>>
world == <<upstream, withdrawn>>
build == <<reading, builds>>
workspaceVars == <<world, disk, requests, holder, build, job, work, faults>>

NoJob == [pc |-> "idle", run |-> 0, resume |-> FALSE]
NoWork == [pc |-> "idle", left |-> {}, file |-> None, entry |-> None]
Idle == [d \in Docs |-> NoWork]
Nothing == [d \in Docs |-> None]

Named(inventory) == {d \in Docs : inventory[d] # None}
Planned(listing) == {d \in Docs : listing[d] > 0}
Committed == Named(state) # {}
Served == [d \in Docs |-> IF d \in withdrawn THEN 0 ELSE upstream[d]]

WorkspaceInit ==
  /\ upstream \in [Docs -> 0 .. 1]
  /\ withdrawn = {}
  /\ files = [f \in Files |-> "absent"]
  /\ staging = Nothing
  /\ state = Nothing
  /\ lockfile = FALSE
  /\ runDirs = {}
  /\ plan = [r \in Runs |-> None]
  /\ asked = [r \in Runs |-> None]
  /\ done = {}
  /\ holder = None
  /\ reading = FALSE /\ builds = 0
  /\ job = [p \in Procs |-> NoJob]
  /\ work = Idle
  /\ faults = 0
-----------------------------------------------------------------------------
(* The world *)

Publish(d) ==
  /\ d \notin withdrawn /\ upstream[d] < MaxVersion
  /\ upstream' = [upstream EXCEPT ![d] = @ + 1]
  /\ UNCHANGED <<withdrawn, disk, requests, holder, build, job, work, faults>>

Withdraw(d) ==
  /\ upstream[d] > 0 /\ d \notin withdrawn
  /\ Cardinality(withdrawn) < MaxWithdrawals
  /\ withdrawn' = withdrawn \cup {d}
  /\ UNCHANGED <<upstream, disk, requests, holder, build, job, work, faults>>

Ask(r, mode) ==
  /\ asked[r] = None
  /\ \A earlier \in 1 .. (r - 1) : asked[earlier] # None
  /\ asked' = [asked EXCEPT ![r] = mode]
  /\ UNCHANGED <<world, disk, done, holder, build, job, work, faults>>

\* A full refresh is not requested again for a workspace that has its state.json.
Retain(r) ==
  /\ asked[r] = "full" /\ r \notin done /\ Committed
  /\ done' = done \cup {r}
  /\ UNCHANGED <<world, disk, asked, holder, build, job, work, faults>>

\* A build loads the committed inventory and its documents under the shared lock.
BeginBuild ==
  /\ builds < MaxBuilds /\ ~reading
  /\ holder = None
  /\ reading' = TRUE /\ builds' = builds + 1
  /\ lockfile' = TRUE
  /\ UNCHANGED <<world, files, staging, state, runDirs, plan, requests, holder, job,
                 work, faults>>

EndBuild ==
  /\ reading
  /\ reading' = FALSE
  /\ UNCHANGED <<world, disk, requests, holder, builds, job, work, faults>>
-----------------------------------------------------------------------------
(* prepare_context *)

At(p, pc) == job[p].pc = pc
Goto(p, pc) == job' = [job EXCEPT ![p].pc = pc]
Mode(p) == asked[job[p].run]

MayStartEmpty(r) == asked[r] = "full" => ~lockfile

\* A full refresh starts on an empty workspace, unless it resumes its own run
\* directory on one that has nothing committed.  Whatever is in a workspace was
\* put there under the lock, so it is empty when it has no lock file.
MayStart(r) ==
  asked[r] = "full" /\ (r \notin runDirs \/ Committed) => ~lockfile

Start(p, r) ==
  /\ At(p, "idle")
  /\ asked[r] # None /\ r \notin done
  /\ MayStart(r)
  /\ job' = [job EXCEPT ![p] = [pc |-> "lock", run |-> r, resume |-> r \in runDirs]]
  /\ UNCHANGED <<world, disk, requests, holder, build, work, faults>>

\* The update returns, releasing the lock if it has it.
Return(p) ==
  /\ job' = [job EXCEPT ![p] = NoJob]
  /\ holder' = IF holder = p THEN None ELSE holder
  /\ work' = IF holder = p THEN Idle ELSE work

LockAmongReaders(p) ==
  /\ At(p, "lock")
  /\ holder = None
  /\ holder' = p
  /\ lockfile' = TRUE
  /\ Goto(p, "rundir")
  /\ UNCHANGED <<world, files, staging, state, runDirs, plan, requests, build, work, faults>>

Lock(p) ==
  /\ At(p, "lock")
  /\ holder = None /\ ~reading
  /\ holder' = p
  /\ lockfile' = TRUE
  /\ Goto(p, "rundir")
  /\ UNCHANGED <<world, files, staging, state, runDirs, plan, requests, build, work, faults>>

LockHeld(p) ==
  /\ At(p, "lock")
  /\ holder # None \/ reading
  /\ Return(p)
  /\ UNCHANGED <<world, disk, requests, build, faults>>

MakeRunDir(p) ==
  /\ At(p, "rundir")
  /\ job[p].resume \/ job[p].run \notin runDirs
  /\ runDirs' = runDirs \cup {job[p].run}
  /\ Goto(p, "discover")
  /\ UNCHANGED <<world, files, staging, state, lockfile, plan, requests, holder, build,
                 work, faults>>

\* create_dir fails when another invocation has made the directory since.
RunDirExists(p) ==
  /\ At(p, "rundir")
  /\ ~job[p].resume /\ job[p].run \in runDirs
  /\ Return(p)
  /\ UNCHANGED <<world, disk, requests, build, faults>>
-----------------------------------------------------------------------------
(* discover *)

\* validate_discovery and validate_snapshot_size
Acceptable(listing) ==
  /\ Planned(listing) # {}
  /\ Cardinality(Planned(listing)) * 100 >= Cardinality(Named(state)) * Retention

\* discovery.json of a resumed run, else what upstream lists now.
Listing(p) == IF plan[job[p].run] = None THEN Served ELSE plan[job[p].run]

Discover(p) ==
  /\ At(p, "discover")
  /\ Acceptable(Listing(p))
  /\ plan' = [plan EXCEPT ![job[p].run] = Listing(p)]
  /\ work' = [d \in Docs |-> IF Listing(p)[d] > 0 THEN [NoWork EXCEPT !.pc = "todo"] ELSE NoWork]
  /\ Goto(p, "fetch")
  /\ UNCHANGED <<world, files, staging, state, lockfile, runDirs, requests, holder, build, faults>>

DiscoveryRefused(p) ==
  /\ At(p, "discover")
  /\ ~Acceptable(Listing(p))
  /\ Return(p)
  /\ UNCHANGED <<world, disk, requests, build, faults>>
-----------------------------------------------------------------------------
(* acquire_one, on a thread per document *)

Label(d) == plan[job[holder].run][d]
Finished == {"done", "gone", "failed", "collided"}
Aborted == \E d \in Docs : work[d].pc \in {"failed", "collided"}
Fetching == holder # None /\ At(holder, "fetch")
Step(d, pc) == work' = [work EXCEPT ![d].pc = pc]

\* load_inventory_document
Loads(d, entry) ==
  /\ files[<<d, entry.content>>] = "complete"
  /\ \A a \in AssetsOf[d] : files[a] = "complete"

ReusableWhateverLabel(d, entry) == entry # None /\ Loads(d, entry)
Reusable(d, entry) == entry # None /\ entry.label = Label(d) /\ Loads(d, entry)

\* The committed entry, else the staged one, else a request.  No document is
\* taken up after one has failed.
Take(d) ==
  /\ Fetching /\ work[d].pc = "todo" /\ ~Aborted
  /\ LET found(entry) == work' = [work EXCEPT ![d].pc = "done", ![d].entry = entry]
     IN \/ Reusable(d, state[d]) /\ found(state[d])
        \/ ~Reusable(d, state[d]) /\ Reusable(d, staging[d]) /\ found(staging[d])
        \/ ~Reusable(d, state[d]) /\ ~Reusable(d, staging[d]) /\ Step(d, "get")
  /\ UNCHANGED <<world, disk, requests, holder, build, job, faults>>

\* The adapter's acquire returns what upstream serves now, nothing after a 404.
Get(d) ==
  /\ Fetching /\ work[d].pc = "get"
  /\ work' = [work EXCEPT ![d] =
       IF Served[d] = 0 THEN [@ EXCEPT !.pc = "gone"]
       ELSE [@ EXCEPT !.pc = "store", !.left = AssetsOf[d],
                      !.entry = [label |-> Label(d), content |-> Served[d]]]]
  /\ UNCHANGED <<world, disk, requests, holder, build, job, faults>>

GetFails(d) ==
  /\ Fetching /\ work[d].pc = "get"
  /\ faults < MaxFaults /\ faults' = faults + 1
  /\ Step(d, "failed")
  /\ UNCHANGED <<world, disk, requests, holder, build, job>>

\* persist_document writes the assets and then the document that names them.
Unstored(d) == IF work[d].left # {} THEN work[d].left ELSE {<<d, work[d].entry.content>>}

Stored(d, f) ==
  work' = [work EXCEPT ![d].left = @ \ {f}, ![d].file = None,
                       ![d].pc = IF f \in Assets THEN "store" ELSE "stage"]

\* write_immutable: create_new, and then the bytes.
Create(d) ==
  /\ Fetching /\ work[d].pc = "store"
  /\ \E f \in Unstored(d) :
       /\ files[f] = "absent"
       /\ files' = [files EXCEPT ![f] = "partial"]
       /\ work' = [work EXCEPT ![d].pc = "write", ![d].file = f]
  /\ UNCHANGED <<world, staging, state, lockfile, runDirs, plan, requests, holder, build,
                 job, faults>>

Write(d) ==
  /\ Fetching /\ work[d].pc = "write"
  /\ files' = [files EXCEPT ![work[d].file] = "complete"]
  /\ Stored(d, work[d].file)
  /\ UNCHANGED <<world, staging, state, lockfile, runDirs, plan, requests, holder, build,
                 job, faults>>

\* The disk is full: what was created stays.
WriteFails(d) ==
  /\ "write" \in KillAt
  /\ Fetching /\ work[d].pc = "write"
  /\ faults < MaxFaults /\ faults' = faults + 1
  /\ Step(d, "failed")
  /\ UNCHANGED <<world, disk, requests, holder, build, job>>

\* An existing file must have the same bytes.
FindSame(d) ==
  /\ Fetching /\ work[d].pc = "store"
  /\ \E f \in Unstored(d) : files[f] = "complete" /\ Stored(d, f)
  /\ UNCHANGED <<world, disk, requests, holder, build, job, faults>>

Collide(d) ==
  /\ Fetching /\ work[d].pc = "store"
  /\ \E f \in Unstored(d) : files[f] = "partial"
  /\ Step(d, "collided")
  /\ UNCHANGED <<world, disk, requests, holder, build, job, faults>>

StageAsListedNow(d) ==
  /\ Fetching /\ work[d].pc = "stage"
  /\ LET entry == [work[d].entry EXCEPT !.label = upstream[d]]
     IN /\ staging' = [staging EXCEPT ![d] = entry]
        /\ work' = [work EXCEPT ![d].entry = entry, ![d].pc = "done"]
  /\ UNCHANGED <<world, files, state, lockfile, runDirs, plan, requests, holder, build, job, faults>>

\* commit_staging_entry
Stage(d) ==
  /\ Fetching /\ work[d].pc = "stage"
  /\ staging' = [staging EXCEPT ![d] = work[d].entry]
  /\ Step(d, "done")
  /\ UNCHANGED <<world, files, state, lockfile, runDirs, plan, requests, holder, build, job, faults>>
-----------------------------------------------------------------------------
(* fetch_documents, after the pool *)

Inventory == [d \in Docs |-> IF work[d].pc = "done" THEN work[d].entry ELSE None]

Complete(p) ==
  Cardinality(Named(Inventory)) * 100 >= Cardinality(Planned(plan[job[p].run])) * FullText

Collected(p) == At(p, "fetch") /\ \A d \in Docs : work[d].pc \in Finished \cup {"idle"}

\* The threads in flight end before the first failure is returned.
Abort(p) ==
  /\ At(p, "fetch")
  /\ Aborted /\ \A d \in Docs : work[d].pc \in Finished \cup {"idle", "todo"}
  /\ Return(p)
  /\ UNCHANGED <<world, disk, requests, build, faults>>

TooFew(p) ==
  /\ Collected(p) /\ ~Aborted /\ ~Complete(p)
  /\ Return(p)
  /\ UNCHANGED <<world, disk, requests, build, faults>>

Collect(p) ==
  /\ Collected(p) /\ ~Aborted /\ Complete(p)
  /\ Goto(p, "clear")
  /\ UNCHANGED <<world, disk, requests, holder, build, work, faults>>

\* clear_staging, one entry at a time.
ClearOne(p) ==
  /\ At(p, "clear")
  /\ \E d \in Named(staging) : staging' = [staging EXCEPT ![d] = None]
  /\ UNCHANGED <<world, files, state, lockfile, runDirs, plan, requests, holder, build,
                 job, work, faults>>

Commit(p) ==
  /\ At(p, "clear") /\ Named(staging) = {}
  /\ state' = Inventory
  /\ Goto(p, "report")
  /\ UNCHANGED <<world, files, staging, lockfile, runDirs, plan, requests, holder, build,
                 work, faults>>

Report(p) ==
  /\ At(p, "report")
  /\ done' = done \cup {job[p].run}
  /\ Return(p)
  /\ UNCHANGED <<world, disk, asked, build, faults>>

\* A listing request, the removal of staging/ or the write of state.json fails.
Fails(p) ==
  /\ job[p].pc \in {"discover", "clear"}
  /\ faults < MaxFaults /\ faults' = faults + 1
  /\ Return(p)
  /\ UNCHANGED <<world, disk, requests, build>>

\* Where p is: it holds the lock without a run directory, it is writing a file,
\* or elsewhere.
Point(p) ==
  IF At(p, "rundir") THEN "prepare"
  ELSE IF At(p, "fetch") /\ \E d \in Docs : work[d].pc = "write" THEN "write" ELSE "else"

Kill(p) ==
  /\ ~At(p, "idle") /\ Point(p) \in KillAt
  /\ faults < MaxFaults /\ faults' = faults + 1
  /\ Return(p)
  /\ UNCHANGED <<world, disk, requests, build>>
-----------------------------------------------------------------------------
ProcessStep(p) ==
  \/ Lock(p) \/ LockHeld(p) \/ MakeRunDir(p) \/ RunDirExists(p)
  \/ Discover(p) \/ DiscoveryRefused(p)
  \/ Abort(p) \/ TooFew(p) \/ Collect(p) \/ ClearOne(p) \/ Commit(p) \/ Report(p)

ThreadStep(d) ==
  Take(d) \/ Get(d) \/ Create(d) \/ Write(d) \/ FindSame(d) \/ Collide(d) \/ Stage(d)

Fault ==
  \/ \E p \in Procs : Fails(p) \/ Kill(p)
  \/ \E d \in Docs : GetFails(d) \/ WriteFails(d)

World ==
  \/ \E d \in Docs : Publish(d) \/ Withdraw(d)
  \/ \E r \in Runs : \E mode \in Modes : Ask(r, mode)
  \/ BeginBuild

WorkspaceNext ==
  \/ World \/ Fault \/ EndBuild
  \/ \E r \in Runs : Retain(r) \/ \E p \in Procs : Start(p, r)
  \/ \E p \in Procs : ProcessStep(p)
  \/ \E d \in Docs : ThreadStep(d)

WorkspaceSpec == WorkspaceInit /\ [][WorkspaceNext]_workspaceVars

\* Processes and threads run, builds end, and whoever asked for an update asks
\* again until it has been reported.
WorkspaceFairness ==
  /\ WF_workspaceVars(EndBuild)
  /\ \A r \in Runs : WF_workspaceVars(Retain(r) \/ \E p \in Procs : Start(p, r))
  /\ \A p \in Procs : WF_workspaceVars(ProcessStep(p))
  /\ \A d \in Docs : WF_workspaceVars(ThreadStep(d))

FairWorkspaceSpec == WorkspaceSpec /\ WorkspaceFairness
-----------------------------------------------------------------------------
(* Properties *)

\* Whatever was killed, failed or resumed, each entry that state.json or staging/
\* holds can be loaded: its document and assets are complete (mod.rs
\* load_inventory_document, on which every build depends).
EntriesLoad ==
  \A d \in Docs : \A entry \in {state[d], staging[d]} \ {None} : Loads(d, entry)

\* An entry never claims a later version than the text it was stored with, even
\* when upstream publishes during the run or the plan is an old one: otherwise the
\* next update would reuse the old text as current (mod.rs reusable_entry).
NeverAhead ==
  \A d \in Docs : \A entry \in {state[d], staging[d]} \ {None} : entry.label <= entry.content

\* An entry of state.json or staging/ can be relied on: it loads, and it does not claim
\* more than it has, whatever was killed, failed or resumed (EntriesLoad, NeverAhead).
EntriesSound == EntriesLoad /\ NeverAhead

\* state.json only ever becomes the inventory of one plan: its labels are that
\* plan's, nearly all of the planned documents are there, and it does not shrink
\* below the retention policy (mod.rs fetch_documents, MAINTENANCE.md "catastrophic
\* shrinkage, and less than 99% usable full text are rejected").
CommitsWholePlan ==
  [][state' # state =>
       \E r \in Runs :
         /\ plan[r] # None
         /\ \A d \in Named(state') : state'[d].label = plan[r][d]
         /\ Cardinality(Named(state')) * 100 >= Cardinality(Planned(plan[r])) * FullText
         /\ Cardinality(Planned(plan[r])) * 100 >= Cardinality(Named(state)) * Retention
    ]_workspaceVars

\* While a build reads a workspace its inventory stays what it was, and loadable
\* (source_update.rs lock_workspace_shared, build.rs).
BuildSnapshot ==
  [][reading => state' = state /\ \A d \in Named(state) : Loads(d, state[d])']_workspaceVars

\* A file that was created and will not be written any more (mod.rs 2411).
Truncated(f) ==
  files[f] = "partial" /\ \A d \in Docs : work[d].pc = "write" => work[d].file # f

\* A full refresh that has made the lock file and no run directory yet
\* (source_update.rs 444), and was killed.
Unprepared(r) ==
  asked[r] = "full" /\ lockfile /\ ~Committed /\ r \notin runDirs /\ \A p \in Procs : At(p, "idle")

Stranded(r) == Unprepared(r) \/ \E f \in Files : Truncated(f)

\* The same with the two windows in which a kill or a full disk leaves something
\* behind that no later update gets over.
CompletesOrStrands ==
  \A r \in Runs : asked[r] # None /\ Planned(Served) # {} ~> r \in done \/ Stranded(r)
=============================================================================
