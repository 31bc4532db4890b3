--------------------------- MODULE AcquisitionProofs ---------------------------
(***************************************************************************)
(* Proofs about the three formats of a source workspace, for any documents,   *)
(* images, titles, threads, invocations and runs, and any number of kills and  *)
(* failures.                                                                  *)
(*                                                                            *)
(* SourceWorkspace, the format of the court and State adapters: what the       *)
(* workspace names can be loaded and is never older than it claims, what is    *)
(* committed is the inventory of one whole plan, and nothing moves under a     *)
(* build.  Its invariant says who holds the lock, that no plan is ahead of     *)
(* what upstream has published, and what each thread has stored so far of the   *)
(* entry it is to stage.                                                       *)
(*                                                                            *)
(* AtoAcquisition: what the index vouches for stays, and a reported run is      *)
(* whole.  Its invariant says what memory has over the file, and that each      *)
(* document of the plan is queued, with one thread, or settled.                 *)
(*                                                                            *)
(* FrlAcquisition: no version is missed, every text is what its entry says, and  *)
(* every plan reconciles.  Its invariant says of every version in the register   *)
(* whether the scan has passed it and, if it was not seen, why the next scan     *)
(* will; the page and the version selected are greatest elements of a finite     *)
(* order, hence the lemmas about ranks.                                         *)
(***************************************************************************)
EXTENDS SourceWorkspace, FrlAcquisition, AtoAcquisition, FiniteSetTheorems, TLAPS

-----------------------------------------------------------------------------
(* SourceWorkspace: the invariant *)

Listings == [Docs -> 0 .. MaxVersion]

\* None is none of the values it stands in for, an asset is not a document's text, and upstream
\* may publish at all.
Apart ==
  /\ None \notin Entries /\ None \notin Listings /\ None \notin Procs
  /\ Assets \cap (Docs \X (1 .. MaxVersion)) = {}
  /\ MaxVersion >= 1

Held == {"rundir", "discover", "fetch", "clear", "report"}
Jobs == [pc : {"idle", "lock"} \cup Held, run : Nat, resume : BOOLEAN]
Works ==
  [pc : {"idle", "todo", "get", "gone", "failed", "collided", "store", "write", "stage", "done"},
   left : SUBSET Assets, file : Files \cup {None}, entry : Entries \cup {None}]

StoreTypes ==
  /\ upstream \in Listings
  /\ files \in [Files -> {"absent", "partial", "complete"}]
  /\ staging \in [Docs -> Entries \cup {None}] /\ state \in [Docs -> Entries \cup {None}]
  /\ plan \in [Runs -> Listings \cup {None}]
  /\ holder \in Procs \cup {None}
  /\ job \in [Procs -> Jobs]
  /\ work \in [Docs -> Works]

\* One update at a time, and none with a build.
Locked ==
  /\ \A p \in Procs : job[p].pc \in Held <=> holder = p
  /\ \A p \in Procs : job[p].pc # "idle" => job[p].run \in Runs
  /\ reading => holder = None

\* A plan names what upstream has published, or less.
PlansBehind ==
  \A r \in Runs : plan[r] # None => \A d \in Docs : plan[r][d] <= upstream[d]

Good(d, entry) == Loads(d, entry) /\ entry.label <= entry.content
EntriesGood ==
  /\ \A d \in Docs : state[d] # None => Good(d, state[d])
  /\ \A d \in Docs : staging[d] # None => Good(d, staging[d])

\* How far the thread of a document has come.
Acquired(d) ==
  /\ work[d].pc \in {"todo", "get"} => Label(d) >= 1
  /\ work[d].pc \in {"store", "write", "stage", "done"} =>
       /\ work[d].entry \in Entries
       /\ work[d].entry.label = Label(d) /\ Label(d) <= work[d].entry.content
  /\ work[d].pc \in {"store", "write"} =>
       /\ work[d].left \subseteq AssetsOf[d]
       /\ \A a \in AssetsOf[d] \ work[d].left : files[a] = "complete"
  /\ work[d].pc = "write" => work[d].file \in Unstored(d)
  /\ work[d].pc \in {"stage", "done"} => Loads(d, work[d].entry)

Collecting == holder # None /\ job[holder].pc \in {"fetch", "clear"}
PlanFollowed ==
  Collecting =>
    /\ plan[job[holder].run] # None /\ Acceptable(plan[job[holder].run])
    /\ \A d \in Docs : Acquired(d)
    /\ job[holder].pc = "clear" => Complete(holder)

WorkspaceInv == StoreTypes /\ Locked /\ PlansBehind /\ EntriesGood /\ PlanFollowed
-----------------------------------------------------------------------------
(* What every step relies on *)

LEMMA StartTypes ==
  NoJob \in Jobs /\ NoWork \in Works /\ Idle \in [Docs -> Works] /\ Idle = [d \in Docs |-> NoWork]
BY DEF NoJob, NoWork, Idle, Jobs, Works

\* The files an entry names.
LEMMA NamedFiles ==
  ASSUME WorkspaceConstants, NEW d \in Docs, NEW entry \in Entries
  PROVE  <<d, entry.content>> \in Files /\ AssetsOf[d] \subseteq Files
BY DEF WorkspaceConstants, Entries, Files

\* Files are only ever completed, so that what could be loaded still can.
LEMMA StillLoads ==
  ASSUME WorkspaceConstants, NEW d \in Docs, NEW entry \in Entries, Loads(d, entry),
         \A f \in Files : files[f] = "complete" => files'[f] = "complete"
  PROVE  Loads(d, entry)'
BY NamedFiles DEF Loads

LEMMA StillFollowed ==
  ASSUME PlanFollowed, UNCHANGED <<files, state, plan, holder, work>>,
         holder # None => job'[holder] = job[holder]
  PROVE  PlanFollowed'
<1>1. SUFFICES ASSUME Collecting'
               PROVE  /\ plan'[job'[holder'].run] # None /\ Acceptable(plan[job[holder].run])'
                      /\ \A d \in Docs : Acquired(d)'
                      /\ job'[holder'].pc = "clear" => Complete(holder)'
  BY DEF PlanFollowed
<1>2. job'[holder] = job[holder] /\ holder # None /\ Collecting
  BY <1>1 DEF Collecting
<1>3. /\ plan'[job'[holder'].run] # None /\ Acceptable(plan[job[holder].run])'
  BY <1>2 DEF PlanFollowed, Acceptable, Named
<1>4. ASSUME NEW d \in Docs
      PROVE  Acquired(d)'
  <2>1. Acquired(d) /\ Label(d)' = Label(d) /\ Unstored(d)' = Unstored(d)
    BY <1>2 DEF PlanFollowed, Label, Unstored
  <2>2. ASSUME NEW entry
        PROVE  Loads(d, entry)' = Loads(d, entry)
    BY DEF Loads
  <2> QED
    BY <2>1, <2>2 DEF Acquired, Loads
<1>5. job'[holder'].pc = "clear" => Complete(holder)'
  <2>1. Inventory' = Inventory
    BY <1>2 DEF Inventory
  <2> QED
    BY <1>2, <2>1 DEF PlanFollowed, Complete, Named
<1> QED
  BY <1>3, <1>4, <1>5

\* Steps that touch neither the workspace nor the lock.
LEMMA Outside ==
  ASSUME WorkspaceInv, UNCHANGED <<files, staging, state, plan, holder, job, work>>,
         upstream' \in Listings, \A d \in Docs : upstream[d] <= upstream'[d],
         reading' => holder = None
  PROVE  WorkspaceInv'
<1>1. StoreTypes' /\ Locked'
  BY DEF WorkspaceInv, StoreTypes, Locked
<1>2. PlansBehind'
  <2>1. ASSUME NEW r \in Runs, plan[r] # None, NEW d \in Docs
        PROVE  plan[r][d] <= upstream'[d]
    <3>1. plan[r][d] \in Nat /\ upstream[d] \in Nat /\ upstream'[d] \in Nat
      BY <2>1 DEF WorkspaceInv, StoreTypes, Listings
    <3> QED
      BY <2>1, <3>1 DEF WorkspaceInv, PlansBehind
  <2> QED
    BY <2>1 DEF PlansBehind
<1>3. EntriesGood'
  BY DEF WorkspaceInv, EntriesGood, Good, Loads
<1>4. PlanFollowed'
  BY StillFollowed DEF WorkspaceInv
<1> QED
  BY <1>1, <1>2, <1>3, <1>4 DEF WorkspaceInv

\* Steps of an update that leave the workspace alone, and whose holder does not collect after
\* them unless it did before.
LEMMA Positions ==
  ASSUME WorkspaceInv, UNCHANGED <<upstream, files, staging, state, plan>>,
         job' \in [Procs -> Jobs], holder' \in Procs \cup {None}, work' \in [Docs -> Works],
         Locked', ~Collecting'
  PROVE  WorkspaceInv'
<1>1. StoreTypes' /\ PlansBehind'
  BY DEF WorkspaceInv, StoreTypes, PlansBehind
<1>2. EntriesGood'
  BY DEF WorkspaceInv, EntriesGood, Good, Loads
<1>3. PlanFollowed'
  BY DEF PlanFollowed
<1> QED
  BY <1>1, <1>2, <1>3 DEF WorkspaceInv

LEMMA Goes ==
  ASSUME StoreTypes, NEW p \in Procs, NEW pc \in {"idle", "lock"} \cup Held, Goto(p, pc)
  PROVE  /\ job' \in [Procs -> Jobs]
         /\ job'[p].pc = pc /\ job'[p].run = job[p].run
         /\ \A q \in Procs \ {p} : job'[q] = job[q]
BY DEF Goto, StoreTypes, Jobs

\* An update that ends, at whatever point, releases the lock and leaves the workspace.
LEMMA ReturnKeeps ==
  ASSUME Apart, WorkspaceInv, NEW p \in Procs, Return(p),
         UNCHANGED <<upstream, files, staging, state, plan, reading>>
  PROVE  WorkspaceInv'
<1>1. /\ job' = [job EXCEPT ![p] = NoJob]
      /\ holder' = (IF holder = p THEN None ELSE holder)
      /\ work' = (IF holder = p THEN Idle ELSE work)
  BY DEF Return
<1>2. /\ job' \in [Procs -> Jobs] /\ job'[p].pc = "idle"
      /\ \A q \in Procs \ {p} : job'[q] = job[q]
  BY <1>1, StartTypes DEF WorkspaceInv, StoreTypes, NoJob
<1>3. work' \in [Docs -> Works] /\ holder' \in Procs \cup {None} /\ holder' # p
  BY <1>1, StartTypes DEF WorkspaceInv, StoreTypes, Apart
<1>4. Locked'
  BY <1>1, <1>2, <1>3 DEF WorkspaceInv, Locked, Held, Apart
<1>5. CASE holder = p
  <2>1. ~Collecting'
    BY <1>1, <1>5 DEF Collecting
  <2> QED
    BY <1>2, <1>3, <1>4, <2>1, Positions
<1>6. CASE holder # p
  <2>1. UNCHANGED <<holder, work>> /\ (holder # None => job'[holder] = job[holder])
    BY <1>1, <1>2, <1>6 DEF WorkspaceInv, StoreTypes
  <2>2. StoreTypes' /\ PlansBehind'
    BY <1>2, <2>1 DEF WorkspaceInv, StoreTypes, PlansBehind
  <2>3. EntriesGood'
    BY DEF WorkspaceInv, EntriesGood, Good, Loads
  <2>4. PlanFollowed'
    BY <2>1, StillFollowed DEF WorkspaceInv
  <2> QED
    BY <1>4, <2>2, <2>3, <2>4 DEF WorkspaceInv
<1> QED
  BY <1>5, <1>6

-----------------------------------------------------------------------------
LEMMA WorkspaceInvHolds == ASSUME WorkspaceConstants, Apart, WorkspaceInit PROVE WorkspaceInv
<1>1. upstream \in Listings
  <2>1. 0 .. 1 \subseteq 0 .. MaxVersion
    BY DEF WorkspaceConstants, Apart
  <2> QED
    BY <2>1 DEF WorkspaceInit, Listings
<1>2. /\ files \in [Files -> {"absent", "partial", "complete"}]
      /\ staging \in [Docs -> Entries \cup {None}] /\ state \in [Docs -> Entries \cup {None}]
      /\ plan \in [Runs -> Listings \cup {None}]
      /\ holder = None /\ job \in [Procs -> Jobs] /\ work \in [Docs -> Works]
  BY StartTypes DEF WorkspaceInit, Nothing
<1>3. StoreTypes
  BY <1>1, <1>2 DEF StoreTypes
<1>4. Locked
  BY DEF WorkspaceInit, Locked, NoJob, Held, Apart
<1>5. PlansBehind /\ EntriesGood /\ PlanFollowed
  BY DEF WorkspaceInit, PlansBehind, EntriesGood, Nothing, PlanFollowed, Collecting
<1> QED
  BY <1>3, <1>4, <1>5 DEF WorkspaceInv

LEMMA WorldKeeps ==
  ASSUME WorkspaceConstants, WorkspaceInv, World \/ EndBuild \/ (\E r \in Runs : Retain(r))
  PROVE  WorkspaceInv'
<1>1. ASSUME NEW d \in Docs, Publish(d)
      PROVE  WorkspaceInv'
  <2>1. /\ upstream[d] < MaxVersion /\ upstream' = [upstream EXCEPT ![d] = upstream[d] + 1]
        /\ UNCHANGED <<files, staging, state, plan, holder, job, work, reading>>
    BY <1>1 DEF Publish, disk, build
  <2>2. upstream' \in Listings /\ \A e \in Docs : upstream[e] <= upstream'[e]
    BY <2>1 DEF WorkspaceInv, StoreTypes, Listings, WorkspaceConstants
  <2> QED
    BY <2>1, <2>2, Outside DEF WorkspaceInv, Locked
<1>2. CASE UNCHANGED <<upstream, files, staging, state, plan, holder, job, work>>
           /\ (reading' => holder = None)
  <2>1. upstream' \in Listings /\ \A e \in Docs : upstream[e] <= upstream'[e]
    BY <1>2 DEF WorkspaceInv, StoreTypes, Listings
  <2> QED
    BY <1>2, <2>1, Outside
<1>3. ASSUME NEW d \in Docs, Withdraw(d)
      PROVE  WorkspaceInv'
  BY <1>2, <1>3 DEF Withdraw, disk, build, WorkspaceInv, Locked
<1>4. ASSUME NEW r \in Runs, Retain(r) \/ \E mode \in Modes : Ask(r, mode)
      PROVE  WorkspaceInv'
  BY <1>2, <1>4 DEF Retain, Ask, world, disk, build, WorkspaceInv, Locked
<1>5. CASE BeginBuild \/ EndBuild
  BY <1>2, <1>5 DEF BeginBuild, EndBuild, world, disk
<1> QED
  BY <1>1, <1>3, <1>4, <1>5 DEF World

-----------------------------------------------------------------------------
(* The lock, the run directory and the plan *)

LEMMA StartKeeps ==
  ASSUME WorkspaceConstants, WorkspaceInv, NEW p \in Procs, NEW r \in Runs, Start(p, r)
  PROVE  WorkspaceInv'
<1>1. /\ job[p].pc = "idle"
      /\ job' = [job EXCEPT ![p] = [pc |-> "lock", run |-> r, resume |-> r \in runDirs]]
      /\ UNCHANGED <<upstream, files, staging, state, plan, holder, work, reading>>
  BY DEF Start, At, world, disk, build
<1>2. r \in Nat
  BY DEF Runs, WorkspaceConstants
<1>3. /\ job' \in [Procs -> Jobs] /\ job'[p].pc = "lock" /\ job'[p].run = r
      /\ \A q \in Procs \ {p} : job'[q] = job[q]
  BY <1>1, <1>2 DEF WorkspaceInv, StoreTypes, Jobs
<1>4. holder # p
  BY <1>1 DEF WorkspaceInv, Locked, Held
<1>5. Locked'
  BY <1>1, <1>3, <1>4 DEF WorkspaceInv, Locked, Held
<1>6. holder # None => job'[holder] = job[holder]
  BY <1>3, <1>4 DEF WorkspaceInv, StoreTypes
<1>7. StoreTypes' /\ PlansBehind'
  BY <1>1, <1>3 DEF WorkspaceInv, StoreTypes, PlansBehind
<1>8. EntriesGood'
  BY <1>1 DEF WorkspaceInv, EntriesGood, Good, Loads
<1>9. PlanFollowed'
  BY <1>1, <1>6, StillFollowed DEF WorkspaceInv
<1> QED
  BY <1>5, <1>7, <1>8, <1>9 DEF WorkspaceInv

LEMMA LockKeeps ==
  ASSUME Apart, WorkspaceInv, NEW p \in Procs, Lock(p)
  PROVE  WorkspaceInv'
<1>1. /\ job[p].pc = "lock" /\ holder = None /\ ~reading /\ holder' = p /\ Goto(p, "rundir")
      /\ UNCHANGED <<upstream, files, staging, state, plan, work, reading>>
  BY DEF Lock, At, world, build
<1>2. /\ job' \in [Procs -> Jobs]
      /\ job'[p].pc = "rundir" /\ job'[p].run = job[p].run
      /\ \A q \in Procs \ {p} : job'[q] = job[q]
  BY <1>1, Goes DEF WorkspaceInv, Held
<1>3. Locked'
  BY <1>1, <1>2 DEF WorkspaceInv, Locked, Held, Apart
<1>4. ~Collecting'
  BY <1>1, <1>2 DEF Collecting
<1> QED
  BY <1>1, <1>2, <1>3, <1>4, Positions DEF WorkspaceInv, StoreTypes

LEMMA MakeRunDirKeeps ==
  ASSUME Apart, WorkspaceInv, NEW p \in Procs, MakeRunDir(p)
  PROVE  WorkspaceInv'
<1>1. /\ job[p].pc = "rundir" /\ Goto(p, "discover")
      /\ UNCHANGED <<upstream, files, staging, state, plan, holder, work, reading>>
  BY DEF MakeRunDir, At, world, build
<1>2. /\ job' \in [Procs -> Jobs]
      /\ job'[p].pc = "discover" /\ job'[p].run = job[p].run
      /\ \A q \in Procs \ {p} : job'[q] = job[q]
  BY <1>1, Goes DEF WorkspaceInv, Held
<1>3. holder = p
  BY <1>1 DEF WorkspaceInv, Locked, Held
<1>4. Locked' /\ ~Collecting'
  BY <1>1, <1>2, <1>3 DEF WorkspaceInv, Locked, Held, Collecting
<1> QED
  BY <1>1, <1>2, <1>4, Positions DEF WorkspaceInv, StoreTypes

\* The plan is what upstream serves, or the run's own of an earlier attempt.
LEMMA DiscoverKeeps ==
  ASSUME WorkspaceConstants, Apart, WorkspaceInv, NEW p \in Procs, Discover(p)
  PROVE  WorkspaceInv'
<1> DEFINE r == job[p].run
<1> PICK listing : listing = Listing(p)
  OBVIOUS
<1> DEFINE Begun(d) == IF listing[d] > 0 THEN [NoWork EXCEPT !.pc = "todo"] ELSE NoWork
<1>1. /\ job[p].pc = "discover" /\ Goto(p, "fetch") /\ Acceptable(listing)
      /\ plan' = [plan EXCEPT ![r] = listing]
      /\ work' = [d \in Docs |-> Begun(d)]
      /\ UNCHANGED <<upstream, files, staging, state, holder, reading>>
  BY DEF Discover, At, world, build
<1>2. r \in Runs /\ holder = p
  BY <1>1 DEF WorkspaceInv, Locked, Held
<1>3. /\ listing \in Listings
      /\ \A d \in Docs : listing[d] <= upstream[d]
  <2>1. Served \in Listings /\ \A d \in Docs : Served[d] <= upstream[d]
    BY DEF Served, WorkspaceInv, StoreTypes, Listings, WorkspaceConstants
  <2>2. plan[r] # None => plan[r] \in Listings /\ \A d \in Docs : plan[r][d] <= upstream[d]
    BY <1>2 DEF WorkspaceInv, StoreTypes, PlansBehind
  <2> QED
    BY <2>1, <2>2 DEF Listing
<1>4. /\ job' \in [Procs -> Jobs]
      /\ job'[p].pc = "fetch" /\ job'[p].run = r
      /\ \A q \in Procs \ {p} : job'[q] = job[q]
  BY <1>1, Goes DEF WorkspaceInv, Held
<1>5. \A d \in Docs : /\ Begun(d) \in Works
                      /\ Begun(d).pc = (IF listing[d] > 0 THEN "todo" ELSE "idle")
  BY DEF NoWork, Works
<1>6. /\ work' \in [Docs -> Works]
      /\ \A d \in Docs : work'[d].pc = (IF listing[d] > 0 THEN "todo" ELSE "idle")
  BY <1>1, <1>5
<1> HIDE DEF Begun
<1>7. /\ plan' \in [Runs -> Listings \cup {None}] /\ plan'[r] = listing /\ listing # None
      /\ \A q \in Runs \ {r} : plan'[q] = plan[q]
  BY <1>1, <1>2, <1>3 DEF WorkspaceInv, StoreTypes, Apart
<1>8. StoreTypes'
  BY <1>1, <1>4, <1>6, <1>7 DEF WorkspaceInv, StoreTypes
<1>9. Locked'
  BY <1>1, <1>2, <1>4 DEF WorkspaceInv, Locked, Held
<1>10. PlansBehind'
  BY <1>1, <1>3, <1>7 DEF WorkspaceInv, PlansBehind
<1>11. EntriesGood'
  BY <1>1 DEF WorkspaceInv, EntriesGood, Good, Loads
<1>12. PlanFollowed'
  <2>2. ASSUME NEW d \in Docs
        PROVE  Acquired(d)'
    <3>1. work'[d].pc = (IF listing[d] > 0 THEN "todo" ELSE "idle")
      BY <1>6
    <3>2. listing[d] \in Nat /\ Label(d)' = listing[d]
      BY <1>1, <1>2, <1>3, <1>4, <1>7 DEF Label, Listings
    <3> QED
      BY <3>1, <3>2 DEF Acquired
  <2>3. Acceptable(listing)'
    BY <1>1 DEF Acceptable, Named
  <2> QED
    BY <1>1, <1>2, <1>4, <1>7, <2>2, <2>3 DEF PlanFollowed
<1> QED
  BY <1>8, <1>9, <1>10, <1>11, <1>12 DEF WorkspaceInv
-----------------------------------------------------------------------------
(* The acquisition threads *)

\* Only the holder's threads run, with its plan.
LEMMA WhileFetching ==
  ASSUME Apart, WorkspaceInv, Fetching
  PROVE  /\ holder \in Procs /\ job[holder].pc = "fetch" /\ job[holder].run \in Runs
         /\ plan[job[holder].run] \in Listings
         /\ \A d \in Docs : Acquired(d) /\ Label(d) \in Nat /\ Label(d) <= upstream[d]
         /\ upstream \in Listings
<1>1. holder \in Procs /\ holder # None /\ job[holder].pc = "fetch"
  BY DEF Fetching, At, WorkspaceInv, StoreTypes
<1>2. job[holder].run \in Runs /\ plan[job[holder].run] # None /\ \A d \in Docs : Acquired(d)
  BY <1>1 DEF WorkspaceInv, Locked, PlanFollowed, Collecting
<1>3. plan[job[holder].run] \in Listings /\ upstream \in Listings
  BY <1>2 DEF WorkspaceInv, StoreTypes
<1>4. \A d \in Docs : Label(d) \in Nat /\ Label(d) <= upstream[d]
  BY <1>2, <1>3 DEF WorkspaceInv, PlansBehind, Label, Listings
<1> QED
  BY <1>1, <1>2, <1>3, <1>4

\* A step of one document's thread, which may complete files and stage an entry.
LEMMA ThreadKeeps ==
  ASSUME WorkspaceConstants, Apart, WorkspaceInv, Fetching, NEW d \in Docs,
         UNCHANGED <<upstream, state, plan, holder, job, reading>>,
         work' \in [Docs -> Works], \A e \in Docs \ {d} : work'[e] = work[e],
         files' \in [Files -> {"absent", "partial", "complete"}],
         \A f \in Files : files[f] = "complete" => files'[f] = "complete",
         staging' \in [Docs -> Entries \cup {None}], \A e \in Docs \ {d} : staging'[e] = staging[e],
         staging'[d] = staging[d] \/ Good(d, staging[d])',
         Acquired(d)'
  PROVE  WorkspaceInv'
<1>1. StoreTypes' /\ Locked' /\ PlansBehind'
  BY DEF WorkspaceInv, StoreTypes, Locked, PlansBehind
<1>2. ASSUME NEW e \in Docs, NEW entry \in Entries, Good(e, entry)
      PROVE  Good(e, entry)'
  BY <1>2, StillLoads DEF Good
<1>3. EntriesGood'
  BY <1>2 DEF WorkspaceInv, StoreTypes, EntriesGood, Good
<1>4. ASSUME NEW e \in Docs \ {d}
      PROVE  Acquired(e)'
  <2>1. Acquired(e) /\ Label(e)' = Label(e) /\ work'[e] = work[e] /\ Unstored(e)' = Unstored(e)
    BY WhileFetching DEF Label, Unstored
  <2>2. ASSUME work[e].pc \in {"store", "write"}
        PROVE  \A a \in AssetsOf[e] \ work[e].left : files'[a] = "complete"
    BY <2>1, <2>2 DEF Acquired, WorkspaceConstants, Files
  <2>3. ASSUME work[e].pc \in {"stage", "done"}
        PROVE  Loads(e, work[e].entry)'
    <3>1. work[e].entry \in Entries /\ Loads(e, work[e].entry)
      BY <2>1, <2>3 DEF Acquired
    <3>2. PICK entry \in Entries : entry = work[e].entry
      BY <3>1
    <3>3. Loads(e, entry)'
      BY <3>1, <3>2, StillLoads
    <3> QED
      BY <2>1, <3>2, <3>3 DEF Loads
  <2> QED
    BY <2>1, <2>2, <2>3 DEF Acquired
<1>5. PlanFollowed'
  <2>1. /\ holder' = holder /\ job'[holder].pc = "fetch"
        /\ plan' = plan /\ job' = job /\ state' = state
    BY WhileFetching
  <2>2. plan[job[holder].run] # None /\ Acceptable(plan[job[holder].run])
    BY DEF WorkspaceInv, PlanFollowed, Collecting, Fetching, At
  <2>3. Acceptable(plan[job[holder].run])'
    BY <2>1, <2>2 DEF Acceptable, Named
  <2> QED
    BY <1>4, <2>1, <2>2, <2>3 DEF PlanFollowed
<1> QED
  BY <1>1, <1>3, <1>5 DEF WorkspaceInv

\* A step that changes only the state of its thread.
LEMMA ThreadAlone ==
  ASSUME WorkspaceConstants, Apart, WorkspaceInv, Fetching, NEW d \in Docs,
         UNCHANGED <<upstream, files, staging, state, plan, holder, job, reading>>,
         work' \in [Docs -> Works], \A e \in Docs \ {d} : work'[e] = work[e],
         Acquired(d)'
  PROVE  WorkspaceInv'
<1>1. /\ files' \in [Files -> {"absent", "partial", "complete"}]
      /\ staging' \in [Docs -> Entries \cup {None}]
  BY DEF WorkspaceInv, StoreTypes
<1> QED
  BY <1>1, ThreadKeeps

\* A thread that moves on keeps what it has in hand.
LEMMA StepGoes ==
  ASSUME StoreTypes, NEW d \in Docs,
         NEW pc \in {"idle", "todo", "get", "gone", "failed", "collided", "store", "write",
                     "stage", "done"},
         Step(d, pc)
  PROVE  /\ work' \in [Docs -> Works] /\ work'[d].pc = pc
         /\ work'[d].left = work[d].left /\ work'[d].entry = work[d].entry
         /\ \A e \in Docs \ {d} : work'[e] = work[e]
<1> DEFINE next == [work[d] EXCEPT !.pc = pc]
<1>1. work \in [Docs -> Works] /\ work[d] \in Works
  BY DEF StoreTypes
<1>2. next \in Works /\ next.pc = pc /\ next.left = work[d].left /\ next.entry = work[d].entry
  BY <1>1 DEF Works
<1>3. work' = [work EXCEPT ![d] = next]
  BY DEF Step
<1> HIDE DEF next
<1> QED
  BY <1>1, <1>2, <1>3

\* A thread that has failed, or found its document gone, has nothing to stage.
LEMMA ThreadStops ==
  ASSUME WorkspaceConstants, Apart, WorkspaceInv, Fetching, NEW d \in Docs,
         UNCHANGED <<upstream, files, staging, state, plan, holder, job, reading>>,
         NEW pc \in {"gone", "failed", "collided"}, Step(d, pc)
  PROVE  WorkspaceInv'
<1>1. /\ work' \in [Docs -> Works] /\ work'[d].pc = pc
      /\ \A e \in Docs \ {d} : work'[e] = work[e]
  BY StepGoes DEF WorkspaceInv
<1>2. Acquired(d)'
  BY <1>1 DEF Acquired
<1> QED
  BY <1>1, <1>2, ThreadAlone

LEMMA TakeKeeps ==
  ASSUME WorkspaceConstants, Apart, WorkspaceInv, NEW d \in Docs, Take(d)
  PROVE  WorkspaceInv'
<1>1. /\ Fetching /\ work[d].pc = "todo"
      /\ UNCHANGED <<upstream, files, staging, state, plan, holder, job, reading>>
  BY DEF Take, world, disk, build
<1>2. CASE \E entry \in {state[d], staging[d]} :
             /\ Reusable(d, entry)
             /\ work' = [work EXCEPT ![d].pc = "done", ![d].entry = entry]
  <2>1. PICK entry \in {state[d], staging[d]} :
          /\ Reusable(d, entry)
          /\ work' = [work EXCEPT ![d].pc = "done", ![d].entry = entry]
    BY <1>2
  <2>2. entry \in Entries /\ Good(d, entry) /\ entry.label = Label(d)
    <3>1. entry # None /\ entry.label = Label(d)
      BY <2>1 DEF Reusable
    <3>2. CASE entry = state[d]
      BY <3>1, <3>2 DEF WorkspaceInv, StoreTypes, EntriesGood
    <3>3. CASE entry = staging[d]
      BY <3>1, <3>3 DEF WorkspaceInv, StoreTypes, EntriesGood
    <3> QED
      BY <3>1, <3>2, <3>3
  <2>3. /\ work' \in [Docs -> Works] /\ work'[d].pc = "done" /\ work'[d].entry = entry
        /\ \A e \in Docs \ {d} : work'[e] = work[e]
    <3>1. work \in [Docs -> Works]
      BY DEF WorkspaceInv, StoreTypes
    <3>2. [work[d] EXCEPT !.pc = "done", !.entry = entry] \in Works
      BY <2>2, <3>1 DEF Works
    <3>3. work' = [work EXCEPT ![d] = [work[d] EXCEPT !.pc = "done", !.entry = entry]]
      BY <2>1, <3>1 DEF Works
    <3> QED
      BY <3>1, <3>2, <3>3 DEF Works
  <2>4. Label(d)' = Label(d) /\ Loads(d, work[d].entry)'
    BY <1>1, <2>2, <2>3 DEF Label, Loads, Good
  <2>5. Acquired(d)'
    BY <2>2, <2>3, <2>4 DEF Acquired, Good
  <2> QED
    BY <1>1, <2>3, <2>5, ThreadAlone
<1>3. CASE Step(d, "get")
  <2>1. /\ work' \in [Docs -> Works] /\ work'[d].pc = "get"
        /\ \A e \in Docs \ {d} : work'[e] = work[e]
    BY <1>3, StepGoes DEF WorkspaceInv
  <2>2. Label(d)' = Label(d) /\ Label(d) >= 1
    BY <1>1, WhileFetching DEF Label, Acquired
  <2>3. Acquired(d)'
    BY <2>1, <2>2 DEF Acquired
  <2> QED
    BY <1>1, <2>1, <2>3, ThreadAlone
<1> QED
  BY <1>2, <1>3 DEF Take

\* What is served now is no older than what the plan announced.
LEMMA GetKeeps ==
  ASSUME WorkspaceConstants, Apart, WorkspaceInv, NEW d \in Docs, Get(d)
  PROVE  WorkspaceInv'
<1>1. /\ Fetching /\ work[d].pc = "get"
      /\ UNCHANGED <<upstream, files, staging, state, plan, holder, job, reading>>
  BY DEF Get, world, disk, build
<1>2. CASE Served[d] = 0
  BY <1>1, <1>2, ThreadStops DEF Get, Step
<1>3. CASE Served[d] # 0
  <2> DEFINE entry == [label |-> Label(d), content |-> Served[d]]
             next == [work[d] EXCEPT !.pc = "store", !.left = AssetsOf[d], !.entry = entry]
  <2>1. work' = [work EXCEPT ![d] = next]
    BY <1>3 DEF Get
  <2>2. /\ Label(d) \in Nat /\ Label(d) >= 1 /\ Label(d) <= upstream[d]
        /\ upstream[d] \in 0 .. MaxVersion /\ Served[d] = upstream[d]
    BY <1>1, <1>3, WhileFetching DEF Acquired, Served, Listings
  <2>3. /\ entry \in Entries /\ entry.label = Label(d) /\ Label(d) <= entry.content
    BY <2>2 DEF Entries, WorkspaceConstants
  <2> HIDE DEF entry
  <2>4. /\ next \in Works /\ next.pc = "store" /\ next.left = AssetsOf[d] /\ next.entry = entry
    <3>1. work[d] \in Works
      BY DEF WorkspaceInv, StoreTypes
    <3>2. AssetsOf[d] \in SUBSET Assets
      BY DEF WorkspaceConstants
    <3> QED
      BY <2>3, <3>1, <3>2 DEF Works
  <2> HIDE DEF next
  <2>5. /\ work' \in [Docs -> Works] /\ work'[d] = next
        /\ \A e \in Docs \ {d} : work'[e] = work[e]
    BY <2>1, <2>4 DEF WorkspaceInv, StoreTypes
  <2>6. Label(d)' = Label(d)
    BY <1>1 DEF Label
  <2>7. Acquired(d)'
    BY <2>3, <2>4, <2>5, <2>6 DEF Acquired
  <2> QED
    BY <1>1, <2>5, <2>7, ThreadAlone
<1> QED
  BY <1>2, <1>3

\* What a thread still has to store are files of its document.
LEMMA UnstoredFiles ==
  ASSUME WorkspaceConstants, Apart, WorkspaceInv, Fetching, NEW d \in Docs,
         work[d].pc \in {"store", "write"}
  PROVE  /\ work[d].left \subseteq AssetsOf[d] /\ work[d].entry \in Entries
         /\ \A a \in AssetsOf[d] \ work[d].left : files[a] = "complete"
         /\ Unstored(d) \subseteq Files
         /\ \A f \in Unstored(d) :
              \/ f \in Assets
              \/ f = <<d, work[d].entry.content>> /\ f \notin Assets /\ work[d].left = {}
<1>1. /\ work[d].left \subseteq AssetsOf[d] /\ work[d].entry \in Entries
      /\ \A a \in AssetsOf[d] \ work[d].left : files[a] = "complete"
  BY WhileFetching DEF Acquired
<1>2. /\ AssetsOf[d] \subseteq Assets /\ <<d, work[d].entry.content>> \in Files
      /\ <<d, work[d].entry.content>> \notin Assets /\ Assets \subseteq Files
  BY <1>1 DEF WorkspaceConstants, Apart, Entries, Files
<1> QED
  BY <1>1, <1>2 DEF Unstored

\* A stored file is one less; the document's own is the last.
LEMMA StoredGoesOn ==
  ASSUME WorkspaceConstants, Apart, WorkspaceInv, Fetching, NEW d \in Docs,
         work[d].pc \in {"store", "write"}, NEW f \in Unstored(d), Stored(d, f),
         UNCHANGED <<plan, holder, job>>,
         \A g \in Files : files[g] = "complete" => files'[g] = "complete",
         files'[f] = "complete"
  PROVE  /\ work' \in [Docs -> Works] /\ \A e \in Docs \ {d} : work'[e] = work[e]
         /\ Acquired(d)'
<1> DEFINE next == [work[d] EXCEPT !.left = work[d].left \ {f}, !.file = None,
                                   !.pc = IF f \in Assets THEN "store" ELSE "stage"]
<1>1. work' = [work EXCEPT ![d] = next]
  BY DEF Stored
<1>2. /\ work[d].left \subseteq AssetsOf[d] /\ work[d].entry \in Entries
      /\ \A a \in AssetsOf[d] \ work[d].left : files[a] = "complete"
      /\ f \in Assets \/ (f = <<d, work[d].entry.content>> /\ f \notin Assets /\ work[d].left = {})
      /\ AssetsOf[d] \subseteq Files
  BY UnstoredFiles, NamedFiles
<1>3. /\ next \in Works /\ next.pc = (IF f \in Assets THEN "store" ELSE "stage")
      /\ next.left = work[d].left \ {f} /\ next.entry = work[d].entry
  <2>1. work[d] \in Works
    BY DEF WorkspaceInv, StoreTypes
  <2> QED
    BY <2>1 DEF Works
<1> HIDE DEF next
<1>4. /\ work' \in [Docs -> Works] /\ work'[d] = next
      /\ \A e \in Docs \ {d} : work'[e] = work[e]
  BY <1>1, <1>3 DEF WorkspaceInv, StoreTypes
<1>5. \A a \in AssetsOf[d] \ next.left : files'[a] = "complete"
  BY <1>2, <1>3
<1>6. f \notin Assets => Loads(d, work[d].entry)'
  <2>1. ASSUME f \notin Assets
        PROVE  files'[<<d, work[d].entry.content>>] = "complete" /\ next.left = {}
    BY <1>2, <1>3, <2>1
  <2>2. ASSUME f \notin Assets
        PROVE  \A a \in AssetsOf[d] : files'[a] = "complete"
    BY <1>5, <2>1, <2>2
  <2>3. work'[d].entry = work[d].entry
    BY <1>3, <1>4
  <2> QED
    BY <1>3, <1>4, <2>1, <2>2, <2>3 DEF Loads
<1>7. Label(d)' = Label(d) /\ Acquired(d)
  BY WhileFetching DEF Label
<1>8. Acquired(d)'
  BY <1>2, <1>3, <1>4, <1>5, <1>6, <1>7 DEF Acquired
<1> QED
  BY <1>4, <1>8

LEMMA FindSameKeeps ==
  ASSUME WorkspaceConstants, Apart, WorkspaceInv, NEW d \in Docs, FindSame(d)
  PROVE  WorkspaceInv'
<1>1. /\ Fetching /\ work[d].pc = "store"
      /\ UNCHANGED <<upstream, files, staging, state, plan, holder, job, reading>>
  BY DEF FindSame, world, disk, build
<1>2. PICK f \in Unstored(d) : files[f] = "complete" /\ Stored(d, f)
  BY DEF FindSame
<1>3. /\ work' \in [Docs -> Works] /\ \A e \in Docs \ {d} : work'[e] = work[e]
      /\ Acquired(d)'
  BY <1>1, <1>2, StoredGoesOn
<1> QED
  BY <1>1, <1>3, ThreadAlone

\* A new file that is not complete is nobody's yet.
LEMMA CreateKeeps ==
  ASSUME WorkspaceConstants, Apart, WorkspaceInv, NEW d \in Docs, Create(d)
  PROVE  WorkspaceInv'
<1>1. /\ Fetching /\ work[d].pc = "store"
      /\ UNCHANGED <<upstream, staging, state, plan, holder, job, reading>>
  BY DEF Create, world, build
<1>2. PICK f \in Unstored(d) :
        /\ files[f] = "absent" /\ files' = [files EXCEPT ![f] = "partial"]
        /\ work' = [work EXCEPT ![d].pc = "write", ![d].file = f]
  BY DEF Create
<1>3. /\ f \in Files /\ work[d].left \subseteq AssetsOf[d] /\ AssetsOf[d] \subseteq Files
      /\ \A a \in AssetsOf[d] \ work[d].left : files[a] = "complete"
  BY <1>1, UnstoredFiles, NamedFiles
<1>4. /\ files' \in [Files -> {"absent", "partial", "complete"}]
      /\ \A g \in Files : files[g] = "complete" => files'[g] = "complete"
  BY <1>2, <1>3 DEF WorkspaceInv, StoreTypes
<1>5. /\ work' \in [Docs -> Works]
      /\ work'[d].pc = "write" /\ work'[d].file = f
      /\ work'[d].left = work[d].left /\ work'[d].entry = work[d].entry
      /\ \A e \in Docs \ {d} : work'[e] = work[e]
  <2>1. work \in [Docs -> Works]
    BY DEF WorkspaceInv, StoreTypes
  <2>2. [work[d] EXCEPT !.pc = "write", !.file = f] \in Works
    BY <1>3, <2>1 DEF Works
  <2>3. work' = [work EXCEPT ![d] = [work[d] EXCEPT !.pc = "write", !.file = f]]
    BY <1>2, <2>1 DEF Works
  <2> QED
    BY <2>1, <2>2, <2>3 DEF Works
<1>6. Acquired(d)'
  <2>1. Label(d)' = Label(d) /\ Unstored(d)' = Unstored(d) /\ Acquired(d)
    BY <1>1, <1>5, WhileFetching DEF Label, Unstored
  <2>2. \A a \in AssetsOf[d] \ work'[d].left : files'[a] = "complete"
    BY <1>3, <1>4, <1>5
  <2> QED
    BY <1>1, <1>3, <1>5, <2>1, <2>2 DEF Acquired
<1> QED
  <2>1. staging' \in [Docs -> Entries \cup {None}]
    BY <1>1 DEF WorkspaceInv, StoreTypes
  <2> QED
    BY <1>1, <1>4, <1>5, <1>6, <2>1, ThreadKeeps

LEMMA WriteKeeps ==
  ASSUME WorkspaceConstants, Apart, WorkspaceInv, NEW d \in Docs, Write(d)
  PROVE  WorkspaceInv'
<1>1. /\ Fetching /\ work[d].pc = "write"
      /\ files' = [files EXCEPT ![work[d].file] = "complete"] /\ Stored(d, work[d].file)
      /\ UNCHANGED <<upstream, staging, state, plan, holder, job, reading>>
  BY DEF Write, world, build
<1>2. work[d].file \in Unstored(d) /\ work[d].file \in Files
  BY <1>1, WhileFetching, UnstoredFiles DEF Acquired
<1>3. /\ files' \in [Files -> {"absent", "partial", "complete"}]
      /\ files'[work[d].file] = "complete"
      /\ \A g \in Files : files[g] = "complete" => files'[g] = "complete"
  BY <1>1, <1>2 DEF WorkspaceInv, StoreTypes
<1>4. /\ work' \in [Docs -> Works] /\ \A e \in Docs \ {d} : work'[e] = work[e]
      /\ Acquired(d)'
  BY <1>1, <1>2, <1>3, StoredGoesOn
<1>5. staging' \in [Docs -> Entries \cup {None}]
  BY <1>1 DEF WorkspaceInv, StoreTypes
<1> QED
  BY <1>1, <1>3, <1>4, <1>5, ThreadKeeps

LEMMA StageKeeps ==
  ASSUME WorkspaceConstants, Apart, WorkspaceInv, NEW d \in Docs, Stage(d)
  PROVE  WorkspaceInv'
<1>1. /\ Fetching /\ work[d].pc = "stage" /\ Step(d, "done")
      /\ staging' = [staging EXCEPT ![d] = work[d].entry]
      /\ UNCHANGED <<upstream, files, state, plan, holder, job, reading>>
  BY DEF Stage, world, build
<1>2. work[d].entry \in Entries /\ Good(d, work[d].entry) /\ Acquired(d)
  BY <1>1, WhileFetching DEF Acquired, Good
<1>3. /\ staging' \in [Docs -> Entries \cup {None}] /\ staging'[d] = work[d].entry
      /\ \A e \in Docs \ {d} : staging'[e] = staging[e]
  BY <1>1, <1>2 DEF WorkspaceInv, StoreTypes
<1>4. /\ work' \in [Docs -> Works] /\ work'[d].pc = "done" /\ work'[d].entry = work[d].entry
      /\ \A e \in Docs \ {d} : work'[e] = work[e]
  BY <1>1, StepGoes DEF WorkspaceInv
<1>5. Acquired(d)'
  BY <1>1, <1>2, <1>4 DEF Acquired, Label, Loads
<1>6. Good(d, staging[d])'
  BY <1>1, <1>2, <1>3 DEF Good, Loads
<1>7. /\ files' \in [Files -> {"absent", "partial", "complete"}]
      /\ \A f \in Files : files[f] = "complete" => files'[f] = "complete"
  BY <1>1 DEF WorkspaceInv, StoreTypes
<1> QED
  BY <1>1, <1>3, <1>4, <1>5, <1>6, <1>7, ThreadKeeps

LEMMA ThreadStepKeeps ==
  ASSUME WorkspaceConstants, Apart, WorkspaceInv, NEW d \in Docs,
         ThreadStep(d) \/ GetFails(d) \/ WriteFails(d)
  PROVE  WorkspaceInv'
<1>1. CASE Collide(d) \/ GetFails(d) \/ WriteFails(d)
  BY <1>1, ThreadStops DEF Collide, GetFails, WriteFails, world, disk, build
<1> QED
  BY <1>1, TakeKeeps, GetKeeps, CreateKeeps, WriteKeeps, FindSameKeeps, StageKeeps
     DEF ThreadStep

-----------------------------------------------------------------------------
(* The commit *)

LEMMA CollectKeeps ==
  ASSUME Apart, WorkspaceInv, NEW p \in Procs, Collect(p)
  PROVE  WorkspaceInv'
<1>1. /\ job[p].pc = "fetch" /\ Complete(p) /\ Goto(p, "clear")
      /\ UNCHANGED <<upstream, files, staging, state, plan, holder, work, reading>>
  BY DEF Collect, Collected, At, world, disk, build
<1>2. /\ job' \in [Procs -> Jobs]
      /\ job'[p].pc = "clear" /\ job'[p].run = job[p].run
      /\ \A q \in Procs \ {p} : job'[q] = job[q]
  BY <1>1, Goes DEF WorkspaceInv, Held
<1>3. holder = p /\ Collecting
  BY <1>1 DEF WorkspaceInv, Locked, Held, Collecting, Apart
<1>4. StoreTypes' /\ Locked' /\ PlansBehind'
  BY <1>1, <1>2, <1>3 DEF WorkspaceInv, StoreTypes, Locked, PlansBehind, Held
<1>5. EntriesGood'
  BY <1>1 DEF WorkspaceInv, EntriesGood, Good, Loads
<1>6. PlanFollowed'
  <2>1. /\ plan[job[p].run] # None /\ Acceptable(plan[job[p].run])
        /\ \A d \in Docs : Acquired(d)
    BY <1>3 DEF WorkspaceInv, PlanFollowed
  <2>2. Acceptable(plan[job[p].run])'
    BY <1>1, <1>2, <2>1 DEF Acceptable, Named
  <2>3. ASSUME NEW d \in Docs
        PROVE  Acquired(d)'
    <3>1. Label(d)' = Label(d)
      BY <1>1, <1>2, <1>3 DEF Label
    <3> QED
      BY <1>1, <2>1, <3>1 DEF Acquired, Unstored, Loads
  <2>4. Complete(p)'
    BY <1>1, <1>2 DEF Complete, Inventory, Named
  <2> QED
    BY <1>1, <1>2, <1>3, <2>1, <2>2, <2>3, <2>4 DEF PlanFollowed
<1> QED
  BY <1>4, <1>5, <1>6 DEF WorkspaceInv

LEMMA ClearOneKeeps ==
  ASSUME WorkspaceInv, NEW p \in Procs, ClearOne(p)
  PROVE  WorkspaceInv'
<1>1. /\ UNCHANGED <<upstream, files, state, plan, holder, job, work, reading>>
      /\ \E d \in Docs : staging' = [staging EXCEPT ![d] = None]
  BY DEF ClearOne, Named, world, build
<1>2. StoreTypes' /\ Locked' /\ PlansBehind'
  BY <1>1 DEF WorkspaceInv, StoreTypes, Locked, PlansBehind
<1>3. EntriesGood'
  BY <1>1 DEF WorkspaceInv, StoreTypes, EntriesGood, Good, Loads
<1>4. PlanFollowed'
  BY <1>1, StillFollowed DEF WorkspaceInv
<1> QED
  BY <1>2, <1>3, <1>4 DEF WorkspaceInv

\* What is committed: of every document that is done, the entry its thread has acquired.
LEMMA Commits ==
  ASSUME Apart, WorkspaceInv, NEW p \in Procs, Commit(p)
  PROVE  /\ holder = p /\ job[p].pc = "clear" /\ Goto(p, "report") /\ state' = Inventory
         /\ UNCHANGED <<upstream, files, staging, plan, holder, work, reading>>
         /\ job[p].run \in Runs /\ plan[job[p].run] # None
         /\ Acceptable(plan[job[p].run]) /\ Complete(p)
         /\ Inventory \in [Docs -> Entries \cup {None}]
         /\ \A d \in Docs : Inventory[d] # None =>
              Good(d, Inventory[d]) /\ Inventory[d].label = plan[job[p].run][d]
<1>1. /\ job[p].pc = "clear" /\ Goto(p, "report") /\ state' = Inventory
      /\ UNCHANGED <<upstream, files, staging, plan, holder, work, reading>>
  BY DEF Commit, At, world, build
<1>2. holder = p /\ Collecting
  BY <1>1 DEF WorkspaceInv, Locked, Held, Collecting, Apart
<1>3. /\ job[p].run \in Runs /\ plan[job[p].run] # None
      /\ Acceptable(plan[job[p].run]) /\ Complete(p)
      /\ \A d \in Docs : Acquired(d)
  BY <1>1, <1>2 DEF WorkspaceInv, Locked, PlanFollowed
<1>4. ASSUME NEW d \in Docs
      PROVE  /\ Inventory[d] \in Entries \cup {None}
             /\ Inventory[d] # None =>
                  Good(d, Inventory[d]) /\ Inventory[d].label = plan[job[p].run][d]
  BY <1>2, <1>3 DEF Inventory, Acquired, Good, Label
<1>5. Inventory \in [Docs -> Entries \cup {None}]
  BY <1>4 DEF Inventory
<1> QED
  BY <1>1, <1>2, <1>3, <1>4, <1>5

LEMMA CommitKeeps ==
  ASSUME Apart, WorkspaceInv, NEW p \in Procs, Commit(p)
  PROVE  WorkspaceInv'
<1>1. /\ holder = p /\ job[p].pc = "clear" /\ Goto(p, "report") /\ state' = Inventory
      /\ UNCHANGED <<upstream, files, staging, plan, holder, work, reading>>
      /\ Inventory \in [Docs -> Entries \cup {None}]
      /\ \A d \in Docs : Inventory[d] # None => Good(d, Inventory[d])
  BY Commits
<1>2. /\ job' \in [Procs -> Jobs]
      /\ job'[p].pc = "report" /\ job'[p].run = job[p].run
      /\ \A q \in Procs \ {p} : job'[q] = job[q]
  BY <1>1, Goes DEF WorkspaceInv, Held
<1>3. StoreTypes' /\ Locked' /\ PlansBehind'
  BY <1>1, <1>2 DEF WorkspaceInv, StoreTypes, Locked, PlansBehind, Held
<1>4. EntriesGood'
  BY <1>1 DEF WorkspaceInv, EntriesGood, Good, Loads
<1>5. PlanFollowed'
  BY <1>1, <1>2 DEF PlanFollowed, Collecting
<1> QED
  BY <1>3, <1>4, <1>5 DEF WorkspaceInv

-----------------------------------------------------------------------------
LEMMA WorkspaceStutter == ASSUME WorkspaceInv, UNCHANGED workspaceVars PROVE WorkspaceInv'
<1>1. UNCHANGED <<upstream, files, staging, state, plan, holder, job, work, reading>>
  BY DEF workspaceVars, world, disk, build
<1>2. upstream' \in Listings /\ \A d \in Docs : upstream[d] <= upstream'[d]
  BY <1>1 DEF WorkspaceInv, StoreTypes, Listings
<1> QED
  BY <1>1, <1>2, Outside DEF WorkspaceInv, Locked

\* Whatever ends an update early, and its report.
LEMMA EndingKeeps ==
  ASSUME Apart, WorkspaceInv, NEW p \in Procs,
         \/ LockHeld(p) \/ RunDirExists(p) \/ DiscoveryRefused(p) \/ Abort(p) \/ TooFew(p)
         \/ Report(p) \/ Fails(p) \/ Kill(p)
  PROVE  WorkspaceInv'
BY ReturnKeeps
   DEF LockHeld, RunDirExists, DiscoveryRefused, Abort, TooFew, Report, Fails, Kill,
       world, disk, build

LEMMA ProcessStepKeeps ==
  ASSUME WorkspaceConstants, Apart, WorkspaceInv, NEW p \in Procs, ProcessStep(p)
  PROVE  WorkspaceInv'
BY EndingKeeps, LockKeeps, MakeRunDirKeeps, DiscoverKeeps, CollectKeeps, ClearOneKeeps,
   CommitKeeps
   DEF ProcessStep

LEMMA WorkspaceInvKept ==
  ASSUME WorkspaceConstants, Apart, WorkspaceInv, [WorkspaceNext]_workspaceVars
  PROVE  WorkspaceInv'
<1>1. CASE World \/ EndBuild \/ \E r \in Runs : Retain(r)
  BY <1>1, WorldKeeps
<1>2. CASE Fault
  BY <1>2, EndingKeeps, ThreadStepKeeps DEF Fault
<1>3. CASE \E r \in Runs : \E p \in Procs : Start(p, r)
  BY <1>3, StartKeeps
<1>4. CASE \E p \in Procs : ProcessStep(p)
  BY <1>4, ProcessStepKeeps
<1>5. CASE \E d \in Docs : ThreadStep(d)
  BY <1>5, ThreadStepKeeps
<1>6. CASE UNCHANGED workspaceVars
  BY <1>6, WorkspaceStutter
<1> QED
  BY <1>1, <1>2, <1>3, <1>4, <1>5, <1>6 DEF WorkspaceNext

\* Whatever is killed, fails or is resumed: the lock has one holder, no plan is ahead of upstream
\* and every thread has stored what its position says (mod.rs acquire_one, source_update.rs).
THEOREM WorkspaceAlwaysSound ==
  ASSUME WorkspaceConstants, Apart
  PROVE  WorkspaceSpec => []WorkspaceInv
<1>1. WorkspaceInit => WorkspaceInv
  BY WorkspaceInvHolds
<1>2. WorkspaceInv /\ [WorkspaceNext]_workspaceVars => WorkspaceInv'
  BY WorkspaceInvKept
<1> QED
  BY <1>1, <1>2, PTL DEF WorkspaceSpec

\* Every entry of state.json and of staging/ can be loaded, whatever was killed, failed or resumed,
\* and claims no later version than the text it was stored with, however old the plan and however
\* often upstream publishes during the run (mod.rs load_inventory_document, reusable_entry).
THEOREM EntriesAlwaysSound ==
  ASSUME WorkspaceConstants, Apart
  PROVE  WorkspaceSpec => []EntriesSound
<1>1. WorkspaceInv => EntriesSound
  BY DEF WorkspaceInv, EntriesGood, Good, EntriesSound, EntriesLoad, NeverAhead
<1> QED
  BY <1>1, WorkspaceAlwaysSound, PTL

\* Only a commit writes the inventory.
LEMMA OnlyCommitWrites ==
  ASSUME [WorkspaceNext]_workspaceVars, state' # state
  PROVE  \E p \in Procs : Commit(p)
<1>1. \A d \in Docs : ~ThreadStep(d) /\ ~GetFails(d) /\ ~WriteFails(d)
  BY DEF ThreadStep, Take, Get, Create, Write, FindSame, Collide, Stage, GetFails, WriteFails, disk
<1>2. ~World /\ ~EndBuild /\ \A r \in Runs : ~Retain(r) /\ \A p \in Procs : ~Start(p, r)
  BY DEF World, Publish, Withdraw, Ask, BeginBuild, EndBuild, Retain, Start, disk
<1>3. \A p \in Procs : ~Fails(p) /\ ~Kill(p)
  BY DEF Fails, Kill, disk
<1>4. PICK p \in Procs : ProcessStep(p)
  BY <1>1, <1>2, <1>3 DEF WorkspaceNext, Fault, workspaceVars, disk
<1>5. /\ ~Lock(p) /\ ~LockHeld(p) /\ ~MakeRunDir(p) /\ ~RunDirExists(p) /\ ~Discover(p)
      /\ ~DiscoveryRefused(p) /\ ~Abort(p) /\ ~TooFew(p) /\ ~Collect(p) /\ ~ClearOne(p)
      /\ ~Report(p)
  BY DEF Lock, LockHeld, MakeRunDir, RunDirExists, Discover, DiscoveryRefused, Abort, TooFew,
         Collect, ClearOne, Report, disk
<1> QED
  BY <1>4, <1>5 DEF ProcessStep

\* The inventory only ever becomes that of one plan, nearly whole, and no smaller than the
\* retention policy allows (mod.rs fetch_documents).
THEOREM CommitsAlwaysWhole ==
  ASSUME WorkspaceConstants, Apart
  PROVE  WorkspaceSpec => CommitsWholePlan
<1> DEFINE WholePlan ==
      state' # state =>
        \E r \in Runs :
          /\ plan[r] # None
          /\ \A d \in Named(state') : state'[d].label = plan[r][d]
          /\ Cardinality(Named(state')) * 100 >= Cardinality(Planned(plan[r])) * FullText
          /\ Cardinality(Planned(plan[r])) * 100 >= Cardinality(Named(state)) * Retention
<1>1. ASSUME WorkspaceInv, [WorkspaceNext]_workspaceVars
      PROVE  WholePlan
  <2>1. SUFFICES ASSUME state' # state
                 PROVE  \E r \in Runs :
                          /\ plan[r] # None
                          /\ \A d \in Named(state') : state'[d].label = plan[r][d]
                          /\ Cardinality(Named(state')) * 100
                               >= Cardinality(Planned(plan[r])) * FullText
                          /\ Cardinality(Planned(plan[r])) * 100
                               >= Cardinality(Named(state)) * Retention
    OBVIOUS
  <2>2. PICK p \in Procs : Commit(p)
    BY <1>1, <2>1, OnlyCommitWrites
  <2>3. /\ state' = Inventory /\ job[p].run \in Runs /\ plan[job[p].run] # None
        /\ Acceptable(plan[job[p].run]) /\ Complete(p)
        /\ \A d \in Docs : Inventory[d] # None => Inventory[d].label = plan[job[p].run][d]
    BY <1>1, <2>2, Commits
  <2>4. \A d \in Named(state') : state'[d].label = plan[job[p].run][d]
    BY <2>3 DEF Named
  <2> QED
    BY <2>3, <2>4 DEF Complete, Acceptable
<1> QED
  BY <1>1, WorkspaceAlwaysSound, PTL DEF WorkspaceSpec, CommitsWholePlan

\* Nothing that a build reads changes or goes away while it reads (source_update.rs
\* lock_workspace_shared, build.rs).
THEOREM BuildsReadSnapshot ==
  ASSUME WorkspaceConstants, Apart
  PROVE  WorkspaceSpec => BuildSnapshot
<1>1. ASSUME WorkspaceInv, [WorkspaceNext]_workspaceVars, WorkspaceInv'
      PROVE  reading => state' = state /\ \A d \in Named(state) : Loads(d, state[d])'
  <2>1. SUFFICES ASSUME reading
                 PROVE  state' = state /\ \A d \in Named(state) : Loads(d, state[d])'
    OBVIOUS
  <2>2. holder = None
    BY <1>1, <2>1 DEF WorkspaceInv, Locked
  <2>3. state' = state
    <3>1. SUFFICES ASSUME NEW p \in Procs, Commit(p)
                   PROVE  FALSE
      BY <1>1, OnlyCommitWrites
    <3> QED
      BY <1>1, <2>2, <3>1, Commits DEF Apart
  <2> QED
    BY <1>1, <2>3 DEF WorkspaceInv, EntriesGood, Good, Named, Loads
<1> QED
  BY <1>1, WorkspaceAlwaysSound, PTL DEF WorkspaceSpec, BuildSnapshot

-----------------------------------------------------------------------------
(* AtoAcquisition: the invariant *)

\* A line of the index, and what an update and its threads are about.
Records == [status : {"none", "failed", "success"}, version : Nat, refresh : BOOLEAN]

\* Nowhere is not an index.
NowhereApart == Nowhere \notin [Ids -> Records]

Updates ==
  [pc : {"idle"}, run : {0}]
    \cup [pc : {"discover", "load"}, run : AtoRuns, mode : AtoModes]
    \cup [pc : {"fetch"}, run : {0} \cup AtoRuns, queue : SUBSET Ids, force : BOOLEAN,
          errors : Nat, broken : BOOLEAN, glued : BOOLEAN]

ThreadStates == [pc : {"idle", "ready", "get", "append", "write", "ended"},
                 doc : {Nowhere} \cup Ids, record : Records]

AtoTypes ==
  /\ published \in [Ids -> Nat]
  /\ feed \subseteq Ids
  /\ index \in {Nowhere} \cup [Ids -> Records]
  /\ memory \in [Ids -> Records]
  /\ linkLists \in [AtoRuns -> {Nowhere} \cup SUBSET Ids]
  /\ update \in Updates
  /\ threads \in [Workers -> ThreadStates]

\* The payload of a record is there, and nothing later is published than what it can be.
Vouched(d, record) ==
  record.status = "success" => record.version <= published[d] /\ <<d, record.version>> \in payloads

\* A record does not lose what another one vouches for.
Keeps(record, old) ==
  old.status = "success" => record.status = "success" /\ record.version >= old.version

Busy(w) == threads[w].pc \in {"get", "append", "write"}

\* No two threads have the same document, and none one that is still to be taken.
OneEach ==
  \A w \in Workers : Busy(w) =>
    /\ threads[w].doc \in Ids \ update.queue
    /\ \A v \in Workers \ {w} : Busy(v) => threads[v].doc # threads[w].doc

\* What a thread is about to put into the index.
Outcome(w) ==
  /\ threads[w].pc \in {"append", "write"} =>
       /\ Vouched(threads[w].doc, threads[w].record)
       /\ Keeps(threads[w].record, memory[threads[w].doc])
       /\ update.errors = 0 => IsComplete(threads[w].record)
  /\ threads[w].pc = "write" =>
       /\ memory[threads[w].doc] = threads[w].record
       /\ \A v \in Workers \ {w} : threads[v].pc # "write"
  /\ threads[w].pc = "ended" => update.queue = {} \/ update.broken

\* Each document of the plan is still to be had, or has been.
Accounted ==
  update.run \in AtoRuns =>
    \A d \in linkLists[update.run] :
      \/ d \in update.queue \/ IsComplete(memory[d])
      \/ update.errors > 0 \/ update.broken
      \/ \E w \in Workers : Busy(w) /\ threads[w].doc = d

\* While the threads run: memory has what the file has, and what was fetched since.
Downloading ==
  /\ index # Nowhere
  /\ \A d \in Ids : Vouched(d, memory[d]) /\ Keeps(memory[d], index[d])
  /\ update.run \in AtoRuns => linkLists[update.run] \subseteq Ids
  /\ OneEach
  /\ \A w \in Workers : threads[w].pc # "idle" /\ Outcome(w)
  /\ Accounted

AtoInv ==
  /\ AtoTypes
  /\ index # Nowhere => \A d \in Ids : Vouched(d, index[d])
  /\ RunAt("load") => linkLists[update.run] \subseteq Ids
  /\ RunAt("fetch") => Downloading

LEMMA AtoStartTypes ==
  NoRecord \in Records /\ Blank \in [Ids -> Records] /\ NoRun \in Updates
  /\ NoThreads \in [Workers -> ThreadStates]
BY DEF NoRecord, Records, Blank, NoRun, Updates, NoThreads, NoWorker, ThreadStates

\* While the threads run, the update carries what they share.
LEMMA WhileDownloading ==
  ASSUME AtoInv, RunAt("fetch")
  PROVE  /\ Downloading
         /\ update \in [pc : {"fetch"}, run : {0} \cup AtoRuns, queue : SUBSET Ids, force : BOOLEAN,
                        errors : Nat, broken : BOOLEAN, glued : BOOLEAN]
BY DEF AtoInv, AtoTypes, Updates, RunAt

\* A run that ends leaves nothing behind but the index.
LEMMA EndRunKeeps ==
  ASSUME AtoInv, EndRun, UNCHANGED <<published, feed, payloads, linkLists>>,
         index' \in {Nowhere} \cup [Ids -> Records],
         index' # Nowhere => \A d \in Ids : Vouched(d, index'[d])
  PROVE  AtoInv'
<1>1. AtoTypes'
  BY AtoStartTypes DEF AtoInv, AtoTypes, EndRun
<1>2. ~RunAt("load")' /\ ~RunAt("fetch")'
  BY DEF EndRun, NoRun, RunAt
<1> QED
  BY <1>1, <1>2 DEF AtoInv, Vouched

\* Every way in which a run ends.
LEMMA EndingsKeep ==
  ASSUME AtoInv, DiffRefused \/ NothingNew \/ Broken \/ KillRun \/ Rewrite
  PROVE  AtoInv'
<1>1. CASE DiffRefused \/ NothingNew \/ Broken \/ KillRun
  <2>1. EndRun /\ UNCHANGED <<published, feed, payloads, linkLists, index>>
    BY <1>1 DEF DiffRefused, NothingNew, Broken, KillRun
  <2> QED
    BY <2>1, EndRunKeeps DEF AtoInv, AtoTypes
<1>2. CASE Rewrite
  <2>1. EndRun /\ UNCHANGED <<published, feed, payloads, linkLists>> /\ index' = memory
    BY <1>2 DEF Rewrite
  <2>2. Downloading
    BY <1>2, WhileDownloading DEF Rewrite, Joined
  <2> QED
    BY <2>1, <2>2, EndRunKeeps DEF AtoInv, AtoTypes, Downloading
<1> QED
  BY <1>1, <1>2

\* The steps before the download.
LEMMA BeforeKeeps ==
  ASSUME AtoConstants, AtoInv,
         \/ \E d \in Ids : PublishId(d)
         \/ \E r \in AtoRuns, mode \in AtoModes : BeginRun(r, mode)
         \/ Diff \/ Crawl \/ \E f \in Folders : CrawlSkips(f)
  PROVE  AtoInv'
<1>1. ASSUME NEW d \in Ids, PublishId(d)
      PROVE  AtoInv'
  <2>1. /\ update.pc = "idle" /\ update' = update /\ threads' = threads /\ memory' = memory
        /\ UNCHANGED <<index, payloads, linkLists>>
        /\ published' \in [Ids -> Nat] /\ feed' \subseteq Ids
        /\ \A e \in Ids : published'[e] >= published[e]
    BY <1>1 DEF PublishId, RunAt, AtoInv, AtoTypes
  <2>2. AtoTypes'
    BY <2>1 DEF AtoInv, AtoTypes
  <2>3. index' # Nowhere => \A e \in Ids : Vouched(e, index[e])'
    <3> SUFFICES ASSUME index # Nowhere, NEW e \in Ids
                 PROVE  Vouched(e, index[e])'
      BY <2>1
    <3>1. /\ Vouched(e, index[e]) /\ index[e] \in Records
          /\ published[e] \in Nat /\ published'[e] \in Nat
      BY <2>1 DEF AtoInv, AtoTypes
    <3> QED
      BY <2>1, <3>1 DEF Vouched, Records
  <2> QED
    BY <2>1, <2>2, <2>3 DEF AtoInv, RunAt
<1>2. ASSUME NEW r \in AtoRuns, NEW mode \in AtoModes, BeginRun(r, mode)
      PROVE  AtoInv'
  <2>1. update' = [pc |-> "discover", run |-> r, mode |-> mode] /\ update' \in Updates
    BY <1>2 DEF BeginRun, Updates
  <2>2. AtoTypes'
    BY <1>2, <2>1 DEF BeginRun, AtoInv, AtoTypes
  <2> QED
    BY <1>2, <2>1, <2>2 DEF BeginRun, AtoInv, RunAt, Vouched
<1>3. ASSUME NEW links \in SUBSET Ids, Save(links), RunAt("discover"),
             UNCHANGED <<published, feed, index, payloads, threads, memory>>
      PROVE  AtoInv'
  <2>1. update \in [pc : {"discover"}, run : AtoRuns, mode : AtoModes]
    BY <1>3 DEF AtoInv, AtoTypes, Updates, RunAt
  <2>2. update' = [update EXCEPT !.pc = "load"] /\ update' \in Updates /\ update'.pc = "load"
    BY <1>3, <2>1 DEF Save, Updates
  <2>3. linkLists' \in [AtoRuns -> {Nowhere} \cup SUBSET Ids] /\ linkLists'[update'.run] = links
    BY <1>3, <2>1, <2>2 DEF Save, AtoInv, AtoTypes
  <2>4. AtoTypes'
    BY <1>3, <2>2, <2>3 DEF AtoInv, AtoTypes
  <2> QED
    BY <1>3, <2>2, <2>3, <2>4 DEF AtoInv, RunAt, Vouched
<1>4. ASSUME Diff
      PROVE  AtoInv'
  BY <1>3, <1>4 DEF Diff, New, AtoInv, AtoTypes
<1>5. ASSUME Crawl
      PROVE  AtoInv'
  BY <1>3, <1>5 DEF Crawl
<1>6. ASSUME NEW f \in Folders, CrawlSkips(f)
      PROVE  AtoInv'
  BY <1>3, <1>6 DEF CrawlSkips
<1> QED
  BY <1>1, <1>2, <1>4, <1>5, <1>6

\* The download begins with the index in memory and all links queued.
LEMMA StartDownloadKeeps ==
  ASSUME AtoConstants, NowhereApart, AtoInv, NEW links \in SUBSET Ids, NEW force \in BOOLEAN,
         StartDownload(links, force), update.run \in AtoRuns => linkLists[update.run] = links,
         update.run \in {0} \cup AtoRuns, UNCHANGED <<published, feed, payloads, linkLists>>
  PROVE  AtoInv'
<1>1. /\ memory' = Index /\ index' = Index /\ Index \in [Ids -> Records]
      /\ \A d \in Ids : Vouched(d, Index[d])
  BY AtoStartTypes DEF StartDownload, Index, AtoInv, AtoTypes, Vouched, Blank, NoRecord
<1>2. /\ update' \in Updates /\ update'.pc = "fetch" /\ update'.run = update.run
      /\ update'.queue = links /\ update'.errors = 0 /\ ~update'.broken
  BY DEF StartDownload, Updates
<1>3. /\ threads' \in [Workers -> ThreadStates]
      /\ \A w \in Workers : threads'[w].pc = "ready"
  BY AtoStartTypes DEF StartDownload, ThreadStates, NoWorker
<1>4. AtoTypes'
  BY <1>1, <1>2, <1>3 DEF AtoInv, AtoTypes
<1>5. Downloading'
  <2>1. index' # Nowhere
    BY <1>1 DEF NowhereApart
  <2>2. \A d \in Ids : (Vouched(d, memory[d]) /\ Keeps(memory[d], index[d]))'
    BY <1>1 DEF Vouched, Keeps, Records
  <2>3. OneEach' /\ \A w \in Workers : (threads[w].pc # "idle" /\ Outcome(w))'
    BY <1>3 DEF OneEach, Outcome, Busy
  <2>4. Accounted'
    BY <1>2 DEF Accounted
  <2> QED
    BY <1>2, <2>1, <2>2, <2>3, <2>4 DEF Downloading
<1> QED
  BY <1>1, <1>2, <1>4, <1>5 DEF AtoInv, RunAt, Vouched

LEMMA DownloadsStart ==
  ASSUME AtoConstants, NowhereApart, AtoInv,
         Load \/ \E links \in SUBSET Ids, force \in BOOLEAN : Download(links, force)
  PROVE  AtoInv'
<1>1. CASE Load
  <2>1. update \in [pc : {"load"}, run : AtoRuns, mode : AtoModes]
    BY <1>1 DEF Load, AtoInv, AtoTypes, Updates, RunAt
  <2>2. linkLists[update.run] \in SUBSET Ids /\ (update.mode = "full") \in BOOLEAN
    BY <1>1 DEF Load, AtoInv
  <2> QED
    BY <1>1, <2>1, <2>2, StartDownloadKeeps DEF Load
<1>2. ASSUME NEW links \in SUBSET Ids, NEW force \in BOOLEAN, Download(links, force)
      PROVE  AtoInv'
  <2>1. update.run = 0 /\ 0 \notin AtoRuns
    BY <1>2 DEF Download, AtoInv, AtoTypes, Updates, RunAt, AtoRuns, AtoConstants
  <2> QED
    BY <1>2, <2>1, StartDownloadKeeps DEF Download
<1> QED
  BY <1>1, <1>2

Fetches ==
  [pc : {"fetch"}, run : {0} \cup AtoRuns, queue : SUBSET Ids, force : BOOLEAN,
   errors : Nat, broken : BOOLEAN, glued : BOOLEAN]

\* A thread takes a document off the queue, or ends when there is none.
LEMMA PopKeeps ==
  ASSUME AtoConstants, AtoInv, NEW w \in Workers, Pop(w)
  PROVE  AtoInv'
<1>1. /\ Downloading /\ update \in Fetches /\ threads \in [Workers -> ThreadStates]
      /\ threads[w].pc = "ready" /\ memory \in [Ids -> Records]
      /\ UNCHANGED <<published, feed, index, payloads, linkLists, memory>>
  BY WhileDownloading DEF Pop, Fetches, AtoInv, AtoTypes
<1>2. CASE update.queue = {} /\ threads' = [threads EXCEPT ![w].pc = "ended"] /\ UNCHANGED update
  <2>1. /\ threads' \in [Workers -> ThreadStates] /\ threads'[w].pc = "ended"
        /\ \A v \in Workers \ {w} : threads'[v] = threads[v]
    BY <1>1, <1>2 DEF ThreadStates
  <2>2. AtoTypes'
    BY <1>1, <1>2, <2>1 DEF AtoInv, AtoTypes
  <2>3. OneEach'
    BY <1>1, <1>2, <2>1 DEF Downloading, OneEach, Busy
  <2>4. ASSUME NEW v \in Workers
        PROVE  threads'[v].pc # "idle" /\ Outcome(v)'
    BY <1>1, <1>2, <2>1 DEF Downloading, Outcome, Vouched
  <2>5. Accounted'
    BY <1>1, <1>2, <2>1 DEF Downloading, Accounted, Busy
  <2>6. Downloading'
    BY <1>1, <1>2, <2>3, <2>4, <2>5 DEF Downloading, Vouched
  <2> QED
    BY <1>1, <1>2, <2>2, <2>6 DEF AtoInv, RunAt, Vouched
<1>3. ASSUME NEW d \in update.queue, update' = [update EXCEPT !.queue = @ \ {d}],
             threads' = IF ~update.force /\ IsComplete(memory[d]) /\ Matches(d, memory[d])
                        THEN threads
                        ELSE [threads EXCEPT ![w].pc = "get", ![w].doc = d]
      PROVE  AtoInv'
  <2>0. d \in Ids
    BY <1>1 DEF Fetches
  <2>1. /\ update' \in Fetches /\ update'.pc = "fetch" /\ update'.run = update.run
        /\ update'.queue = update.queue \ {d} /\ update'.errors = update.errors
        /\ update'.broken = update.broken
    BY <1>1, <1>3 DEF Fetches
  <2>2. /\ threads' \in [Workers -> ThreadStates]
        /\ \A v \in Workers \ {w} : threads'[v] = threads[v]
        /\ \/ IsComplete(memory[d]) /\ threads' = threads
           \/ threads'[w].pc = "get" /\ threads'[w].doc = d
    BY <1>1, <1>3, <2>0 DEF ThreadStates
  <2>3. AtoTypes'
    BY <1>1, <2>1, <2>2 DEF AtoInv, AtoTypes, Updates, Fetches
  <2>4. OneEach'
    BY <1>1, <2>0, <2>1, <2>2 DEF Downloading, OneEach, Busy
  <2>5. ASSUME NEW v \in Workers
        PROVE  threads'[v].pc # "idle" /\ Outcome(v)'
    BY <1>1, <2>1, <2>2 DEF Downloading, Outcome, Vouched
  <2>6. Accounted'
    BY <1>1, <2>1, <2>2 DEF Downloading, Accounted, Busy
  <2>7. Downloading'
    BY <1>1, <2>1, <2>4, <2>5, <2>6 DEF Downloading, Vouched
  <2> QED
    BY <1>1, <2>1, <2>3, <2>7 DEF AtoInv, RunAt, Vouched
<1> QED
  BY <1>2, <1>3 DEF Pop

\* A thread comes back with a record that keeps what there was.
LEMMA OutcomeKeeps ==
  ASSUME AtoConstants, AtoInv, RunAt("fetch"), NEW w \in Workers, threads[w].pc = "get",
         NEW d, d = threads[w].doc, NEW record \in Records, AppendRecord(w, record),
         Vouched(d, record)', Keeps(record, memory[d]),
         update'.errors = 0 => IsComplete(record),
         UNCHANGED <<published, feed, index, linkLists, memory>>, payloads \subseteq payloads',
         update' \in {update, [update EXCEPT !.errors = @ + 1]}
  PROVE  AtoInv'
<1>1. /\ Downloading /\ update \in Fetches /\ threads \in [Workers -> ThreadStates]
      /\ memory \in [Ids -> Records]
  BY WhileDownloading DEF Fetches, AtoInv, AtoTypes
<1>2. /\ update' \in Fetches /\ update'.pc = "fetch" /\ update'.run = update.run
      /\ update'.queue = update.queue /\ update'.errors >= update.errors
      /\ update'.broken = update.broken
  BY <1>1 DEF Fetches
<1>3. /\ threads' \in [Workers -> ThreadStates]
      /\ \A v \in Workers \ {w} : threads'[v] = threads[v]
      /\ threads'[w].pc = "append" /\ threads'[w].doc = threads[w].doc
      /\ threads'[w].record = record
  BY <1>1 DEF AppendRecord, ThreadStates
<1>4. AtoTypes'
  BY <1>1, <1>2, <1>3 DEF AtoInv, AtoTypes, Updates, Fetches
<1>5. OneEach'
  BY <1>1, <1>2, <1>3 DEF Downloading, OneEach, Busy
<1>6. \A doc, old : Vouched(doc, old) => Vouched(doc, old)'
  BY DEF Vouched
<1>7. ASSUME NEW v \in Workers
      PROVE  threads'[v].pc # "idle" /\ Outcome(v)'
  <2>1. CASE v = w
    BY <1>3, <2>1 DEF Outcome
  <2>2. CASE v # w
    <3>1. Outcome(v) /\ threads[v].pc # "idle" /\ threads'[v] = threads[v]
      BY <1>1, <1>3, <2>2 DEF Downloading
    <3>2. update'.errors = 0 => update.errors = 0
      BY <1>1, <1>2 DEF Fetches
    <3>3. \A u \in Workers : threads'[u].pc = "write" => threads[u].pc = "write"
      BY <1>3
    <3> QED
      BY <1>2, <1>6, <3>1, <3>2, <3>3 DEF Outcome
  <2> QED
    BY <2>1, <2>2
<1>8. Accounted'
  <2>1. update.errors > 0 => update'.errors > 0
    BY <1>1, <1>2 DEF Fetches
  <2>2. \A v \in Workers : Busy(v) => Busy(v)' /\ threads'[v].doc = threads[v].doc
    BY <1>3 DEF Busy
  <2> QED
    BY <1>1, <1>2, <2>1, <2>2 DEF Downloading, Accounted
<1>9. Downloading'
  BY <1>1, <1>2, <1>5, <1>6, <1>7, <1>8 DEF Downloading
<1> QED
  BY <1>2, <1>4, <1>6, <1>9 DEF AtoInv, RunAt

\* A request answers, or fails.
LEMMA RequestsKeep ==
  ASSUME AtoConstants, AtoInv, NEW w \in Workers, Store(w) \/ RequestFails(w)
  PROVE  AtoInv'
<1>1. /\ RunAt("fetch") /\ threads[w].pc = "get" /\ Downloading /\ update \in Fetches
      /\ threads[w].doc \in Ids /\ memory \in [Ids -> Records] /\ published \in [Ids -> Nat]
  <2>1. RunAt("fetch") /\ threads[w].pc = "get"
    BY DEF Store, RequestFails
  <2> QED
    BY <2>1, WhileDownloading DEF Fetches, AtoInv, AtoTypes, Downloading, OneEach, Busy
<1>0. PICK d : d = threads[w].doc
  OBVIOUS
<1>2. Vouched(d, memory[d]) /\ memory[d] \in Records /\ published[d] \in Nat
  BY <1>0, <1>1 DEF Downloading
<1>3. CASE Store(w)
  <2>0. PICK record : record = [status |-> "success", version |-> published[d], refresh |-> FALSE]
    OBVIOUS
  <2>1. record \in Records /\ IsComplete(record) /\ Keeps(record, memory[d])
    BY <1>2, <2>0 DEF Records, IsComplete, Keeps, Vouched
  <2>2. /\ AppendRecord(w, record) /\ payloads' = payloads \cup {<<d, published[d]>>}
        /\ UNCHANGED <<published, feed, index, linkLists, memory, update>>
    BY <1>0, <1>3, <2>0 DEF Store
  <2>3. Vouched(d, record)'
    BY <1>2, <2>0, <2>2 DEF Vouched
  <2> QED
    BY <1>0, <1>1, <2>1, <2>2, <2>3, OutcomeKeeps
<1>4. CASE RequestFails(w)
  <2>0. PICK record : record = Failed(d)
    OBVIOUS
  <2>1. record \in Records /\ Vouched(d, record) /\ Keeps(record, memory[d])
    <3>1. CASE Matches(d, memory[d])
      <4>1. /\ record \in Records /\ record.status = memory[d].status
            /\ record.version = memory[d].version
        BY <1>2, <2>0, <3>1 DEF Failed, Records
      <4> QED
        BY <1>2, <4>1 DEF Vouched, Keeps, Records
    <3>2. CASE ~Matches(d, memory[d])
      <4>1. memory[d].status # "success" /\ record.status = "failed" /\ record \in Records
        BY <1>2, <2>0, <3>2 DEF Failed, Matches, Records, Vouched
      <4> QED
        BY <4>1 DEF Vouched, Keeps
    <3> QED
      BY <3>1, <3>2
  <2>2. /\ AppendRecord(w, record) /\ update' = [update EXCEPT !.errors = @ + 1]
        /\ UNCHANGED <<published, feed, index, payloads, linkLists, memory>>
    BY <1>0, <1>4, <2>0 DEF RequestFails
  <2>3. update'.errors # 0
    BY <1>1, <2>2 DEF Fetches
  <2>4. Vouched(d, record)'
    BY <2>1, <2>2 DEF Vouched
  <2> QED
    BY <1>0, <1>1, <2>1, <2>2, <2>3, <2>4, OutcomeKeeps
<1> QED
  BY <1>3, <1>4

\* A thread that breaks off takes the run with it.
LEMMA BreaksKeep ==
  ASSUME AtoConstants, AtoInv, NEW w \in Workers, RequestBreaks(w)
  PROVE  AtoInv'
<1>1. /\ Downloading /\ update \in Fetches /\ threads \in [Workers -> ThreadStates]
      /\ threads[w].pc = "get"
      /\ UNCHANGED <<published, feed, index, payloads, linkLists, memory>>
  BY WhileDownloading DEF RequestBreaks, Fetches, AtoInv, AtoTypes
<1>2. /\ update' \in Fetches /\ update'.pc = "fetch" /\ update'.run = update.run
      /\ update'.queue = update.queue /\ update'.errors = update.errors /\ update'.broken
  BY <1>1 DEF RequestBreaks, Fetches
<1>3. /\ threads' \in [Workers -> ThreadStates] /\ threads'[w].pc = "ended"
      /\ \A v \in Workers \ {w} : threads'[v] = threads[v]
  BY <1>1 DEF RequestBreaks, ThreadStates
<1>4. AtoTypes'
  BY <1>1, <1>2, <1>3 DEF AtoInv, AtoTypes, Updates, Fetches
<1>5. OneEach'
  BY <1>1, <1>2, <1>3 DEF Downloading, OneEach, Busy
<1>6. ASSUME NEW v \in Workers
      PROVE  threads'[v].pc # "idle" /\ Outcome(v)'
  BY <1>1, <1>2, <1>3 DEF Downloading, Outcome, Vouched
<1>7. Downloading'
  BY <1>1, <1>2, <1>5, <1>6 DEF Downloading, Vouched, Accounted
<1> QED
  BY <1>1, <1>2, <1>4, <1>7 DEF AtoInv, RunAt, Vouched

\* The record in memory, under the lock of the index.
LEMMA RecordKeeps ==
  ASSUME AtoConstants, AtoInv, NEW w \in Workers, Record(w)
  PROVE  AtoInv'
<1>1. /\ Downloading /\ update \in Fetches /\ threads \in [Workers -> ThreadStates]
      /\ threads[w].pc = "append" /\ ~Writing /\ memory \in [Ids -> Records]
      /\ index \in [Ids -> Records]
      /\ UNCHANGED <<published, feed, index, payloads, linkLists, update>>
  BY WhileDownloading DEF Record, Fetches, AtoInv, AtoTypes, Downloading
<1>2. PICK d \in Ids : d = threads[w].doc
  BY <1>1 DEF Downloading, OneEach, Busy
<1>3. PICK record \in Records : record = threads[w].record
  BY <1>1 DEF ThreadStates
<1>4. /\ memory' \in [Ids -> Records] /\ memory'[d] = record
      /\ \A e \in Ids \ {d} : memory'[e] = memory[e]
  BY <1>1, <1>2, <1>3 DEF Record
<1>5. /\ threads' \in [Workers -> ThreadStates] /\ threads'[w].pc = "write"
      /\ threads'[w].doc = d /\ threads'[w].record = record
      /\ \A v \in Workers \ {w} : threads'[v] = threads[v]
  BY <1>1, <1>2, <1>3 DEF Record, ThreadStates
<1>6. AtoTypes'
  BY <1>1, <1>4, <1>5 DEF AtoInv, AtoTypes
<1>7. /\ Vouched(d, record) /\ Keeps(record, memory[d]) /\ Keeps(memory[d], index[d])
      /\ update.errors = 0 => IsComplete(record)
  BY <1>1, <1>2, <1>3 DEF Downloading, Outcome
<1>8. ASSUME NEW e \in Ids
      PROVE  (Vouched(e, memory[e]) /\ Keeps(memory[e], index[e]))'
  <2>1. CASE e = d
    <3>1. Keeps(record, index[d])
      BY <1>1, <1>2, <1>7 DEF Keeps, Records
    <3> QED
      BY <1>1, <1>4, <1>7, <2>1, <3>1 DEF Vouched, Keeps
  <2>2. CASE e # d
    BY <1>1, <1>4, <2>2 DEF Downloading, Vouched, Keeps
  <2> QED
    BY <2>1, <2>2
<1>9. OneEach'
  BY <1>1, <1>2, <1>5 DEF Downloading, OneEach, Busy
<1>10. ASSUME NEW v \in Workers
       PROVE  threads'[v].pc # "idle" /\ Outcome(v)'
  <2>1. CASE v = w
    <3>1. Keeps(record, record)
      BY DEF Keeps, Records
    <3> QED
      BY <1>1, <1>4, <1>5, <1>7, <2>1, <3>1 DEF Outcome, Vouched, Writing
  <2>2. CASE v # w
    <3>1. threads'[v] = threads[v] /\ threads[v].pc \notin {"idle", "write"} /\ Outcome(v)
      BY <1>1, <1>5, <2>2 DEF Downloading, Writing
    <3>2. threads[v].pc = "append" => threads[v].doc \in Ids \ {d}
      BY <1>1, <1>2, <2>2 DEF Downloading, OneEach, Busy
    <3> QED
      BY <1>1, <1>4, <3>1, <3>2 DEF Outcome, Vouched
  <2> QED
    BY <2>1, <2>2
<1>11. Accounted'
  <2>1. \A v \in Workers : Busy(v) => Busy(v)' /\ threads'[v].doc = threads[v].doc
    BY <1>1, <1>2, <1>5 DEF Busy
  <2>2. \A e \in Ids \ {d} : memory'[e] = memory[e]
    BY <1>4
  <2>3. Busy(w)' /\ threads'[w].doc = d
    BY <1>5 DEF Busy
  <2>4. update.run \in AtoRuns => linkLists[update.run] \subseteq Ids
    BY <1>1 DEF Downloading
  <2> QED
    BY <1>1, <2>1, <2>2, <2>3, <2>4 DEF Downloading, Accounted
<1>12. Downloading'
  BY <1>1, <1>8, <1>9, <1>10, <1>11 DEF Downloading
<1> QED
  BY <1>1, <1>6, <1>12 DEF AtoInv, RunAt, Vouched

\* The line in the file.  What an earlier run left cut short spoils the first of them.
LEMMA WriteLineKeeps ==
  ASSUME AtoConstants, NowhereApart, AtoInv, NEW w \in Workers, WriteLine(w)
  PROVE  AtoInv'
<1>1. /\ Downloading /\ update \in Fetches /\ threads \in [Workers -> ThreadStates]
      /\ threads[w].pc = "write" /\ memory \in [Ids -> Records]
      /\ index \in [Ids -> Records]
      /\ UNCHANGED <<published, feed, payloads, linkLists, memory>>
  BY WhileDownloading DEF WriteLine, Fetches, AtoInv, AtoTypes, Downloading
<1>2. PICK d \in Ids : d = threads[w].doc
  BY <1>1 DEF Downloading, OneEach, Busy
<1>3. /\ memory[d] = threads[w].record
      /\ update.errors = 0 => IsComplete(memory[d])
  BY <1>1, <1>2 DEF Downloading, Outcome
<1>4. index' \in {index, [index EXCEPT ![d] = memory[d]]}
  BY <1>2, <1>3 DEF WriteLine
<1>5. /\ update' \in Fetches /\ update'.pc = "fetch" /\ update'.run = update.run
      /\ update'.queue = update.queue /\ update'.errors = update.errors
      /\ update'.broken = update.broken
  BY <1>1 DEF WriteLine, Fetches
<1>6. /\ threads' \in [Workers -> ThreadStates] /\ threads'[w].pc = "ready"
      /\ \A v \in Workers \ {w} : threads'[v] = threads[v]
  BY <1>1, AtoStartTypes DEF WriteLine, ThreadStates, NoWorker
<1>7. AtoTypes'
  BY <1>1, <1>4, <1>5, <1>6 DEF AtoInv, AtoTypes, Updates, Fetches
<1>8. index' # Nowhere
  BY <1>1, <1>4 DEF NowhereApart
<1>9. ASSUME NEW e \in Ids
      PROVE  (Vouched(e, memory[e]) /\ Keeps(memory[e], index[e]) /\ Vouched(e, index[e]))'
  <2>1. /\ Vouched(e, memory[e]) /\ Keeps(memory[e], index[e]) /\ Vouched(e, index[e])
        /\ memory[e] \in Records
    BY <1>1 DEF Downloading, AtoInv
  <2>2. index'[e] \in {index[e], memory[e]}
    BY <1>1, <1>4
  <2>3. Keeps(memory[e], memory[e])
    BY <2>1 DEF Keeps, Records
  <2> QED
    BY <1>1, <2>1, <2>2, <2>3 DEF Vouched, Keeps
<1>10. OneEach'
  BY <1>1, <1>5, <1>6 DEF Downloading, OneEach, Busy
<1>11. ASSUME NEW v \in Workers
       PROVE  threads'[v].pc # "idle" /\ Outcome(v)'
  <2>1. threads[v].pc # "idle" /\ Outcome(v)
    BY <1>1 DEF Downloading
  <2> QED
    BY <1>1, <1>5, <1>6, <2>1 DEF Outcome, Vouched
<1>12. Accounted'
  BY <1>1, <1>2, <1>3, <1>5, <1>6 DEF Downloading, Accounted, Busy, Fetches
<1>13. Downloading'
  BY <1>1, <1>5, <1>8, <1>9, <1>10, <1>11, <1>12 DEF Downloading
<1> QED
  BY <1>5, <1>7, <1>9, <1>13 DEF AtoInv, RunAt

LEMMA AtoInvHolds == ASSUME AtoConstants, AtoInit PROVE AtoInv
<1>1. AtoTypes
  <2>1. index \in {Nowhere} \cup [Ids -> Records] /\ published \in [Ids -> Nat]
    <3>1. /\ NoRecord \in Records
          /\ [status |-> "success", version |-> 1, refresh |-> FALSE] \in Records
      BY DEF NoRecord, Records
    <3>2. published \in [Ids -> Nat]
      BY DEF AtoInit
    <3>3. CASE index = Nowhere
      BY <3>2, <3>3
    <3>4. CASE index = [d \in Ids |-> IF published[d] = 0 THEN NoRecord
                                      ELSE [status |-> "success", version |-> 1, refresh |-> FALSE]]
      <4>1. \A d \in Ids : index[d] \in Records
        BY <3>1, <3>4
      <4> QED
        BY <3>2, <3>4, <4>1
    <3> QED
      BY <3>3, <3>4 DEF AtoInit
  <2> QED
    BY <2>1, AtoStartTypes DEF AtoInit, AtoTypes
<1>2. index # Nowhere => \A d \in Ids : Vouched(d, index[d])
  BY DEF AtoInit, Vouched, NoRecord
<1> QED
  BY <1>1, <1>2 DEF AtoInit, NoRun, AtoInv, RunAt

LEMMA AtoInvKept ==
  ASSUME AtoConstants, NowhereApart, AtoInv, [AtoNext]_atoVars
  PROVE  AtoInv'
<1>1. CASE UNCHANGED atoVars
  BY <1>1 DEF atoVars, AtoInv, AtoTypes, RunAt, Vouched, Downloading, OneEach, Outcome, Accounted,
              Busy, Keeps, IsComplete
<1>2. CASE \/ \E d \in Ids : PublishId(d)
           \/ \E r \in AtoRuns, mode \in AtoModes : BeginRun(r, mode)
           \/ Diff \/ Crawl \/ \E f \in Folders : CrawlSkips(f)
  BY <1>2, BeforeKeeps
<1>3. CASE DiffRefused \/ NothingNew \/ Broken \/ KillRun \/ Rewrite
  BY <1>3, EndingsKeep
<1>4. CASE Load \/ \E links \in SUBSET Ids, force \in BOOLEAN : Download(links, force)
  BY <1>4, DownloadsStart
<1>5. ASSUME NEW w \in Workers,
             \/ Pop(w) \/ Store(w) \/ RequestFails(w) \/ RequestBreaks(w) \/ Record(w)
             \/ WriteLine(w)
      PROVE  AtoInv'
  BY <1>5, PopKeeps, RequestsKeep, BreaksKeep, RecordKeeps, WriteLineKeeps
<1> QED
  BY <1>1, <1>2, <1>3, <1>4, <1>5 DEF AtoNext, AtoAdvance

\* An index that is left as it was, or taken over from memory for one document.
LEMMA KeptAsVouched ==
  ASSUME AtoInv, payloads \subseteq payloads', index # Nowhere => index' = index
  PROVE  VerifiedPayloadKept
<1> SUFFICES ASSUME NEW d \in Ids, index # Nowhere, index[d].status = "success"
             PROVE  /\ index'[d].status = "success" /\ index'[d].version >= index[d].version
                    /\ <<d, index'[d].version>> \in payloads'
  BY DEF VerifiedPayloadKept
<1>1. index' = index /\ index[d] \in Records /\ Vouched(d, index[d])
  BY DEF AtoInv, AtoTypes
<1> QED
  BY <1>1 DEF Vouched, Records

\* An index that takes over from memory what some documents have there.
LEMMA KeptByMemory ==
  ASSUME AtoInv, RunAt("fetch"), payloads' = payloads,
         \A d \in Ids : index'[d] \in {index[d], memory[d]}
  PROVE  VerifiedPayloadKept
<1> SUFFICES ASSUME NEW d \in Ids, index[d].status = "success"
             PROVE  /\ index'[d].status = "success" /\ index'[d].version >= index[d].version
                    /\ <<d, index'[d].version>> \in payloads'
  BY DEF VerifiedPayloadKept
<1>1. /\ Downloading /\ index[d] \in Records
  BY WhileDownloading DEF Downloading, AtoInv, AtoTypes
<1>2. Vouched(d, memory[d]) /\ Keeps(memory[d], index[d]) /\ Vouched(d, index[d])
  BY <1>1 DEF Downloading, AtoInv
<1> QED
  BY <1>1, <1>2 DEF Vouched, Keeps, Records

\* A payload that the index vouches for is never forgotten or replaced by an older one, and a run
\* that reports success has every document of its plan, however requests fail, threads break off,
\* runs are killed or the file ends in half a line (downloader.rs, ato_index.rs).
THEOREM IndexAlwaysKept ==
  ASSUME AtoConstants, NowhereApart
  PROVE  AtoSpec => IndexKept
<1>1. ASSUME AtoInv, Rewrite
      PROVE  VerifiedPayloadKept /\ ReportedRunIsComplete
  <2>1. /\ RunAt("fetch") /\ Downloading /\ index' = memory /\ UNCHANGED <<payloads, linkLists>>
        /\ \A w \in Workers : threads[w].pc = "ended"
    BY <1>1, WhileDownloading DEF Rewrite, Joined
  <2>2. VerifiedPayloadKept
    BY <1>1, <2>1, KeptByMemory
  <2>3. ASSUME NEW r \in updated' \ updated
        PROVE  r = update.run /\ r \in AtoRuns /\ update.errors = 0 /\ ~update.broken
    BY <1>1, <2>3 DEF Rewrite
  <2>4. \E w \in Workers : TRUE
    BY DEF AtoConstants
  <2>5. ReportedRunIsComplete
    <3> SUFFICES ASSUME NEW r \in updated' \ updated, NEW d \in linkLists[r]
                 PROVE  IsComplete(memory[d])
      BY <2>1 DEF ReportedRunIsComplete, IsComplete
    <3>1. update.queue = {}
      BY <2>1, <2>3, <2>4 DEF Downloading, Outcome
    <3>2. ~(update.errors > 0)
      BY <2>3
    <3> QED
      BY <2>1, <2>3, <3>1, <3>2 DEF Downloading, Accounted, Busy
  <2> QED
    BY <2>2, <2>5
<1>2. ASSUME AtoInv, NothingNew
      PROVE  VerifiedPayloadKept /\ ReportedRunIsComplete
  <2>1. /\ index' = index /\ payloads' = payloads
        /\ \A r \in updated' \ updated : linkLists[r] = {}
    BY <1>2 DEF NothingNew
  <2> QED
    BY <1>2, <2>1, KeptAsVouched DEF ReportedRunIsComplete
<1>3. ASSUME AtoInv, NEW w \in Workers, WriteLine(w)
      PROVE  VerifiedPayloadKept /\ ReportedRunIsComplete
  <2>1. /\ RunAt("fetch") /\ Downloading /\ UNCHANGED <<payloads, updated>>
        /\ memory[threads[w].doc] = threads[w].record
        /\ index \in [Ids -> Records]
    BY <1>3, WhileDownloading DEF WriteLine, Downloading, Outcome, AtoInv, AtoTypes
  <2>2. \A d \in Ids : index'[d] \in {index[d], memory[d]}
    BY <1>3, <2>1 DEF WriteLine
  <2> QED
    BY <1>3, <2>1, <2>2, KeptByMemory DEF ReportedRunIsComplete
<1>4. ASSUME AtoInv, payloads \subseteq payloads', index # Nowhere => index' = index,
             updated' = updated
      PROVE  VerifiedPayloadKept /\ ReportedRunIsComplete
  BY <1>4, KeptAsVouched DEF ReportedRunIsComplete
<1>5. ASSUME AtoInv, [AtoNext]_atoVars
      PROVE  [VerifiedPayloadKept /\ ReportedRunIsComplete]_atoVars
  <2>1. CASE \/ \E d \in Ids : PublishId(d)
             \/ \E r \in AtoRuns, mode \in AtoModes : BeginRun(r, mode)
             \/ Diff \/ Crawl \/ \E f \in Folders : CrawlSkips(f)
    BY <1>4, <1>5, <2>1 DEF PublishId, BeginRun, Diff, Crawl, CrawlSkips
  <2>2. CASE DiffRefused \/ Broken \/ KillRun
    BY <1>4, <1>5, <2>2 DEF DiffRefused, Broken, KillRun
  <2>3. CASE Load \/ \E links \in SUBSET Ids, force \in BOOLEAN : Download(links, force)
    BY <1>4, <1>5, <2>3 DEF Load, Download, StartDownload, Index
  <2>4. ASSUME NEW w \in Workers,
               Pop(w) \/ Store(w) \/ RequestFails(w) \/ RequestBreaks(w) \/ Record(w)
        PROVE  VerifiedPayloadKept /\ ReportedRunIsComplete
    BY <1>4, <1>5, <2>4 DEF Pop, Store, RequestFails, RequestBreaks, Record
  <2> QED
    BY <1>1, <1>2, <1>3, <1>5, <2>1, <2>2, <2>3, <2>4 DEF AtoNext, AtoAdvance
<1>6. ASSUME AtoInit PROVE AtoInv
  BY <1>6, AtoInvHolds
<1>7. AtoInv /\ [AtoNext]_atoVars => AtoInv'
  BY AtoInvKept
<1> QED
  BY <1>5, <1>6, <1>7, PTL DEF AtoSpec, IndexKept

-----------------------------------------------------------------------------
(* Finite ordered sets *)

\* What R puts before an element of S, and how many that is.
Preceding(S, R, x) == {y \in S : <<y, x>> \in R}
Rank(S, R) == [x \in S |-> Cardinality(Preceding(S, R, x))]

\* R orders S: irreflexive, transitive and total.
Orders(R, S) ==
  /\ \A x \in S : <<x, x>> \notin R
  /\ \A x, y, z \in S : <<x, y>> \in R /\ <<y, z>> \in R => <<x, z>> \in R
  /\ \A x, y \in S : x # y => <<x, y>> \in R \/ <<y, x>> \in R

\* Fewer elements precede one than there are.
LEMMA PrecedingFinite ==
  ASSUME NEW S, NEW R, IsFiniteSet(S), NEW x \in S, Orders(R, S)
  PROVE  /\ IsFiniteSet(Preceding(S, R, x)) /\ Preceding(S, R, x) \in SUBSET (S \ {x})
         /\ Cardinality(Preceding(S, R, x)) \in Nat
         /\ Cardinality(Preceding(S, R, x)) < Cardinality(S)
<1>1. Preceding(S, R, x) \in SUBSET (S \ {x})
  BY DEF Preceding, Orders
<1>2. IsFiniteSet(S \ {x}) /\ Cardinality(S \ {x}) = Cardinality(S) - 1
  BY FS_RemoveElement
<1>3. Cardinality(S) \in Nat /\ Cardinality(S \ {x}) \in Nat
  BY <1>2, FS_CardinalityType
<1>4. /\ IsFiniteSet(Preceding(S, R, x))
      /\ Cardinality(Preceding(S, R, x)) <= Cardinality(S \ {x})
  BY <1>1, <1>2, FS_Subset
<1>5. Cardinality(Preceding(S, R, x)) \in Nat
  BY <1>4, FS_CardinalityType
<1> QED
  BY <1>1, <1>2, <1>3, <1>4, <1>5

\* What precedes an element precedes whatever it precedes.
LEMMA RankGrows ==
  ASSUME NEW S, NEW R, IsFiniteSet(S), Orders(R, S), NEW x \in S, NEW y \in S, <<x, y>> \in R
  PROVE  Cardinality(Preceding(S, R, x)) < Cardinality(Preceding(S, R, y))
<1>1. Preceding(S, R, x) \in SUBSET Preceding(S, R, y)
  BY DEF Preceding, Orders
<1>2. x \in Preceding(S, R, y) /\ x \notin Preceding(S, R, x)
  BY DEF Preceding, Orders
<1>3. /\ IsFiniteSet(Preceding(S, R, y)) /\ Cardinality(Preceding(S, R, y)) \in Nat
      /\ Cardinality(Preceding(S, R, x)) \in Nat
  BY PrecedingFinite
<1>4. /\ Cardinality(Preceding(S, R, x)) <= Cardinality(Preceding(S, R, y))
      /\ Cardinality(Preceding(S, R, x)) # Cardinality(Preceding(S, R, y))
  BY <1>1, <1>2, <1>3, FS_Subset
<1> QED
  BY <1>3, <1>4

\* The ranks of a finite ordered set are 0, 1, 2, ...: each is some element's, and only its.
LEMMA RanksAreNumbers ==
  ASSUME NEW S, NEW R, IsFiniteSet(S), Orders(R, S)
  PROVE  /\ Rank(S, R) \in Injection(S, 0 .. (Cardinality(S) - 1))
         /\ Rank(S, R) \in Surjection(S, 0 .. (Cardinality(S) - 1))
<1> DEFINE f == Rank(S, R)
           N == 0 .. (Cardinality(S) - 1)
<1>0. Cardinality(S) \in Nat
  BY FS_CardinalityType
<1>1. f \in [S -> N]
  BY <1>0, PrecedingFinite DEF Rank
<1>2. \A x, y \in S : f[x] = f[y] => x = y
  <2> SUFFICES ASSUME NEW x \in S, NEW y \in S, x # y
               PROVE  f[x] # f[y]
    OBVIOUS
  <2>1. <<x, y>> \in R \/ <<y, x>> \in R
    BY DEF Orders
  <2>2. Cardinality(Preceding(S, R, x)) \in Nat /\ Cardinality(Preceding(S, R, y)) \in Nat
    BY PrecedingFinite
  <2> QED
    BY <2>1, <2>2, RankGrows DEF Rank
<1>3. f \in Injection(S, N)
  BY <1>1, <1>2 DEF Injection, IsInjective
<1>4. IsFiniteSet(N) /\ Cardinality(N) = Cardinality(S)
  <2>1. PICK size \in Nat : size = Cardinality(S)
    BY <1>0
  <2>2. /\ IsFiniteSet(0 .. (size - 1))
        /\ Cardinality(0 .. (size - 1))
             = IF 0 > size - 1 THEN 0 ELSE size - 1 - 0 + 1
    BY FS_Interval
  <2> QED
    BY <2>1, <2>2
<1> HIDE DEF f, N
<1>5. f \in Surjection(S, N)
  BY <1>3, <1>4, FS_Injection
<1> QED
  BY <1>3, <1>5 DEF f, N

\* A finite ordered set that is not empty has a greatest element ...
LEMMA GreatestExists ==
  ASSUME NEW S, NEW R, IsFiniteSet(S), S # {}, Orders(R, S)
  PROVE  \E g \in S : \A x \in S \ {g} : <<x, g>> \in R
<1>1. Cardinality(S) \in Nat /\ Cardinality(S) # 0
  BY FS_CardinalityType, FS_EmptySet
<1>2. PICK g \in S : Rank(S, R)[g] = Cardinality(S) - 1
  BY <1>1, RanksAreNumbers DEF Surjection
<1>3. Cardinality(Preceding(S, R, g)) = Cardinality(S) - 1
  BY <1>2 DEF Rank
<1>4. IsFiniteSet(S \ {g}) /\ Cardinality(S \ {g}) = Cardinality(S) - 1
  BY FS_RemoveElement
<1>5. Preceding(S, R, g) = S \ {g}
  BY <1>3, <1>4, PrecedingFinite, FS_Subset
<1> QED
  BY <1>5 DEF Preceding

\* ... and its first n elements are n, unless they are all.
FirstOf(S, R, n) == {x \in S : Cardinality(Preceding(S, R, x)) < n}

LEMMA FirstAreAll ==
  ASSUME NEW S, NEW R, IsFiniteSet(S), Orders(R, S), NEW n \in Nat,
         Cardinality(FirstOf(S, R, n)) # n
  PROVE  FirstOf(S, R, n) = S
<1>1. Cardinality(S) \in Nat
  BY FS_CardinalityType
<1>2. CASE n >= Cardinality(S)
  BY <1>1, <1>2, PrecedingFinite DEF FirstOf
<1>3. CASE n < Cardinality(S)
  <2> DEFINE f == [x \in FirstOf(S, R, n) |-> Rank(S, R)[x]]
  <2>1. \A x \in FirstOf(S, R, n) : x \in S /\ Rank(S, R)[x] \in 0 .. (n - 1)
    BY PrecedingFinite DEF FirstOf, Rank
  <2>2. f \in Injection(FirstOf(S, R, n), 0 .. (n - 1))
    BY <2>1, RanksAreNumbers DEF Injection, IsInjective
  <2>3. \A k \in 0 .. (n - 1) : \E x \in FirstOf(S, R, n) : f[x] = k
    <3> SUFFICES ASSUME NEW k \in 0 .. (n - 1)
                 PROVE  \E x \in FirstOf(S, R, n) : f[x] = k
      OBVIOUS
    <3>1. PICK x \in S : Rank(S, R)[x] = k
      BY <1>1, <1>3, RanksAreNumbers DEF Surjection
    <3>2. x \in FirstOf(S, R, n)
      BY <3>1 DEF FirstOf, Rank
    <3> QED
      BY <3>1, <3>2
  <2>4. f \in Surjection(FirstOf(S, R, n), 0 .. (n - 1))
    BY <2>2, <2>3 DEF Surjection, Injection
  <2>5. IsFiniteSet(0 .. (n - 1)) /\ Cardinality(0 .. (n - 1)) = n
    BY FS_Interval
  <2> HIDE DEF f
  <2> QED
    BY <2>2, <2>4, <2>5, FS_Injection
<1> QED
  BY <1>1, <1>2, <1>3

-----------------------------------------------------------------------------
(* FrlAcquisition: the invariant *)

\* What the state, a plan and a page of the register hold.
Cursors == [at : Nat, title : Nat, number : Nat]
Rows == [title : Titles, number : Nat, at : Nat, isCurrent : BOOLEAN, isLatest : BOOLEAN]
Inventories == [Titles -> {Absent} \cup Entry]
Versionings == [Titles -> {Absent} \cup Nat]
ScanPlans == [titles : SUBSET Titles, cursor : Cursors, versions : Versionings]

\* Absent is none of the values it stands in for.
AbsentApart == Absent \notin Nat /\ Absent \notin Entry /\ Absent \notin ScanPlans

\* What a scan carries at each position.
ScanShape ==
  /\ scan.pc \in {"idle", "bound", "titles", "versions", "resolve", "load", "fetch", "clear"}
  /\ ScanAt("idle") => scan = NoScan
  /\ ~ScanAt("idle") => scan.run \in Scans
  /\ scan.pc \in {"bound", "load", "fetch", "clear"} => scan = [pc |-> scan.pc, run |-> scan.run]
  /\ ScanAt("titles") =>
       /\ scan = [pc |-> "titles", run |-> scan.run, bound |-> scan.bound, after |-> scan.after,
                  titles |-> scan.titles]
       /\ scan.titles \subseteq Titles
  /\ ScanAt("versions") =>
       scan \in [pc : {"versions"}, run : Scans, titles : SUBSET Titles, after : Cursors,
                 seen : SUBSET Rows, maximum : Cursors]
  /\ ScanAt("resolve") =>
       scan \in [pc : {"resolve"}, run : Scans, titles : SUBSET Titles, seen : SUBSET Rows,
                 maximum : Cursors, versions : Versionings]

FrlTypes ==
  /\ day \in Nat
  /\ registered \in [Titles -> Seq(Nat)]
  /\ current \in [Titles -> Nat]
  /\ inForce \subseteq Titles
  /\ frlState \in [schema : 1 .. Schema, cursor : Cursors, inventory : Inventories]
  /\ staged \in Inventories
  /\ plans \in [Scans -> {Absent} \cup ScanPlans]

\* No version is registered in the future, and a title is in force, in the inventory or in a
\* plan only once a version of it has commenced.
Met(t) == current[t] >= 1
RegisterSound ==
  /\ \A t \in Titles : current[t] <= Len(registered[t])
  /\ \A t \in Titles : \A n \in 1 .. Len(registered[t]) : registered[t][n] <= day
  /\ \A t \in inForce : Met(t)
  /\ \A t \in TitlesIn(frlState.inventory) : Met(t)
  /\ \A r \in Scans : plans[r] # Absent => \A t \in plans[r].titles : Met(t)

\* Cursors lie in the past.
CursorsPast ==
  /\ frlState.cursor.at <= day
  /\ \A r \in Scans : plans[r] # Absent => plans[r].cursor.at <= day

\* The entries and their texts.
TextGood(t, entry) == HasText(t, entry) /\ entry.text = Schema
EntriesKept ==
  /\ \A t \in TitlesIn(frlState.inventory) :
       /\ HasText(t, frlState.inventory[t])
       /\ IsCurrentState => frlState.inventory[t].text = Schema
  /\ \A t \in TitlesIn(staged) : TextGood(t, staged[t])

\* A plan leaves to the inventory what is there, unless another run has committed since.
PlansHold ==
  \A r \in Scans : plans[r] # Absent =>
    \A t \in plans[r].titles : plans[r].versions[t] = Absent =>
      /\ IsCurrentState
      /\ r \notin stale => frlState.inventory[t] # Absent

\* The version of a title that is known on a day is the current one, or the current one is
\* read again by a scan that begins Overlap days before.
Reread(t, at) == registered[t][current[t]] + Overlap >= at
Covered(t, version, at) == t \in late \/ version = current[t] \/ Reread(t, at)

InventoryCovered ==
  IsCurrentState /\ ~regressed =>
    \A t \in TitlesIn(frlState.inventory) :
      Covered(t, frlState.inventory[t].version, frlState.cursor.at)

\* The version of a title that the commit of a plan leaves.
Settled(r, t) ==
  IF plans[r].versions[t] # Absent THEN plans[r].versions[t] ELSE frlState.inventory[t].version
PlansCovered ==
  ~regressed => \A r \in Scans \ stale : plans[r] # Absent => \A t \in plans[r].titles :
    /\ Covered(t, Settled(r, t), plans[r].cursor.at)
    /\ Covered(t, Settled(r, t), frlState.cursor.at)

\* What holds between the steps of a scan, and when none is under way.
Lasting ==
  /\ FrlTypes /\ RegisterSound /\ CursorsPast /\ EntriesKept
  /\ PlansHold /\ InventoryCovered /\ PlansCovered

\* The row of the current version.
CurrentSeen(t) ==
  \E v \in scan.seen : v.title = t /\ v.isCurrent /\ v.number = current[t]
CurrentCursor(t) == [at |-> registered[t][current[t]], title |-> t, number |-> current[t]]

\* Rows are told apart by their cursors.
Distinct(rows) == \A v, w \in rows : Cursor(v) = Cursor(w) => v = w

\* While the versions are paged through: each current version that has been passed was seen,
\* is too old to be read, or was registered since.
Paging ==
  /\ IsFiniteSet(scan.seen) /\ Distinct(scan.seen)
  /\ scan.maximum.at <= day /\ scan.after.at <= day
  /\ \A t \in scan.titles : Met(t)
  /\ \A v \in scan.seen : ~After(Cursor(v), scan.after)
  /\ \A v \in scan.seen : v.isCurrent => Met(v.title) /\ Covered(v.title, v.number, day)
  /\ \A t \in Titles : Met(t) =>
       \/ t \in late \/ Reread(t, day)
       \/ registered[t][current[t]] < LowerBound
       \/ After(CurrentCursor(t), scan.after)
       \/ CurrentSeen(t)

\* When they have been: nothing is left to be passed.
Reach == IF scan.maximum.at > frlState.cursor.at THEN scan.maximum.at ELSE frlState.cursor.at
Resolving ==
  /\ IsFiniteSet(scan.seen) /\ Distinct(scan.seen)
  /\ scan.maximum.at <= day
  /\ \A t \in scan.titles : Met(t)
  /\ \A v \in scan.seen : v.isCurrent => Met(v.title) /\ Covered(v.title, v.number, Reach)
  /\ \A t \in scan.titles :
       \/ t \in late \/ Reread(t, Reach)
       \/ registered[t][current[t]] < LowerBound
       \/ CurrentSeen(t)
  /\ \A t \in scan.titles :
       scan.versions[t] # Absent => Covered(t, scan.versions[t], Reach)

\* How far the thread of a title has come.
ScanFetching ==
  \A t \in Titles :
    /\ fetches[t].pc = "idle" <=> SavedPlan.versions[t] = Absent
    /\ fetches[t].pc \in {"stored", "done"} =>
         /\ fetches[t].entry = [version |-> SavedPlan.versions[t], text |-> Schema]
         /\ HasText(t, fetches[t].entry)

\* What the scan under way has established, at each of its positions.
Underway ==
  /\ fetches \in [Titles -> [pc : {"idle", "todo", "stored", "done"}, entry : {Absent} \cup Entry]]
  /\ ScanShape
  /\ ScanAt("titles") => \A t \in scan.titles : Met(t)
  /\ ScanAt("versions") => Paging
  /\ ScanAt("resolve") => Resolving
  /\ scan.pc \in {"load", "fetch", "clear"} => SavedPlan # Absent
  /\ ScanAt("fetch") => ScanFetching

FrlInv == Lasting /\ Underway

-----------------------------------------------------------------------------
(* Orders, pages and selections *)

\* Cursors are ordered by day, title and number.
LEMMA AfterOrders ==
  /\ \A a \in Cursors : ~After(a, a)
  /\ \A a, b, c \in Cursors : After(a, b) /\ After(b, c) => After(a, c)
  /\ \A a, b \in Cursors : a # b => After(a, b) \/ After(b, a)
<1>1. \A a \in Cursors : a = [at |-> a.at, title |-> a.title, number |-> a.number]
  BY DEF Cursors
<1>2. \A a \in Cursors : a.at \in Nat /\ a.title \in Nat /\ a.number \in Nat
  BY DEF Cursors
<1>3. \A a \in Cursors : ~After(a, a)
  BY <1>2 DEF After
<1>4. \A a, b, c \in Cursors : After(a, b) /\ After(b, c) => After(a, c)
  BY <1>2 DEF After
<1>5. \A a, b \in Cursors : a # b => After(a, b) \/ After(b, a)
  BY <1>1, <1>2 DEF After
<1> QED
  BY <1>3, <1>4, <1>5

\* A row has a cursor.
LEMMA RowsHaveCursors ==
  ASSUME FrlConstants, NEW v \in Rows
  PROVE  Cursor(v) \in Cursors /\ Cursor(v).at = v.at
BY DEF FrlConstants, Rows, Cursors, Cursor

\* The version that the adapter selects is there and preferred to every other.
LEMMA SelectedPreferred ==
  ASSUME FrlConstants, NEW rows \in SUBSET Rows, IsFiniteSet(rows), rows # {}, Distinct(rows)
  PROVE  /\ Selected(rows) \in rows
         /\ \A b \in rows \ {Selected(rows)} : Preferred(Selected(rows), b)
<1> DEFINE R == {p \in rows \X rows : Preferred(p[2], p[1])}
<1>1. \A a, b \in rows : <<b, a>> \in R <=> Preferred(a, b)
  OBVIOUS
<1>2. \A a \in rows : Cursor(a) \in Cursors /\ a.isCurrent \in BOOLEAN /\ a.isLatest \in BOOLEAN
  BY RowsHaveCursors DEF Rows
<1>3. \A a \in rows : ~Preferred(a, a)
  BY <1>2, AfterOrders DEF Preferred
<1>4. \A a, b, c \in rows : Preferred(a, b) /\ Preferred(b, c) => Preferred(a, c)
  <2> SUFFICES ASSUME NEW a \in rows, NEW b \in rows, NEW c \in rows,
                      Preferred(a, b), Preferred(b, c)
               PROVE  Preferred(a, c)
    OBVIOUS
  <2>1. After(Cursor(a), Cursor(b)) /\ After(Cursor(b), Cursor(c)) => After(Cursor(a), Cursor(c))
    BY <1>2, AfterOrders
  <2> QED
    BY <1>2, <2>1 DEF Preferred
<1>5. \A a, b \in rows : a # b => Preferred(a, b) \/ Preferred(b, a)
  <2> SUFFICES ASSUME NEW a \in rows, NEW b \in rows, a # b
               PROVE  Preferred(a, b) \/ Preferred(b, a)
    OBVIOUS
  <2>1. After(Cursor(a), Cursor(b)) \/ After(Cursor(b), Cursor(a))
    BY <1>2, AfterOrders DEF Distinct
  <2>2. /\ a.isCurrent = TRUE \/ a.isCurrent = FALSE
        /\ b.isCurrent = TRUE \/ b.isCurrent = FALSE
        /\ a.isLatest = TRUE \/ a.isLatest = FALSE
        /\ b.isLatest = TRUE \/ b.isLatest = FALSE
    BY <1>2
  <2>3. CASE a.isCurrent # b.isCurrent
    <3>1. \/ a.isCurrent = TRUE /\ b.isCurrent = FALSE
          \/ a.isCurrent = FALSE /\ b.isCurrent = TRUE
      BY <2>2, <2>3
    <3> QED
      BY <3>1, Zenon DEF Preferred
  <2>4. CASE a.isCurrent = b.isCurrent /\ a.isLatest # b.isLatest
    <3>1. \/ a.isLatest = TRUE /\ b.isLatest = FALSE
          \/ a.isLatest = FALSE /\ b.isLatest = TRUE
      BY <2>2, <2>4
    <3> QED
      BY <3>1, <2>4, Zenon DEF Preferred
  <2>5. CASE a.isCurrent = b.isCurrent /\ a.isLatest = b.isLatest
    BY <2>1, <2>5 DEF Preferred
  <2> QED
    BY <2>3, <2>4, <2>5
<1>6. Orders(R, rows)
  BY <1>1, <1>3, <1>4, <1>5 DEF Orders
<1> HIDE DEF R
<1>7. PICK a \in rows : \A b \in rows \ {a} : <<b, a>> \in R
  BY <1>6, GreatestExists
<1>8. \A b \in rows \ {a} : Preferred(a, b)
  BY <1>1, <1>7
<1> QED
  BY <1>8 DEF Selected

AllRows == UNION {Versions(t) : t \in Titles}

RowOf(t, n) ==
  [title |-> t, number |-> n, at |-> registered[t][n],
   isCurrent |-> n = current[t], isLatest |-> n = Len(registered[t])]

\* The versions of a title are finitely many rows, told apart by their numbers.
LEMMA VersionsAreRows ==
  ASSUME FrlConstants, FrlTypes, NEW t \in Titles
  PROVE  /\ Versions(t) \in SUBSET Rows /\ IsFiniteSet(Versions(t)) /\ Distinct(Versions(t))
         /\ \A v \in Versions(t) : /\ v.title = t /\ v.number \in 1 .. Len(registered[t])
                                   /\ v.at = registered[t][v.number]
                                   /\ v.isCurrent <=> v.number = current[t]
<1> DEFINE numbers == 1 .. Len(registered[t])
           f == [n \in numbers |-> RowOf(t, n)]
<1>1. registered[t] \in Seq(Nat) /\ Len(registered[t]) \in Nat
  BY DEF FrlTypes
<1>2. \A n \in numbers : registered[t][n] \in Nat
  BY <1>1
<1>3. Versions(t) = {RowOf(t, n) : n \in numbers}
  BY DEF Versions, RowOf
<1>4. \A n \in numbers : /\ RowOf(t, n) \in Rows
                         /\ RowOf(t, n).title = t /\ RowOf(t, n).number = n
                         /\ RowOf(t, n).at = registered[t][n]
                         /\ RowOf(t, n).isCurrent = (n = current[t])
  BY <1>2 DEF RowOf, Rows
<1>5. IsFiniteSet(numbers)
  BY <1>1, FS_Interval
<1> HIDE DEF numbers
<1>6. f \in Surjection(numbers, Versions(t))
  <2>1. \A n \in numbers : f[n] = RowOf(t, n)
    OBVIOUS
  <2> HIDE DEF f
  <2>2. \A v \in Versions(t) : \E n \in numbers : f[n] = v
    BY <1>3, <2>1
  <2>3. f \in [numbers -> Versions(t)]
    BY <1>3, <2>1 DEF f
  <2> QED
    BY <2>2, <2>3 DEF Surjection
<1> HIDE DEF f
<1>7. IsFiniteSet(Versions(t))
  BY <1>5, <1>6, FS_Surjection
<1>8. \A v \in Versions(t) : /\ v.title = t /\ v.number \in numbers
                             /\ v.at = registered[t][v.number]
                             /\ v.isCurrent <=> v.number = current[t]
  <2> SUFFICES ASSUME NEW n \in numbers
               PROVE  /\ RowOf(t, n).title = t /\ RowOf(t, n).number \in numbers
                      /\ RowOf(t, n).at = registered[t][RowOf(t, n).number]
                      /\ RowOf(t, n).isCurrent <=> RowOf(t, n).number = current[t]
    BY <1>3
  <2>1. RowOf(t, n).isCurrent <=> n = current[t]
    BY <1>4
  <2> QED
    BY <1>4, <2>1
<1>9. Distinct(Versions(t))
  <2> SUFFICES ASSUME NEW v \in Versions(t), NEW w \in Versions(t), Cursor(v) = Cursor(w)
               PROVE  v = w
    BY DEF Distinct
  <2>1. PICK n \in numbers, m \in numbers : v = RowOf(t, n) /\ w = RowOf(t, m)
    BY <1>3
  <2>2. v.number = w.number
    BY DEF Cursor
  <2> QED
    BY <1>4, <2>1, <2>2
<1> QED
  BY <1>3, <1>4, <1>7, <1>8, <1>9 DEF numbers

\* So are those of all titles together, told apart by their cursors.
LEMMA AllRowsAreRows ==
  ASSUME FrlConstants, FrlTypes
  PROVE  AllRows \in SUBSET Rows /\ IsFiniteSet(AllRows) /\ Distinct(AllRows)
<1> DEFINE f == [t \in Titles |-> Versions(t)]
           sets == {Versions(t) : t \in Titles}
<1>1. f \in Surjection(Titles, sets)
  BY DEF Surjection
<1>2. IsFiniteSet(Titles)
  BY DEF FrlConstants
<1>3. \A T \in sets : IsFiniteSet(T)
  BY VersionsAreRows
<1> HIDE DEF f, sets
<1>4. IsFiniteSet(UNION sets)
  BY <1>1, <1>2, <1>3, FS_Surjection, FS_UNION
<1>5. AllRows \in SUBSET Rows
  BY VersionsAreRows DEF AllRows
<1>6. Distinct(AllRows)
  <2> SUFFICES ASSUME NEW v \in AllRows, NEW w \in AllRows, Cursor(v) = Cursor(w)
               PROVE  v = w
    BY DEF Distinct
  <2>1. PICK t \in Titles, u \in Titles : v \in Versions(t) /\ w \in Versions(u)
    BY DEF AllRows
  <2>2. v.title = w.title
    BY DEF Cursor
  <2>3. t = u
    BY <2>1, <2>2, VersionsAreRows
  <2> QED
    BY <2>1, <2>3, VersionsAreRows DEF Distinct
<1> QED
  BY <1>4, <1>5, <1>6 DEF sets, AllRows

\* One request for the versions of a title answers with the current one.
LEMMA AuthoritativeIsCurrent ==
  ASSUME FrlConstants, FrlTypes, NEW t \in Titles, Met(t), current[t] <= Len(registered[t])
  PROVE  Authoritative(t) = current[t]
<1> DEFINE row == [title |-> t, number |-> current[t], at |-> registered[t][current[t]],
                   isCurrent |-> TRUE, isLatest |-> current[t] = Len(registered[t])]
<1>1. current[t] \in 1 .. Len(registered[t])
  BY DEF FrlTypes, Met
<1>2. row \in Versions(t)
  BY <1>1 DEF Versions
<1>3. /\ Selected(Versions(t)) \in Versions(t)
      /\ \A b \in Versions(t) \ {Selected(Versions(t))} : Preferred(Selected(Versions(t)), b)
  BY <1>2, VersionsAreRows, SelectedPreferred
<1>4. Selected(Versions(t)).isCurrent
  <2>1. CASE Selected(Versions(t)) = row
    BY <2>1
  <2>2. CASE Selected(Versions(t)) # row
    <3>1. Preferred(Selected(Versions(t)), row) /\ row.isCurrent
      BY <1>2, <1>3, <2>2
    <3>2. Selected(Versions(t)).isCurrent \in BOOLEAN
      BY <1>3, VersionsAreRows DEF Rows
    <3> HIDE DEF row
    <3> QED
      BY <3>1, <3>2, Zenon DEF Preferred
  <2> QED
    BY <2>1, <2>2
<1> QED
  BY <1>3, <1>4, VersionsAreRows DEF Authoritative

\* A page is the first of the rows in their order, and all of them unless it is full.
LEMMA PageInOrder ==
  ASSUME FrlConstants, NEW rows \in SUBSET Rows, IsFiniteSet(rows), Distinct(rows)
  PROVE  /\ Page(rows, Registration) \in SUBSET rows /\ IsFiniteSet(Page(rows, Registration))
         /\ \A x \in Page(rows, Registration) : \A y \in rows :
              After(Cursor(x), Cursor(y)) => y \in Page(rows, Registration)
         /\ Cardinality(Page(rows, Registration)) # PageSize => Page(rows, Registration) = rows
<1> DEFINE R == {p \in rows \X rows : After(Cursor(p[2]), Cursor(p[1]))}
           page == Page(rows, Registration)
<1>1. \A x, y \in rows : <<y, x>> \in R <=> After(Cursor(x), Cursor(y))
  OBVIOUS
<1> HIDE DEF R
<1>2. Orders(R, rows)
  <2>1. \A x \in rows : Cursor(x) \in Cursors
    BY RowsHaveCursors
  <2>2. \A x \in rows : <<x, x>> \notin R
    BY <1>1, <2>1, AfterOrders
  <2>3. \A x, y, z \in rows : <<x, y>> \in R /\ <<y, z>> \in R => <<x, z>> \in R
    BY <1>1, <2>1, AfterOrders
  <2>4. \A x, y \in rows : x # y => <<x, y>> \in R \/ <<y, x>> \in R
    BY <1>1, <2>1, AfterOrders DEF Distinct
  <2> QED
    BY <2>2, <2>3, <2>4 DEF Orders
<1>3. \A x \in rows : Preceding(rows, R, x) = {y \in rows : Registration(y, x)}
  BY <1>1 DEF Preceding, Registration
<1>4. page = FirstOf(rows, R, PageSize)
  BY <1>3 DEF Page, FirstOf
<1> HIDE DEF page
<1>5. page \in SUBSET rows
  BY <1>4 DEF FirstOf
<1>6. IsFiniteSet(page)
  BY <1>5, FS_Subset
<1>7. ASSUME NEW x \in page, NEW y \in rows, After(Cursor(x), Cursor(y))
      PROVE  y \in page
  <2>1. x \in rows /\ <<y, x>> \in R
    BY <1>1, <1>5, <1>7
  <2>2. /\ Cardinality(Preceding(rows, R, y)) < Cardinality(Preceding(rows, R, x))
        /\ Cardinality(Preceding(rows, R, x)) < PageSize
        /\ Cardinality(Preceding(rows, R, x)) \in Nat /\ Cardinality(Preceding(rows, R, y)) \in Nat
    BY <1>2, <1>4, <2>1, RankGrows, PrecedingFinite DEF FirstOf
  <2> QED
    BY <1>4, <2>2 DEF FirstOf, FrlConstants
<1>8. Cardinality(page) # PageSize => page = rows
  BY <1>2, <1>4, FirstAreAll DEF FrlConstants
<1> QED
  BY <1>5, <1>6, <1>7, <1>8 DEF page

\* The cursor that a page leaves is the last one met.
LEMMA LastIsGreatest ==
  ASSUME NEW ends \in SUBSET Cursors, IsFiniteSet(ends), ends # {},
         NEW last, last = Farthest(ends)
  PROVE  last \in ends /\ \A d \in ends \ {last} : After(last, d)
<1> DEFINE R == {p \in ends \X ends : After(p[2], p[1])}
<1>1. \A c, d \in ends : <<d, c>> \in R <=> After(c, d)
  OBVIOUS
<1> HIDE DEF R
<1>2. Orders(R, ends)
  BY <1>1, AfterOrders DEF Orders
<1>3. PICK c \in ends : \A d \in ends \ {c} : <<d, c>> \in R
  BY <1>2, GreatestExists
<1>4. \A d \in ends \ {c} : After(c, d)
  BY <1>1, <1>3
<1> QED
  BY <1>4 DEF Farthest

-----------------------------------------------------------------------------
(* Steps of the register *)

\* A step of the register leaves a title's current version as it is, or late, or registered
\* so recently that the next scan reads it.
Moves(u) ==
  /\ Met(u) => Met(u)'
  /\ \/ u \in late'
     \/ \A at \in Nat : at <= day => registered'[u][current'[u]] + Overlap >= at
     \/ /\ current'[u] = current[u] /\ (u \in late => u \in late')
        /\ Met(u) => registered'[u][current[u]] = registered[u][current[u]]

RegisterStep ==
  /\ Watched
  /\ day' \in Nat /\ day' >= day /\ (ScanAt("versions") => day' = day)
  /\ registered' \in [Titles -> Seq(Nat)]
  /\ current' \in [Titles -> Nat]
  /\ inForce' \subseteq Titles
  /\ \A u \in Titles : Moves(u)
  /\ \A u \in Titles : current'[u] <= Len(registered'[u])
  /\ \A u \in Titles : \A n \in 1 .. Len(registered'[u]) : registered'[u][n] <= day'
  /\ \A u \in inForce' : current'[u] >= 1
  /\ UNCHANGED <<frlDisk, scan, fetches, stale, regressed>>

\* What is known on a day stays known, whatever the register does next.
LEMMA CoveredStays ==
  ASSUME Lasting, RegisterStep, NEW u \in Titles, Met(u), NEW version, NEW at \in Nat, at <= day,
         Covered(u, version, at)
  PROVE  Covered(u, version, at)'
BY DEF RegisterStep, Moves, Covered, Reread, Met

\* A step of the register disturbs nothing that lasts ...
LEMMA RegisterStepLasts ==
  ASSUME FrlConstants, Lasting, RegisterStep
  PROVE  Lasting'
<1> USE DEF Lasting
<1>1. UNCHANGED <<frlState, staged, texts, plans, stale, regressed>>
  BY DEF RegisterStep, frlDisk
<1>2. FrlTypes'
  BY <1>1 DEF FrlTypes, RegisterStep
<1>3. RegisterSound'
  <2>1. \A u \in Titles : Met(u) => Met(u)'
    BY DEF RegisterStep, Moves
  <2>2. \A t \in inForce' : Met(t)'
    BY DEF RegisterStep, Met
  <2>3. TitlesIn(frlState.inventory)' = TitlesIn(frlState.inventory)
    BY <1>1 DEF TitlesIn
  <2>4. \A t \in TitlesIn(frlState.inventory) : Met(t)'
    BY <2>1 DEF RegisterSound, TitlesIn
  <2>5. \A r \in Scans : plans[r] # Absent => \A t \in plans[r].titles : Met(t)'
    BY <2>1 DEF RegisterSound, FrlTypes, ScanPlans
  <2> QED
    BY <1>1, <2>2, <2>3, <2>4, <2>5 DEF RegisterSound, RegisterStep
<1>4. CursorsPast'
  <2>1. /\ frlState.cursor.at \in Nat
        /\ \A r \in Scans : plans[r] # Absent => plans[r].cursor.at \in Nat
    BY DEF FrlTypes, ScanPlans, Cursors
  <2> QED
    BY <1>1, <2>1 DEF CursorsPast, RegisterStep, FrlTypes
<1>5. EntriesKept'
  BY <1>1 DEF EntriesKept, TitlesIn, HasText, IsCurrentState, TextGood
<1>6. PlansHold'
  BY <1>1 DEF PlansHold, IsCurrentState
<1>7. InventoryCovered'
  <2> SUFFICES ASSUME IsCurrentState, ~regressed, NEW t \in TitlesIn(frlState.inventory)
               PROVE  Covered(t, frlState.inventory[t].version, frlState.cursor.at)'
    BY <1>1 DEF InventoryCovered, IsCurrentState, TitlesIn
  <2>1. PICK version, at : version = frlState.inventory[t].version /\ at = frlState.cursor.at
    OBVIOUS
  <2>2. t \in Titles /\ Met(t) /\ at \in Nat /\ at <= day /\ Covered(t, version, at)
    BY <2>1 DEF TitlesIn, RegisterSound, InventoryCovered, FrlTypes, Cursors, CursorsPast
  <2>3. Covered(t, version, at)'
    BY <2>2, CoveredStays
  <2> QED
    BY <1>1, <2>1, <2>3
<1>8. PlansCovered'
  <2> SUFFICES ASSUME ~regressed, NEW r \in Scans \ stale, plans[r] # Absent,
                      NEW t \in plans[r].titles
               PROVE  /\ Covered(t, Settled(r, t), plans[r].cursor.at)'
                      /\ Covered(t, Settled(r, t), frlState.cursor.at)'
    BY <1>1 DEF PlansCovered
  <2>1. PICK version, at, reach : version = Settled(r, t) /\ at = plans[r].cursor.at
                                  /\ reach = frlState.cursor.at
    OBVIOUS
  <2>2. t \in Titles /\ Met(t) /\ at \in Nat /\ at <= day /\ reach \in Nat /\ reach <= day
    BY <2>1 DEF RegisterSound, FrlTypes, ScanPlans, Cursors, CursorsPast
  <2>3. Covered(t, version, at) /\ Covered(t, version, reach)
    BY <2>1 DEF PlansCovered
  <2>4. Covered(t, version, at)' /\ Covered(t, version, reach)'
    BY <2>2, <2>3, CoveredStays
  <2>5. Settled(r, t)' = version
    BY <1>1, <2>1 DEF Settled
  <2> QED
    BY <1>1, <2>1, <2>4, <2>5
<1> QED
  BY <1>2, <1>3, <1>4, <1>5, <1>6, <1>7, <1>8

\* ... nor what the scan under way has established.
LEMMA RegisterStepGoesOn ==
  ASSUME FrlConstants, FrlInv, RegisterStep
  PROVE  Underway'
<1> USE DEF FrlInv, Underway
<1>1. UNCHANGED <<frlState, staged, texts, plans, stale, regressed, scan, fetches>>
  BY DEF RegisterStep, frlDisk
<1>2. ScanShape'
  BY <1>1 DEF ScanShape, ScanAt
<1>3. ~ScanAt("load") /\ ~ScanAt("fetch") /\ ~ScanAt("clear")
  BY DEF RegisterStep, Watched, ScanAt
<1>4. \A u \in Titles : Met(u) => Met(u)'
  BY DEF RegisterStep, Moves
<1>5. ScanAt("titles") => \A t \in scan.titles : Met(t)'
  BY <1>4 DEF ScanShape
<1>6. LowerBound' = LowerBound
  BY <1>1 DEF LowerBound, KnownCursor, IsCurrentState
<1>7. ASSUME ScanAt("versions")
      PROVE  Paging'
  <2>1. /\ scan.titles \subseteq Titles /\ scan.seen \subseteq Rows
        /\ Paging /\ day' = day /\ day \in Nat
    BY <1>7 DEF ScanShape, RegisterStep, Lasting, FrlTypes
  <2>2. \A t \in scan.titles : Met(t)'
    BY <1>4, <2>1 DEF Paging
  <2>3. ASSUME NEW v \in scan.seen, v.isCurrent
        PROVE  Met(v.title)' /\ Covered(v.title, v.number, day)'
    <3>1. PICK title, version, at : title = v.title /\ version = v.number /\ at = day
      OBVIOUS
    <3>2. title \in Titles /\ Met(title) /\ Covered(title, version, at)
      BY <2>1, <2>3, <3>1 DEF Paging, Rows
    <3>3. Covered(title, version, at)' /\ Met(title)'
      BY <1>4, <2>1, <3>1, <3>2, CoveredStays
    <3> QED
      BY <2>1, <3>1, <3>3
  <2>4. ASSUME NEW t \in Titles, Met(t)'
        PROVE  \/ t \in late' \/ Reread(t, day)'
               \/ (registered[t][current[t]] < LowerBound)'
               \/ After(CurrentCursor(t), scan.after)'
               \/ CurrentSeen(t)'
    <3>1. CASE t \in late' \/ registered'[t][current'[t]] + Overlap >= day
      BY <2>1, <3>1 DEF Reread
    <3>2. CASE /\ current'[t] = current[t] /\ t \notin late
               /\ Met(t) => registered'[t][current[t]] = registered[t][current[t]]
      <4>1. Met(t)
        BY <2>4, <3>2 DEF Met
      <4>2. \/ Reread(t, day) \/ registered[t][current[t]] < LowerBound
            \/ After(CurrentCursor(t), scan.after) \/ CurrentSeen(t)
        BY <2>1, <3>2, <4>1 DEF Paging
      <4>3. Reread(t, day) => Reread(t, day)'
        BY <2>1, <3>2, <4>1 DEF Reread
      <4>4. CurrentCursor(t)' = CurrentCursor(t)
        BY <3>2, <4>1 DEF CurrentCursor
      <4>5. CurrentSeen(t) => CurrentSeen(t)'
        BY <1>1, <3>2 DEF CurrentSeen
      <4> QED
        BY <1>1, <1>6, <3>2, <4>1, <4>2, <4>3, <4>4, <4>5
    <3> QED
      BY <2>1, <3>1, <3>2 DEF RegisterStep, Moves
  <2> QED
    BY <1>1, <2>1, <2>2, <2>3, <2>4 DEF Paging, Distinct
<1>8. ASSUME ScanAt("resolve")
      PROVE  Resolving'
  <2>1. /\ scan.titles \subseteq Titles /\ scan.seen \subseteq Rows
        /\ Resolving /\ day \in Nat /\ day' \in Nat /\ day' >= day
        /\ scan.maximum.at \in Nat /\ frlState.cursor.at \in Nat /\ frlState.cursor.at <= day
    BY <1>8 DEF ScanShape, RegisterStep, Lasting, FrlTypes, Cursors, CursorsPast
  <2>2. \A t \in scan.titles : Met(t)'
    BY <1>4, <2>1 DEF Resolving
  <2>3. PICK reach : reach = Reach
    OBVIOUS
  <2>4. reach \in Nat /\ reach <= day /\ Reach' = reach
    BY <1>1, <2>1, <2>3 DEF Reach, Resolving
  <2>5. ASSUME NEW v \in scan.seen, v.isCurrent
        PROVE  Met(v.title)' /\ Covered(v.title, v.number, Reach)'
    <3>1. PICK title, version : title = v.title /\ version = v.number
      OBVIOUS
    <3>2. title \in Titles /\ Met(title) /\ Covered(title, version, reach)
      BY <2>1, <2>3, <2>5, <3>1 DEF Resolving, Rows
    <3>3. Covered(title, version, reach)' /\ Met(title)'
      BY <1>4, <2>4, <3>2, CoveredStays
    <3> QED
      BY <2>4, <3>1, <3>3
  <2>6. ASSUME NEW t \in scan.titles
        PROVE  \/ t \in late' \/ Reread(t, Reach)'
               \/ (registered[t][current[t]] < LowerBound)'
               \/ CurrentSeen(t)'
    <3>1. CASE t \in late' \/ registered'[t][current'[t]] + Overlap >= reach
      BY <2>4, <3>1 DEF Reread
    <3>2. CASE /\ current'[t] = current[t] /\ t \notin late
               /\ Met(t) => registered'[t][current[t]] = registered[t][current[t]]
      <4>1. Met(t)
        BY <2>1 DEF Resolving
      <4>2. \/ Reread(t, reach) \/ registered[t][current[t]] < LowerBound \/ CurrentSeen(t)
        BY <2>1, <2>3, <3>2 DEF Resolving
      <4>3. Reread(t, reach) => Reread(t, reach)'
        BY <3>2, <4>1 DEF Reread
      <4>4. CurrentSeen(t) => CurrentSeen(t)'
        BY <1>1, <3>2 DEF CurrentSeen
      <4> QED
        BY <1>1, <1>6, <2>4, <3>2, <4>1, <4>2, <4>3, <4>4
    <3> QED
      BY <2>1, <2>4, <3>1, <3>2 DEF RegisterStep, Moves
  <2>7. ASSUME NEW t \in scan.titles, scan.versions[t] # Absent
        PROVE  Covered(t, scan.versions[t], Reach)'
    <3>1. PICK version : version = scan.versions[t]
      OBVIOUS
    <3>2. t \in Titles /\ Met(t) /\ Covered(t, version, reach)
      BY <2>1, <2>3, <2>7, <3>1 DEF Resolving
    <3>3. Covered(t, version, reach)'
      BY <2>4, <3>2, CoveredStays
    <3> QED
      BY <1>1, <2>4, <3>1, <3>3
  <2>8. (scan.maximum.at <= day)'
    BY <1>1, <2>1 DEF Resolving
  <2> QED
    BY <1>1, <2>1, <2>2, <2>5, <2>6, <2>7, <2>8 DEF Resolving, Distinct
<1> QED
  BY <1>1, <1>2, <1>3, <1>5, <1>7, <1>8 DEF ScanAt, ScanShape

\* A sequence with one element more.
LEMMA AppendFacts ==
  ASSUME NEW s \in Seq(Nat), NEW x \in Nat, NEW longer, longer = Append(s, x)
  PROVE  /\ Len(longer) = Len(s) + 1 /\ Len(s) \in Nat
         /\ longer[Len(s) + 1] = x
         /\ \A n \in 1 .. Len(s) : longer[n] = s[n]
OBVIOUS

LEMMA RegisterIsStep ==
  ASSUME FrlConstants, FrlInv, NEW t \in Titles, Register(t)
  PROVE  RegisterStep
<1> USE DEF FrlInv, Lasting
<1>1. PICK at \in {d \in 1 .. day : d + Lag >= day}, commenced \in BOOLEAN :
        /\ registered' = [registered EXCEPT ![t] = Append(@, at)]
        /\ IF commenced
           THEN /\ current' = [current EXCEPT ![t] = Len(registered[t]) + 1]
                /\ inForce' = inForce \cup {t}
                /\ late' = late \ {t}
           ELSE UNCHANGED <<current, inForce, late>>
  BY DEF Register
<1>2. /\ day \in Nat /\ registered \in [Titles -> Seq(Nat)] /\ current \in [Titles -> Nat]
      /\ at \in Nat /\ at <= day /\ at + Lag >= day
      /\ \A u \in Titles : current[u] <= Len(registered[u])
      /\ \A u \in Titles : \A n \in 1 .. Len(registered[u]) : registered[u][n] <= day
  BY DEF FrlTypes, RegisterSound
<1>3. /\ \A u \in Titles \ {t} : registered'[u] = registered[u]
      /\ registered'[t] = Append(registered[t], at)
  BY <1>1, <1>2
<1>4. registered' \in [Titles -> Seq(Nat)]
  BY <1>1, <1>2
<1>5. /\ Watched /\ day' = day /\ day' \in Nat /\ day' >= day
       /\ UNCHANGED <<frlDisk, scan, fetches, stale, regressed>>
  BY <1>2 DEF Register
<1>6. inForce \subseteq Titles
  BY DEF FrlTypes
<1>7. /\ Len(registered'[t]) = Len(registered[t]) + 1
      /\ registered'[t][Len(registered[t]) + 1] = at
      /\ \A n \in 1 .. Len(registered[t]) : registered'[t][n] = registered[t][n]
      /\ Len(registered[t]) \in Nat
  <2>1. registered[t] \in Seq(Nat) /\ at \in Nat /\ registered'[t] = Append(registered[t], at)
    BY <1>2, <1>3
  <2>2. Len(registered'[t]) = Len(registered[t]) + 1 /\ Len(registered[t]) \in Nat
    BY <2>1, AppendFacts
  <2>3. registered'[t][Len(registered[t]) + 1] = at
    BY <2>1, AppendFacts
  <2>4. \A n \in 1 .. Len(registered[t]) : registered'[t][n] = registered[t][n]
    BY <2>1, AppendFacts
  <2> QED
    BY <2>2, <2>3, <2>4
<1>8. \A u \in Titles : \A n \in 1 .. Len(registered'[u]) : registered'[u][n] <= day
  <2> SUFFICES ASSUME NEW u \in Titles, NEW n \in 1 .. Len(registered'[u])
               PROVE  registered'[u][n] <= day
    OBVIOUS
  <2>1. CASE u # t
    BY <1>2, <1>3, <2>1
  <2>2. CASE u = t
    <3>1. n \in 1 .. Len(registered[t]) \/ n = Len(registered[t]) + 1
      BY <1>7, <2>2
    <3> QED
      BY <1>2, <1>7, <2>2, <3>1
  <2> QED
    BY <2>1, <2>2
<1>9. CASE commenced
  <2>1. /\ current' = [current EXCEPT ![t] = Len(registered[t]) + 1]
        /\ inForce' = inForce \cup {t} /\ late' = late \ {t}
    BY <1>1, <1>9
  <2>2. current' \in [Titles -> Nat] /\ \A u \in Titles : current'[u] <= Len(registered'[u])
    BY <1>2, <1>3, <1>7, <2>1
  <2>3. \A u \in inForce' : current'[u] >= 1
    BY <1>2, <1>7, <2>1 DEF RegisterSound, Met, FrlTypes
  <2>4. Moves(t)
    <3>1. current'[t] = Len(registered[t]) + 1
      BY <1>2, <2>1
    <3>2. Lag \in Nat /\ Overlap \in Nat /\ Lag <= Overlap
      BY DEF FrlConstants
    <3>3. registered'[t][current'[t]] = at
      BY <1>7, <3>1
    <3>4. \A d \in Nat : d <= day => registered'[t][current'[t]] + Overlap >= d
      BY <1>2, <3>2, <3>3
    <3> QED
      BY <1>7, <3>1, <3>4 DEF Moves, Met
  <2>5. \A u \in Titles \ {t} : Moves(u)
    BY <1>3, <2>1, <1>2 DEF Moves, Met
  <2> QED
    <3>1. \A u \in Titles : Moves(u)
      BY <2>4, <2>5
    <3>2. inForce' \subseteq Titles
      BY <1>6, <2>1
    <3> QED
      BY <1>4, <1>5, <1>8, <2>2, <2>3, <3>1, <3>2 DEF RegisterStep
<1>10. CASE ~commenced
  <2>1. UNCHANGED <<current, inForce, late>>
    BY <1>1, <1>10
  <2>2. \A u \in Titles : Moves(u)
    <3> SUFFICES ASSUME NEW u \in Titles
                 PROVE  Moves(u)
      OBVIOUS
    <3>1. Met(u) => current[u] \in 1 .. Len(registered[u])
      BY <1>2 DEF Met
    <3> QED
      BY <1>3, <1>7, <2>1, <3>1 DEF Moves, Met
  <2> QED
    <3>1. \A u \in Titles : current[u] <= Len(registered'[u])
      <4> SUFFICES ASSUME NEW u \in Titles
                   PROVE  current[u] <= Len(registered'[u])
        OBVIOUS
      <4>1. CASE u = t
        BY <1>2, <1>7, <4>1
      <4> QED
        BY <1>2, <1>3, <4>1
    <3>2. \A u \in inForce : current[u] >= 1
      BY DEF RegisterSound, Met
    <3> QED
      BY <1>2, <1>4, <1>5, <1>6, <1>8, <2>1, <2>2, <3>1, <3>2 DEF RegisterStep
<1> QED
  BY <1>9, <1>10

\* A commencement, a repeal and a new day are such steps too.
LEMMA OtherRegisterSteps ==
  ASSUME FrlConstants, FrlInv, NextDay \/ \E t \in Titles : Commence(t) \/ Repeal(t)
  PROVE  RegisterStep
<1> USE DEF FrlInv, Lasting
<1>1. /\ day \in Nat /\ registered \in [Titles -> Seq(Nat)] /\ current \in [Titles -> Nat]
      /\ inForce \subseteq Titles
      /\ \A u \in Titles : current[u] <= Len(registered[u])
      /\ \A u \in Titles : \A n \in 1 .. Len(registered[u]) : registered[u][n] <= day
      /\ \A u \in inForce : current[u] >= 1
  BY DEF FrlTypes, RegisterSound, Met
<1>2. CASE NextDay
  <2>1. /\ day' = day + 1 /\ UNCHANGED <<registered, current, inForce, late>>
        /\ UNCHANGED <<frlDisk, scan, fetches, stale, regressed>>
        /\ Watched /\ ~ScanAt("versions")
    BY <1>2 DEF NextDay
  <2>2. \A u \in Titles : \A n \in 1 .. Len(registered[u]) : registered[u][n] <= day + 1
    <3>1. \A u \in Titles : \A n \in 1 .. Len(registered[u]) : registered[u][n] \in Nat
      BY <1>1
    <3> QED
      BY <1>1, <3>1
  <2>3. \A u \in Titles : Moves(u)
    BY <2>1 DEF Moves, Met
  <2> QED
    BY <1>1, <2>1, <2>2, <2>3 DEF RegisterStep
<1>3. ASSUME NEW t \in Titles, Commence(t)
      PROVE  RegisterStep
  <2>1. /\ current[t] < Len(registered[t])
        /\ current' = [current EXCEPT ![t] = Len(registered[t])]
        /\ inForce' = inForce \cup {t} /\ late' = late \cup {t}
        /\ UNCHANGED <<day, registered, frlDisk, scan, fetches, stale, regressed>> /\ Watched
    BY <1>3 DEF Commence
  <2>2. Len(registered[t]) \in Nat /\ Len(registered[t]) >= 1
    BY <1>1, <2>1
  <2>3. /\ current' \in [Titles -> Nat] /\ inForce' \subseteq Titles
        /\ \A u \in Titles : current'[u] <= Len(registered[u])
        /\ \A u \in inForce' : current'[u] >= 1
    BY <1>1, <2>1, <2>2
  <2>4. \A u \in Titles : Moves(u)
    BY <1>1, <2>1, <2>2 DEF Moves, Met
  <2> QED
    BY <1>1, <2>1, <2>3, <2>4 DEF RegisterStep
<1>4. ASSUME NEW t \in Titles, Repeal(t)
      PROVE  RegisterStep
  <2>1. /\ inForce' = inForce \ {t}
        /\ UNCHANGED <<day, registered, current, late, frlDisk, scan, fetches, stale, regressed>>
        /\ Watched
    BY <1>4 DEF Repeal
  <2>2. \A u \in Titles : Moves(u)
    BY <2>1 DEF Moves, Met
  <2> QED
    BY <1>1, <2>1, <2>2 DEF RegisterStep
<1> QED
  BY <1>2, <1>3, <1>4

-----------------------------------------------------------------------------
(* Steps that leave the register and the disk alone *)

\* What lasts does so while neither the register nor the disk changes.
LEMMA LastingStays ==
  ASSUME Lasting, UNCHANGED <<register, frlDisk, stale, regressed>>
  PROVE  Lasting'
<1>1. UNCHANGED <<day, registered, current, inForce, late, frlState, staged, texts, plans,
                  stale, regressed>>
  BY DEF register, frlDisk
<1>2. FrlTypes' /\ RegisterSound' /\ CursorsPast'
  BY <1>1 DEF Lasting, FrlTypes, RegisterSound, CursorsPast, Met, TitlesIn
<1>3. EntriesKept' /\ PlansHold'
  BY <1>1 DEF Lasting, EntriesKept, PlansHold, TitlesIn, HasText, TextGood, IsCurrentState
<1>4. InventoryCovered'
  BY <1>1 DEF Lasting, InventoryCovered, IsCurrentState, TitlesIn, Covered, Reread
<1>5. PlansCovered'
  BY <1>1 DEF Lasting, PlansCovered, Settled, Covered, Reread
<1> QED
  BY <1>2, <1>3, <1>4, <1>5 DEF Lasting

\* A scan that ends, at whatever point, leaves the disk as it is.
LEMMA EndScanKeeps ==
  ASSUME EndScan
  PROVE  Underway'
BY DEF EndScan, NoScan, NoFetches, Underway, ScanShape, ScanAt

LEMMA EndingsKeepFrl ==
  ASSUME FrlInv, Unreconciled \/ ReportScan \/ Stop
  PROVE  FrlInv'
<1>1. EndScan /\ UNCHANGED <<register, frlDisk, stale, regressed>>
  BY DEF Unreconciled, ReportScan, Stop
<1> QED
  BY <1>1, EndScanKeeps, LastingStays DEF FrlInv

LEMMA BeginScanKeeps ==
  ASSUME FrlInv, NEW r \in Scans, BeginScan(r)
  PROVE  FrlInv'
<1>1. /\ scan' = [pc |-> IF plans[r] = Absent THEN "bound" ELSE "load", run |-> r]
      /\ UNCHANGED <<register, frlDisk, fetches, stale, regressed>>
  BY DEF BeginScan
<1>2. Lasting'
  BY <1>1, LastingStays DEF FrlInv
<1>3. plans' = plans
  BY <1>1 DEF frlDisk
<1>4. ScanShape'
  BY <1>1 DEF ScanShape, ScanAt
<1>5. (scan.pc \in {"load", "fetch", "clear"} => SavedPlan # Absent)'
  BY <1>1, <1>3 DEF SavedPlan
<1> QED
  BY <1>1, <1>2, <1>4, <1>5 DEF FrlInv, Underway, ScanAt

LEMMA ReadUpperBoundKeeps ==
  ASSUME FrlInv, ReadUpperBound
  PROVE  FrlInv'
<1>1. /\ scan' = [pc |-> "titles", run |-> scan.run, bound |-> Max(Published), after |-> 0,
                  titles |-> {}]
      /\ UNCHANGED <<register, frlDisk, fetches, stale, regressed>> /\ scan.run \in Scans
  BY DEF ReadUpperBound, FrlInv, Underway, ScanShape, ScanAt
<1>2. Lasting'
  BY <1>1, LastingStays DEF FrlInv
<1>3. ScanShape'
  BY <1>1 DEF ScanShape, ScanAt
<1> QED
  BY <1>1, <1>2, <1>3 DEF FrlInv, Underway, ScanAt

\* The scan of the versions begins before all of them.
LEMMA VersionsBegin ==
  ASSUME FrlConstants, FrlInv, NEW r \in Scans, NEW titles \in SUBSET Titles,
         \A t \in titles : Met(t),
         scan' = [pc |-> "versions", run |-> r, titles |-> titles,
                  after |-> Origin, seen |-> {}, maximum |-> KnownCursor],
         UNCHANGED <<register, frlDisk, stale, regressed, fetches>>
  PROVE  FrlInv'
<1>1. UNCHANGED <<day, registered, current, inForce, late, frlState>>
  BY DEF register, frlDisk
<1>2. /\ Origin \in Cursors /\ KnownCursor \in Cursors /\ KnownCursor.at <= day /\ Origin.at <= day
      /\ day \in Nat
  BY DEF Origin, Cursors, KnownCursor, FrlInv, Lasting, FrlTypes, CursorsPast
<1>3. ScanShape'
  BY <1>2 DEF ScanShape, ScanAt
<1>4. Paging'
  <2>1. ASSUME NEW t \in Titles, Met(t)'
        PROVE  After(CurrentCursor(t), scan.after)'
    <3>1. /\ current[t] \in 1 .. Len(registered[t])
          /\ registered[t] \in Seq(Nat) /\ t \in Nat \ {0}
      BY <1>1, <2>1 DEF FrlInv, Lasting, FrlTypes, RegisterSound, Met, FrlConstants
    <3>2. registered[t][current[t]] \in Nat
      BY <3>1
    <3>3. After(CurrentCursor(t), Origin)
      BY <3>1, <3>2 DEF After, CurrentCursor, Origin
    <3>4. CurrentCursor(t)' = CurrentCursor(t) /\ scan'.after = Origin
      BY <1>1 DEF CurrentCursor
    <3> QED
      BY <3>3, <3>4 DEF After
  <2>2. \A t \in titles : Met(t)'
    BY <1>1 DEF Met
  <2>3. IsFiniteSet({})
    BY FS_EmptySet
  <2> QED
    BY <1>1, <1>2, <2>1, <2>2, <2>3 DEF Paging, Distinct
<1>5. Lasting'
  BY LastingStays DEF FrlInv
<1> QED
  BY <1>3, <1>4, <1>5 DEF FrlInv, Underway, ScanAt

\* A page of titles in force.
LEMMA TitlesPageKeeps ==
  ASSUME FrlConstants, FrlInv, TitlesPage
  PROVE  FrlInv'
<1> DEFINE page == Page({t \in Published : scan.after < t /\ t <= scan.bound}, Ascending)
           titles == scan.titles \cup (page \cap inForce)
<1>1. /\ UNCHANGED <<register, frlDisk, stale, regressed>> /\ scan.run \in Scans
      /\ \/ /\ \E last : scan' = [scan EXCEPT !.after = last, !.titles = titles]
            /\ UNCHANGED fetches
         \/ /\ scan' = [pc |-> "versions", run |-> scan.run, titles |-> titles,
                        after |-> Origin, seen |-> {}, maximum |-> KnownCursor]
            /\ UNCHANGED fetches
         \/ EndScan
  BY DEF TitlesPage, FrlInv, Underway, ScanShape, ScanAt
<1>2. /\ scan = [pc |-> "titles", run |-> scan.run, bound |-> scan.bound, after |-> scan.after,
                 titles |-> scan.titles]
      /\ scan.titles \subseteq Titles /\ \A t \in scan.titles : Met(t)
  BY DEF TitlesPage, FrlInv, Underway, ScanShape, ScanAt
<1>3. inForce \subseteq Titles /\ \A t \in inForce : Met(t)
  BY DEF FrlInv, Lasting, FrlTypes, RegisterSound
<1>4. titles \in SUBSET Titles /\ \A t \in titles : Met(t)
  BY <1>2, <1>3
<1> HIDE DEF page, titles
<1>5. ASSUME NEW last, scan' = [scan EXCEPT !.after = last, !.titles = titles], UNCHANGED fetches
      PROVE  FrlInv'
  <2>1. scan' = [pc |-> "titles", run |-> scan.run, bound |-> scan.bound, after |-> last,
                 titles |-> titles]
    <3>1. PICK run, bound, after, met :
            scan = [pc |-> "titles", run |-> run, bound |-> bound, after |-> after, titles |-> met]
      BY <1>2
    <3>2. scan' = [pc |-> "titles", run |-> run, bound |-> bound, after |-> last, titles |-> titles]
      BY <1>5, <3>1
    <3> QED
      BY <3>1, <3>2
  <2>2. ScanShape'
    BY <1>1, <1>4, <2>1 DEF ScanShape, ScanAt
  <2>3. \A t \in titles : Met(t)'
    BY <1>1, <1>4 DEF Met, register
  <2>4. Lasting'
    BY <1>1, LastingStays DEF FrlInv
  <2>5. scan'.pc = "titles" /\ scan'.titles = titles
    BY <2>1
  <2> QED
    BY <1>5, <2>2, <2>3, <2>4, <2>5 DEF FrlInv, Underway, ScanAt
<1>6. CASE /\ scan' = [pc |-> "versions", run |-> scan.run, titles |-> titles,
                       after |-> Origin, seen |-> {}, maximum |-> KnownCursor]
           /\ UNCHANGED fetches
  BY <1>1, <1>4, <1>6, VersionsBegin
<1>7. CASE EndScan
  BY <1>1, <1>7, EndScanKeeps, LastingStays DEF FrlInv
<1> QED
  BY <1>1, <1>5, <1>6, <1>7

-----------------------------------------------------------------------------
(* The scan of the versions *)

ThisPage == Page(Unread, Registration)
Ends == {Cursor(v) : v \in ThisPage} \cup {scan.after}
LastRead == Farthest(Ends)

\* The row of a title's current version.
LEMMA CurrentRow ==
  ASSUME FrlConstants, Lasting, NEW t \in Titles, Met(t)
  PROVE  \E v \in AllRows : /\ v.title = t /\ v.isCurrent /\ v.number = current[t]
                            /\ v.at = registered[t][current[t]] /\ Cursor(v) = CurrentCursor(t)
<1>1. current[t] \in 1 .. Len(registered[t])
  BY DEF Lasting, FrlTypes, RegisterSound, Met
<1>2. RowOf(t, current[t]) \in Versions(t)
  BY <1>1 DEF Versions, RowOf
<1>3. RowOf(t, current[t]) \in AllRows
  BY <1>2 DEF AllRows
<1> QED
  BY <1>3 DEF RowOf, Cursor, CurrentCursor

\* What a page leaves: every row that is not after its last was seen.
LEMMA PagePassed ==
  ASSUME FrlConstants, FrlInv, ScanAt("versions"),
         NEW page, page = ThisPage, NEW last, last = LastRead
  PROVE  /\ page \in SUBSET Rows /\ IsFiniteSet(page)
         /\ last \in Cursors /\ last.at <= day
         /\ \A v \in scan.seen \cup page : ~After(Cursor(v), last)
         /\ Distinct(scan.seen \cup page)
         /\ \A v \in page : v.isCurrent => Met(v.title) /\ v.number = current[v.title]
         /\ \A v \in Unread : v \in page \/ After(Cursor(v), last)
         /\ Cardinality(page) # PageSize => page = Unread
<1>1. /\ scan.after \in Cursors /\ scan.seen \in SUBSET Rows /\ Paging /\ FrlTypes /\ Lasting
      /\ day \in Nat
  BY DEF FrlInv, Underway, ScanShape, Lasting, FrlTypes
<1>2. AllRows \in SUBSET Rows /\ IsFiniteSet(AllRows) /\ Distinct(AllRows)
  BY <1>1, AllRowsAreRows
<1>3. Unread \in SUBSET AllRows
  BY DEF Unread, AllRows
<1>4. Unread \in SUBSET Rows /\ IsFiniteSet(Unread) /\ Distinct(Unread)
  BY <1>2, <1>3, FS_Subset DEF Distinct
<1>5. /\ page \in SUBSET Unread /\ IsFiniteSet(page)
      /\ \A x \in page : \A y \in Unread : After(Cursor(x), Cursor(y)) => y \in page
      /\ Cardinality(page) # PageSize => page = Unread
  BY <1>4, PageInOrder DEF ThisPage
<1> DEFINE ends == Ends
<1>6. ends \in SUBSET Cursors /\ ends # {} /\ IsFiniteSet(ends)
  <2> DEFINE f == [v \in page |-> Cursor(v)]
             cursors == {Cursor(v) : v \in page}
  <2>1. f \in Surjection(page, cursors)
    BY DEF Surjection
  <2>2. cursors \in SUBSET Cursors
    BY <1>4, <1>5, RowsHaveCursors
  <2> HIDE DEF f, cursors
  <2>3. IsFiniteSet(cursors)
    BY <1>5, <2>1, FS_Surjection
  <2>4. ends = cursors \cup {scan.after}
    BY DEF cursors, Ends
  <2>5. IsFiniteSet(cursors \cup {scan.after})
    BY <2>3, FS_AddElement
  <2> QED
    BY <1>1, <2>2, <2>4, <2>5
<1>7. last \in ends /\ \A d \in ends \ {last} : After(last, d)
  BY <1>6, LastIsGreatest DEF LastRead
<1> HIDE DEF ends
<1>8. \A d \in ends : ~After(d, last)
  <2> SUFFICES ASSUME NEW d \in ends, After(d, last)
               PROVE  FALSE
    OBVIOUS
  <2>1. d \in Cursors /\ last \in Cursors
    BY <1>6, <1>7
  <2>2. d = last \/ After(last, d)
    BY <1>7
  <2> QED
    BY <2>1, <2>2, AfterOrders
<1>9. last \in Cursors
  BY <1>6, <1>7
<1>10. \A v \in AllRows : v.title \in Titles /\ v.number \in 1 .. Len(registered[v.title])
                         /\ v.at = registered[v.title][v.number]
                         /\ (v.isCurrent <=> v.number = current[v.title])
  BY <1>1, VersionsAreRows DEF AllRows
<1>11. \A v \in AllRows : v.at <= day
  BY <1>1, <1>10 DEF Lasting, RegisterSound
<1>12. last.at <= day
  <2>1. CASE last = scan.after
    BY <1>1, <2>1 DEF Paging
  <2>2. CASE last # scan.after
    <3>1. PICK v \in page : last = Cursor(v)
      BY <1>7, <2>2 DEF ends, Ends
    <3>2. v \in AllRows
      BY <1>3, <1>5
    <3>3. last.at = v.at
      BY <1>2, <3>1, <3>2, RowsHaveCursors
    <3> QED
      BY <1>11, <3>2, <3>3
  <2> QED
    BY <2>1, <2>2
<1>13. \A v \in scan.seen : ~After(Cursor(v), last)
  <2> SUFFICES ASSUME NEW v \in scan.seen, After(Cursor(v), last)
               PROVE  FALSE
    OBVIOUS
  <2>1. Cursor(v) \in Cursors /\ ~After(Cursor(v), scan.after)
    BY <1>1, RowsHaveCursors DEF Paging
  <2>2. last = scan.after \/ After(last, scan.after)
    BY <1>7 DEF ends, Ends
  <2> QED
    BY <1>1, <1>9, <2>1, <2>2, AfterOrders
<1>14. \A v \in page : ~After(Cursor(v), last)
  BY <1>8 DEF ends, Ends
<1>15. Distinct(scan.seen \cup page)
  <2>1. Distinct(scan.seen) /\ Distinct(page)
    BY <1>1, <1>4, <1>5 DEF Paging, Distinct
  <2>2. \A v \in scan.seen : \A w \in page : Cursor(v) # Cursor(w)
    BY <1>1, <1>5 DEF Paging, Unread
  <2> QED
    BY <2>1, <2>2 DEF Distinct
<1>16. \A v \in page : v.isCurrent => Met(v.title) /\ v.number = current[v.title]
  <2>1. \A v \in page : v.isCurrent => v.number = current[v.title] /\ v.number >= 1
    BY <1>3, <1>5, <1>10
  <2> QED
    BY <2>1 DEF Met
<1>17. \A v \in Unread : v \in page \/ After(Cursor(v), last)
  <2> SUFFICES ASSUME NEW v \in Unread, ~After(Cursor(v), last)
               PROVE  v \in page
    OBVIOUS
  <2>1. Cursor(v) \in Cursors /\ After(Cursor(v), scan.after)
    BY <1>4, RowsHaveCursors DEF Unread, AllRows
  <2>2. last # scan.after
    BY <2>1
  <2>3. PICK w \in page : last = Cursor(w)
    BY <1>7, <2>2 DEF ends, Ends
  <2>4. CASE Cursor(v) = last
    BY <1>4, <1>5, <2>3, <2>4 DEF Distinct
  <2>5. CASE Cursor(v) # last
    BY <1>5, <1>9, <2>1, <2>3, <2>5, AfterOrders
  <2> QED
    BY <2>4, <2>5
<1> QED
  BY <1>4, <1>5, <1>9, <1>12, <1>13, <1>14, <1>15, <1>16, <1>17

\* The lower bound of a scan is a day.
LEMMA LowerBoundType ==
  ASSUME FrlConstants, Lasting
  PROVE  KnownCursor \in Cursors /\ LowerBound \in Nat
<1>1. KnownCursor \in Cursors
  BY DEF Lasting, FrlTypes, KnownCursor, Origin, Cursors
<1>2. KnownCursor.at \in Nat /\ Overlap \in Nat
  BY <1>1 DEF Cursors, FrlConstants
<1> QED
  BY <1>1, <1>2 DEF LowerBound

\* What has been seen or passed after a page.
LEMMA SeenAfterPage ==
  ASSUME FrlConstants, FrlInv, ScanAt("versions"),
         NEW page, page = ThisPage, NEW last, last = LastRead
  PROVE  /\ \A v \in scan.seen \cup page :
              v.isCurrent => Met(v.title) /\ Covered(v.title, v.number, day)
         /\ \A t \in Titles : Met(t) =>
              \/ t \in late \/ Reread(t, day)
              \/ registered[t][current[t]] < LowerBound
              \/ After(CurrentCursor(t), last) /\ Cardinality(page) = PageSize
              \/ \E v \in scan.seen \cup page :
                   v.title = t /\ v.isCurrent /\ v.number = current[t]
<1>1. Paging /\ Lasting
  BY DEF FrlInv, Underway
<1>2. /\ \A v \in page : v.isCurrent => Met(v.title) /\ v.number = current[v.title]
      /\ \A v \in Unread : v \in page \/ After(Cursor(v), last)
      /\ Cardinality(page) # PageSize => page = Unread
  BY PagePassed
<1>3. \A v \in scan.seen \cup page :
        v.isCurrent => Met(v.title) /\ Covered(v.title, v.number, day)
  BY <1>1, <1>2 DEF Paging, Covered
<1>4. ASSUME NEW t \in Titles, Met(t), t \notin late, ~Reread(t, day),
             ~(registered[t][current[t]] < LowerBound)
      PROVE  \/ After(CurrentCursor(t), last) /\ Cardinality(page) = PageSize
             \/ \E v \in scan.seen \cup page :
                  v.title = t /\ v.isCurrent /\ v.number = current[t]
  <2>1. CASE CurrentSeen(t)
    BY <2>1 DEF CurrentSeen
  <2>2. CASE After(CurrentCursor(t), scan.after)
    <3>1. PICK v \in AllRows : /\ v.title = t /\ v.isCurrent /\ v.number = current[t]
                               /\ v.at = registered[t][current[t]]
                               /\ Cursor(v) = CurrentCursor(t)
      BY <1>1, <1>4, CurrentRow
    <3>2. v.at \in Nat /\ LowerBound \in Nat
      <4>1. current[t] \in 1 .. Len(registered[t]) /\ registered[t] \in Seq(Nat)
        BY <1>1, <1>4 DEF Lasting, FrlTypes, RegisterSound, Met
      <4> QED
        BY <1>1, <3>1, <4>1, LowerBoundType
    <3>3. v \in Unread
      BY <1>4, <2>2, <3>1, <3>2 DEF Unread, AllRows
    <3> QED
      BY <1>2, <3>1, <3>3
  <2> QED
    BY <1>1, <1>4, <2>1, <2>2 DEF Paging
<1> QED
  BY <1>3, <1>4

\* A page of versions: the invariant of the paging moves on with its cursor.
LEMMA VersionsPageKeeps ==
  ASSUME FrlConstants, FrlInv, VersionsPage
  PROVE  FrlInv'
<1>1. PICK page, last, maximum :
        /\ page = ThisPage /\ last = LastRead
        /\ maximum = IF After(last, scan.maximum) THEN last ELSE scan.maximum
  OBVIOUS
<1>2. /\ ScanAt("versions") /\ UNCHANGED <<register, frlDisk, stale, regressed, fetches>>
      /\ scan \in [pc : {"versions"}, run : Scans, titles : SUBSET Titles, after : Cursors,
                   seen : SUBSET Rows, maximum : Cursors]
      /\ Paging /\ Lasting /\ day \in Nat
  BY DEF VersionsPage, FrlInv, Underway, ScanShape, Lasting, FrlTypes
<1>3. scan' = IF Cardinality(page) = PageSize
              THEN [pc |-> "versions", run |-> scan.run, titles |-> scan.titles, after |-> last,
                    seen |-> scan.seen \cup page, maximum |-> maximum]
              ELSE [pc |-> "resolve", run |-> scan.run, titles |-> scan.titles,
                    seen |-> {v \in scan.seen \cup page : v.title \in scan.titles},
                    maximum |-> maximum, versions |-> [t \in Titles |-> Absent]]
  <2>1. [scan EXCEPT !.after = last, !.seen = @ \cup page,
                     !.maximum = IF After(last, @) THEN last ELSE @] =
        [pc |-> "versions", run |-> scan.run, titles |-> scan.titles, after |-> last,
         seen |-> scan.seen \cup page, maximum |-> maximum]
    <3>1. PICK run, titles, after, seen, most :
            scan = [pc |-> "versions", run |-> run, titles |-> titles, after |-> after,
                    seen |-> seen, maximum |-> most]
      <4>1. scan = [pc |-> "versions", run |-> scan.run, titles |-> scan.titles,
                    after |-> scan.after, seen |-> scan.seen, maximum |-> scan.maximum]
        BY <1>2
      <4> QED
        BY <4>1
    <3>2. scan.maximum = most /\ scan.seen = seen /\ scan.run = run /\ scan.titles = titles
      BY <3>1
    <3>3. maximum = IF After(last, most) THEN last ELSE most
      BY <1>1, <3>2
    <3>4. [scan EXCEPT !.after = last, !.seen = @ \cup page,
                       !.maximum = IF After(last, @) THEN last ELSE @] =
          [scan EXCEPT !.after = last, !.seen = seen \cup page, !.maximum = maximum]
      BY <3>2, <3>3
    <3>5. [scan EXCEPT !.after = last, !.seen = seen \cup page, !.maximum = maximum] =
          [pc |-> "versions", run |-> run, titles |-> titles, after |-> last,
           seen |-> seen \cup page, maximum |-> maximum]
      <4>1. PICK one : one = [scan EXCEPT !.after = last]
        OBVIOUS
      <4>2. one = [pc |-> "versions", run |-> run, titles |-> titles, after |-> last,
                   seen |-> seen, maximum |-> most]
        BY <3>1, <4>1
      <4>3. PICK two : two = [one EXCEPT !.seen = seen \cup page]
        OBVIOUS
      <4>4. two = [pc |-> "versions", run |-> run, titles |-> titles, after |-> last,
                   seen |-> seen \cup page, maximum |-> most]
        BY <4>2, <4>3
      <4>5. [scan EXCEPT !.after = last, !.seen = seen \cup page, !.maximum = maximum] =
            [two EXCEPT !.maximum = maximum]
        BY <4>1, <4>3
      <4> QED
        BY <4>4, <4>5
    <3> QED
      BY <3>2, <3>4, <3>5
  <2> QED
    BY <1>1, <2>1 DEF VersionsPage, ThisPage, Ends, LastRead
<1>4. /\ page \in SUBSET Rows /\ IsFiniteSet(page)
      /\ last \in Cursors /\ last.at <= day
      /\ \A v \in scan.seen \cup page : ~After(Cursor(v), last)
      /\ Distinct(scan.seen \cup page)
  BY <1>1, <1>2, PagePassed
<1>5. /\ \A v \in scan.seen \cup page :
           v.isCurrent => Met(v.title) /\ Covered(v.title, v.number, day)
      /\ \A t \in Titles : Met(t) =>
           \/ t \in late \/ Reread(t, day)
           \/ registered[t][current[t]] < LowerBound
           \/ After(CurrentCursor(t), last) /\ Cardinality(page) = PageSize
           \/ \E v \in scan.seen \cup page :
                v.title = t /\ v.isCurrent /\ v.number = current[t]
  BY <1>1, <1>2, SeenAfterPage
<1>6. /\ UNCHANGED <<day, registered, current, late, frlState, plans>>
      /\ LowerBound' = LowerBound
  BY <1>2 DEF register, frlDisk, LowerBound, KnownCursor, IsCurrentState
<1>7. maximum \in Cursors /\ maximum.at <= day
  BY <1>1, <1>2, <1>4 DEF Paging
<1>8. IsFiniteSet(scan.seen \cup page)
  BY <1>2, <1>4, FS_Union DEF Paging
<1>9. Lasting'
  BY <1>2, LastingStays
<1>10. \A t \in scan.titles : Met(t)'
  BY <1>2, <1>6 DEF Paging, Met
<1>11. CASE Cardinality(page) = PageSize
  <2>1. /\ scan'.pc = "versions" /\ scan'.titles = scan.titles /\ scan'.after = last
        /\ scan'.seen = scan.seen \cup page /\ scan'.maximum = maximum
        /\ scan' \in [pc : {"versions"}, run : Scans, titles : SUBSET Titles, after : Cursors,
                      seen : SUBSET Rows, maximum : Cursors]
    BY <1>2, <1>3, <1>4, <1>7, <1>11
  <2>2. ScanShape'
    BY <2>1 DEF ScanShape, ScanAt
  <2>3. \A v \in scan.seen \cup page :
          v.isCurrent => Met(v.title)' /\ Covered(v.title, v.number, day)'
    BY <1>5, <1>6 DEF Met, Covered, Reread
  <2>4. ASSUME NEW t \in Titles, Met(t)'
        PROVE  \/ t \in late' \/ Reread(t, day)'
               \/ (registered[t][current[t]] < LowerBound)'
               \/ After(CurrentCursor(t), scan.after)'
               \/ CurrentSeen(t)'
    <3>1. Met(t) /\ CurrentCursor(t)' = CurrentCursor(t)
      BY <1>6, <2>4 DEF Met, CurrentCursor
    <3> QED
      BY <1>5, <1>6, <2>1, <3>1 DEF Reread, CurrentSeen
  <2>5. Paging'
    BY <1>4, <1>6, <1>7, <1>8, <1>10, <2>1, <2>3, <2>4 DEF Paging
  <2> QED
    BY <1>2, <1>9, <2>1, <2>2, <2>5 DEF FrlInv, Underway, ScanAt
<1>12. CASE Cardinality(page) # PageSize
  <2> DEFINE seen == {v \in scan.seen \cup page : v.title \in scan.titles}
  <2>1. /\ scan'.pc = "resolve" /\ scan'.titles = scan.titles /\ scan'.seen = seen
        /\ scan'.maximum = maximum /\ scan'.versions = [t \in Titles |-> Absent]
        /\ scan' \in [pc : {"resolve"}, run : Scans, titles : SUBSET Titles, seen : SUBSET Rows,
                      maximum : Cursors, versions : Versionings]
    BY <1>2, <1>3, <1>4, <1>7, <1>12 DEF Versionings
  <2>2. ScanShape'
    BY <2>1 DEF ScanShape, ScanAt
  <2>3. PICK reach : reach = Reach'
    OBVIOUS
  <2>4. reach \in Nat /\ reach <= day
    BY <1>2, <1>6, <1>7, <2>1, <2>3 DEF Reach, Lasting, FrlTypes, Cursors, CursorsPast
  <2>5. \A t \in Titles : Met(t) /\ Reread(t, day) => Reread(t, reach)'
    <3> SUFFICES ASSUME NEW t \in Titles, Met(t), Reread(t, day)
                 PROVE  Reread(t, reach)'
      OBVIOUS
    <3>1. registered[t] \in Seq(Nat) /\ current[t] \in 1 .. Len(registered[t]) /\ Overlap \in Nat
      BY <1>2 DEF Lasting, FrlTypes, RegisterSound, Met, FrlConstants
    <3>2. registered[t][current[t]] \in Nat
      BY <3>1
    <3> QED
      BY <1>2, <1>6, <2>4, <3>1, <3>2 DEF Reread
  <2>6. IsFiniteSet(seen) /\ Distinct(seen)
    BY <1>4, <1>8, FS_Subset DEF Distinct
  <2>7. \A v \in seen : v.isCurrent => Met(v.title)' /\ Covered(v.title, v.number, reach)'
    <3> SUFFICES ASSUME NEW v \in seen, v.isCurrent
                 PROVE  Met(v.title)' /\ Covered(v.title, v.number, reach)'
      OBVIOUS
    <3>1. v.title \in Titles /\ Met(v.title) /\ Covered(v.title, v.number, day)
      BY <1>2, <1>4, <1>5 DEF Rows
    <3> QED
      BY <1>6, <2>5, <3>1 DEF Covered, Met
  <2>8. ASSUME NEW t \in scan.titles
        PROVE  \/ t \in late' \/ Reread(t, reach)'
               \/ (registered[t][current[t]] < LowerBound)'
               \/ CurrentSeen(t)'
    <3>1. t \in Titles /\ Met(t)
      BY <1>2 DEF Paging
    <3> QED
      BY <1>5, <1>6, <1>12, <2>1, <2>5, <3>1 DEF CurrentSeen
  <2> HIDE DEF seen
  <2>9. Resolving'
    BY <1>2, <1>6, <1>7, <1>10, <2>1, <2>3, <2>6, <2>7, <2>8 DEF Resolving
  <2> QED
    BY <1>2, <1>9, <2>1, <2>2, <2>9 DEF FrlInv, Underway, ScanAt
<1> QED
  BY <1>11, <1>12

-----------------------------------------------------------------------------
(* Settling one version per title *)

\* A finite set of numbers that is not empty has a least one.
LEMMA LeastOf ==
  ASSUME NEW S \in SUBSET Nat, IsFiniteSet(S), S # {}
  PROVE  Min(S) \in S
<1> DEFINE R == {p \in S \X S : p[1] > p[2]}
<1>1. \A x, y \in S : <<x, y>> \in R <=> x > y
  OBVIOUS
<1> HIDE DEF R
<1>2. Orders(R, S)
  BY <1>1 DEF Orders
<1>3. PICK m \in S : \A x \in S \ {m} : <<x, m>> \in R
  BY <1>2, GreatestExists
<1>4. \A x \in S : m <= x
  <2> SUFFICES ASSUME NEW x \in S
               PROVE  m <= x
    OBVIOUS
  <2>1. m \in Nat /\ x \in Nat /\ (x = m \/ x > m)
    BY <1>1, <1>3
  <2> QED
    BY <2>1
<1> QED
  BY <1>4 DEF Min

\* A title whose version the scan did not settle is looked up on its own.
LEMMA LookUpKeeps ==
  ASSUME FrlConstants, FrlInv, LookUp
  PROVE  FrlInv'
<1> DEFINE unsettled == {t \in scan.titles : LookedUp(t) /\ scan.versions[t] = Absent}
<1>1. PICK open, first : open = unsettled /\ first = Min(open)
  OBVIOUS
<1>2. /\ ScanAt("resolve") /\ open # {}
      /\ scan' = [scan EXCEPT !.versions[first] = Authoritative(first)]
      /\ UNCHANGED <<register, frlDisk, stale, regressed, fetches>>
  BY <1>1 DEF LookUp
<1>3. /\ scan \in [pc : {"resolve"}, run : Scans, titles : SUBSET Titles, seen : SUBSET Rows,
                   maximum : Cursors, versions : Versionings]
      /\ Resolving /\ Lasting
  BY <1>2 DEF FrlInv, Underway, ScanShape
<1>4. open \in SUBSET scan.titles /\ open \in SUBSET Titles
  BY <1>1, <1>3
<1>5. first \in open
  BY <1>1, <1>2, <1>4, LeastOf, FS_Subset DEF FrlConstants
<1>6. first \in Titles /\ Met(first) /\ Authoritative(first) = current[first]
  BY <1>3, <1>4, <1>5, AuthoritativeIsCurrent DEF Resolving, Lasting, RegisterSound
<1>7. current[first] \in Nat
  BY <1>3, <1>6 DEF Lasting, FrlTypes
<1> HIDE DEF unsettled
<1>8. /\ scan'.pc = "resolve" /\ scan'.titles = scan.titles /\ scan'.seen = scan.seen
      /\ scan'.maximum = scan.maximum
      /\ scan'.versions = [scan.versions EXCEPT ![first] = current[first]]
      /\ scan' \in [pc : {"resolve"}, run : Scans, titles : SUBSET Titles, seen : SUBSET Rows,
                    maximum : Cursors, versions : Versionings]
  <2>1. scan' = [scan EXCEPT !.versions = [scan.versions EXCEPT ![first] = current[first]]]
    BY <1>2, <1>3, <1>6
  <2>2. [scan.versions EXCEPT ![first] = current[first]] \in Versionings
    BY <1>3, <1>7 DEF Versionings
  <2> QED
    BY <1>3, <2>1, <2>2
<1>9. ScanShape'
  BY <1>8 DEF ScanShape, ScanAt
<1>10. /\ UNCHANGED <<day, registered, current, late, frlState>>
       /\ LowerBound' = LowerBound /\ Reach' = Reach
  BY <1>2, <1>8 DEF register, frlDisk, LowerBound, KnownCursor, IsCurrentState, Reach
<1>11. ASSUME NEW t \in scan.titles, scan'.versions[t] # Absent
       PROVE  Covered(t, scan.versions[t], Reach)'
  <2>1. scan.versions \in [Titles -> {Absent} \cup Nat] /\ t \in Titles
    BY <1>3 DEF Versionings
  <2>2. CASE t = first
    <3>1. scan'.versions[t] = current[t]
      BY <1>6, <1>8, <2>1, <2>2
    <3> QED
      BY <1>10, <3>1 DEF Covered
  <2>3. CASE t # first
    <3>1. scan'.versions[t] = scan.versions[t]
      BY <1>8, <2>1, <2>3
    <3>2. Covered(t, scan.versions[t], Reach)
      BY <1>3, <1>11, <3>1 DEF Resolving
    <3> QED
      BY <1>10, <3>1, <3>2 DEF Covered, Reread
  <2> QED
    BY <2>2, <2>3
<1>12. Resolving'
  <2>1. /\ IsFiniteSet(scan.seen)' /\ Distinct(scan.seen)' /\ (scan.maximum.at <= day)'
        /\ (\A t \in scan.titles : Met(t))'
    BY <1>3, <1>8, <1>10 DEF Resolving, Met, Distinct
  <2>2. (\A v \in scan.seen : v.isCurrent => Met(v.title) /\ Covered(v.title, v.number, Reach))'
    BY <1>3, <1>8, <1>10 DEF Resolving, Met, Covered, Reread
  <2>3. (\A t \in scan.titles :
          \/ t \in late \/ Reread(t, Reach)
          \/ registered[t][current[t]] < LowerBound
          \/ CurrentSeen(t))'
    BY <1>3, <1>8, <1>10 DEF Resolving, Reread, CurrentSeen
  <2> QED
    BY <1>8, <1>11, <2>1, <2>2, <2>3 DEF Resolving
<1>13. Lasting'
  BY <1>2, <1>3, LastingStays
<1> QED
  BY <1>2, <1>8, <1>9, <1>12, <1>13 DEF FrlInv, Underway, ScanAt

\* The row selected for a title was scanned.
LEMMA ScannedSelected ==
  ASSUME FrlConstants, FrlInv, ScanAt("resolve"), NEW t \in Titles, Scanned(t) # {}
  PROVE  /\ Selected(Scanned(t)) \in Scanned(t) /\ Selected(Scanned(t)) \in Rows
         /\ \A b \in Scanned(t) \ {Selected(Scanned(t))} : Preferred(Selected(Scanned(t)), b)
<1>1. Resolving /\ scan.seen \in SUBSET Rows
  BY DEF FrlInv, Underway, ScanShape
<1>2. Scanned(t) \in SUBSET scan.seen
  BY DEF Scanned
<1>3. Scanned(t) \in SUBSET Rows /\ IsFiniteSet(Scanned(t)) /\ Distinct(Scanned(t))
  BY <1>1, <1>2, FS_Subset DEF Resolving, Distinct
<1> QED
  BY <1>3, SelectedPreferred

\* What the plan of a scan makes of a title.
PlannedVersion(t) ==
  IF FromScan(t) THEN Selected(Scanned(t)).number
  ELSE IF scan.versions[t] # Absent THEN scan.versions[t] ELSE frlState.inventory[t].version

\* That version is known on the day the cursor will say.
LEMMA OutcomeCovered ==
  ASSUME FrlConstants, FrlInv, ScanAt("resolve"), ~regressed, NEW t \in scan.titles,
         LookedUp(t) => scan.versions[t] # Absent
  PROVE  Covered(t, PlannedVersion(t), Reach)
<1>1. /\ Resolving /\ Lasting /\ scan.titles \subseteq Titles /\ t \in Titles
      /\ scan.seen \in SUBSET Rows
  BY DEF FrlInv, Underway, ScanShape
<1>2. Met(t) /\ LowerBound \in Nat
  BY <1>1, LowerBoundType DEF Resolving
<1>3. registered[t][current[t]] \in Nat
  <2>1. registered[t] \in Seq(Nat) /\ current[t] \in 1 .. Len(registered[t])
    BY <1>1, <1>2 DEF Lasting, FrlTypes, RegisterSound, Met
  <2> QED
    BY <2>1
<1>4. CASE FromScan(t)
  <2>1. /\ Selected(Scanned(t)) \in Scanned(t) /\ Selected(Scanned(t)) \in Rows
        /\ \A b \in Scanned(t) \ {Selected(Scanned(t))} : Preferred(Selected(Scanned(t)), b)
    BY <1>1, <1>4, ScannedSelected DEF FromScan
  <2>2. PICK row : row = Selected(Scanned(t))
    OBVIOUS
  <2>3. /\ row \in scan.seen /\ row.title = t /\ row.isCurrent \in BOOLEAN
        /\ PlannedVersion(t) = row.number
    BY <1>4, <2>1, <2>2 DEF Scanned, Rows, PlannedVersion
  <2>4. CASE row.isCurrent
    BY <1>1, <2>3, <2>4 DEF Resolving
  <2>5. CASE ~row.isCurrent
    <3>1. KnownCursor = Origin
      BY <1>4, <2>2, <2>5 DEF FromScan, FullHistory
    <3>2. LowerBound = 0
      BY <3>1 DEF LowerBound, Origin, FrlConstants
    <3>3. ~CurrentSeen(t)
      <4> SUFFICES ASSUME NEW v \in scan.seen, v.title = t, v.isCurrent
                   PROVE  FALSE
        BY DEF CurrentSeen
      <4>1. v \in Scanned(t) \ {row}
        BY <2>5 DEF Scanned
      <4>2. Preferred(row, v)
        BY <2>1, <2>2, <4>1
      <4> QED
        BY <2>3, <2>5, <4>2, Zenon DEF Preferred
    <3> QED
      BY <1>1, <1>3, <3>2, <3>3 DEF Resolving, Covered
  <2> QED
    BY <2>4, <2>5
<1>5. CASE ~FromScan(t) /\ scan.versions[t] # Absent
  BY <1>1, <1>5 DEF Resolving, PlannedVersion
<1>6. CASE ~FromScan(t) /\ scan.versions[t] = Absent
  <2>1. Scanned(t) = {} /\ IsCurrentState /\ frlState.inventory[t] # Absent
    BY <1>6 DEF LookedUp, Kept
  <2>2. ~CurrentSeen(t)
    BY <2>1 DEF CurrentSeen, Scanned
  <2>3. Covered(t, frlState.inventory[t].version, frlState.cursor.at)
    BY <1>1, <2>1 DEF Lasting, InventoryCovered, TitlesIn
  <2>4. registered[t][current[t]] < LowerBound => ~Reread(t, frlState.cursor.at)
    <3>1. KnownCursor = frlState.cursor /\ frlState.cursor.at \in Nat /\ Overlap \in Nat
      BY <1>1, <2>1, LowerBoundType DEF KnownCursor, Cursors, FrlConstants
    <3> QED
      BY <1>3, <3>1 DEF LowerBound, Reread
  <2>5. PlannedVersion(t) = frlState.inventory[t].version
    BY <1>6 DEF PlannedVersion
  <2> QED
    BY <1>1, <2>2, <2>3, <2>4, <2>5 DEF Resolving, Covered
<1> QED
  BY <1>4, <1>5, <1>6

\* The plan is written with what was selected, looked up or kept.
LEMMA SavePlanKeeps ==
  ASSUME FrlConstants, AbsentApart, FrlInv, SavePlan
  PROVE  FrlInv'
<1> DEFINE newPlan ==
      [titles |-> scan.titles, cursor |-> scan.maximum,
       versions |-> [t \in Titles |->
         IF t \in scan.titles /\ FromScan(t) THEN Selected(Scanned(t)).number
         ELSE scan.versions[t]]]
<1>1. /\ ScanAt("resolve")
      /\ \A t \in scan.titles : LookedUp(t) => scan.versions[t] # Absent
      /\ plans' = [plans EXCEPT ![scan.run] = newPlan]
      /\ scan' = [pc |-> "load", run |-> scan.run]
      /\ UNCHANGED <<register, frlState, staged, texts, fetches, stale, regressed>>
  BY DEF SavePlan
<1>2. /\ scan \in [pc : {"resolve"}, run : Scans, titles : SUBSET Titles, seen : SUBSET Rows,
                   maximum : Cursors, versions : Versionings]
      /\ Resolving /\ Lasting /\ FrlTypes
  BY <1>1 DEF FrlInv, Underway, ScanShape, Lasting
<1>3. /\ UNCHANGED <<day, registered, current, inForce, late>>
      /\ UNCHANGED <<frlState, staged, texts, stale, regressed>>
  BY <1>1 DEF register
<1>4. \A t \in scan.titles : FromScan(t) => Selected(Scanned(t)).number \in Nat
  BY <1>1, <1>2, ScannedSelected DEF FromScan, Rows
<1>5. newPlan \in ScanPlans
  BY <1>2, <1>4 DEF ScanPlans, Versionings
<1>6. PICK saved, run : saved = newPlan /\ run = scan.run
  OBVIOUS
<1>7. /\ run \in Scans /\ saved \in ScanPlans /\ saved # Absent
      /\ saved.titles = scan.titles /\ saved.cursor = scan.maximum
      /\ \A t \in scan.titles :
           saved.versions[t] = IF FromScan(t) THEN Selected(Scanned(t)).number ELSE scan.versions[t]
  BY <1>2, <1>5, <1>6 DEF AbsentApart
<1>8. plans' = [plans EXCEPT ![run] = saved]
  BY <1>1, <1>6
<1> HIDE DEF newPlan
<1>9. /\ plans'[run] = saved /\ \A r \in Scans \ {run} : plans'[r] = plans[r]
  BY <1>2, <1>7, <1>8 DEF FrlTypes
<1>10. FrlTypes'
  BY <1>2, <1>3, <1>7, <1>8 DEF FrlTypes
<1>11. RegisterSound'
  <2>1. \A t \in saved.titles : Met(t)
    BY <1>2, <1>7 DEF Resolving
  <2> QED
    BY <1>2, <1>3, <1>9, <2>1 DEF Lasting, RegisterSound, Met, TitlesIn
<1>12. CursorsPast'
  BY <1>2, <1>3, <1>7, <1>9 DEF Lasting, CursorsPast, Resolving
<1>13. EntriesKept' /\ InventoryCovered'
  BY <1>2, <1>3 DEF Lasting, EntriesKept, InventoryCovered, TitlesIn, HasText, TextGood,
                    IsCurrentState, Covered, Reread
<1>14. PlansHold'
  <2>1. ASSUME NEW t \in saved.titles, saved.versions[t] = Absent
        PROVE  IsCurrentState /\ frlState.inventory[t] # Absent
    <3>1. ~FromScan(t)
      BY <1>4, <1>7, <2>1 DEF AbsentApart
    <3>2. scan.versions[t] = Absent
      BY <1>7, <2>1, <3>1
    <3> QED
      BY <1>1, <1>7, <3>1, <3>2 DEF LookedUp, Kept
  <2> QED
    BY <1>2, <1>3, <1>9, <2>1 DEF Lasting, PlansHold, IsCurrentState
<1>15. PlansCovered'
  <2> SUFFICES ASSUME ~regressed
               PROVE  \A r \in Scans \ stale : plans'[r] # Absent => \A t \in plans'[r].titles :
                        /\ Covered(t, Settled(r, t), plans[r].cursor.at)'
                        /\ Covered(t, Settled(r, t), frlState.cursor.at)'
    BY <1>3 DEF PlansCovered
  <2>1. ASSUME NEW r \in Scans \ stale, plans'[r] # Absent, NEW t \in plans'[r].titles, r # run
        PROVE  /\ Covered(t, Settled(r, t), plans[r].cursor.at)'
               /\ Covered(t, Settled(r, t), frlState.cursor.at)'
    <3>1. /\ Covered(t, Settled(r, t), plans[r].cursor.at)
          /\ Covered(t, Settled(r, t), frlState.cursor.at)
      BY <1>2, <1>9, <2>1 DEF Lasting, PlansCovered
    <3>2. Settled(r, t)' = Settled(r, t)
      BY <1>3, <1>9, <2>1 DEF Settled
    <3> QED
      BY <1>3, <1>9, <2>1, <3>1, <3>2 DEF Covered, Reread
  <2>2. ASSUME NEW t \in saved.titles
        PROVE  /\ Covered(t, Settled(run, t), plans[run].cursor.at)'
               /\ Covered(t, Settled(run, t), frlState.cursor.at)'
    <3>1. t \in Titles /\ t \in scan.titles
      BY <1>2, <1>7
    <3>2. PlannedVersion(t) = Settled(run, t)'
      <4>1. FromScan(t) => Selected(Scanned(t)).number # Absent
        BY <1>4, <3>1 DEF AbsentApart
      <4>2. plans'[run].versions[t] = IF FromScan(t) THEN Selected(Scanned(t)).number
                                      ELSE scan.versions[t]
        BY <1>7, <1>9, <3>1
      <4> QED
        BY <1>3, <4>1, <4>2 DEF PlannedVersion, Settled
    <3>3. Covered(t, PlannedVersion(t), Reach)
      BY <1>1, <3>1, OutcomeCovered
    <3>4. /\ Reach \in Nat /\ scan.maximum.at \in Nat /\ frlState.cursor.at \in Nat
          /\ Reach >= scan.maximum.at /\ Reach >= frlState.cursor.at
      BY <1>2 DEF Reach, FrlTypes, Cursors
    <3>5. registered[t][current[t]] \in Nat /\ Overlap \in Nat
      <4>1. registered[t] \in Seq(Nat) /\ current[t] \in 1 .. Len(registered[t])
        BY <1>2, <3>1 DEF Lasting, FrlTypes, RegisterSound, Met, Resolving
      <4>2. registered[t][current[t]] \in Nat
        BY <4>1
      <4> QED
        BY <4>2 DEF FrlConstants
    <3>6. /\ Covered(t, PlannedVersion(t), scan.maximum.at)
          /\ Covered(t, PlannedVersion(t), frlState.cursor.at)
      BY <3>3, <3>4, <3>5 DEF Covered, Reread
    <3> QED
      BY <1>3, <1>7, <1>9, <3>2, <3>6 DEF Covered, Reread
  <2> QED
    BY <1>9, <2>1, <2>2
<1>16. ScanShape'
  BY <1>1, <1>2 DEF ScanShape, ScanAt
<1>17. SavedPlan' # Absent
  BY <1>1, <1>6, <1>7, <1>9 DEF SavedPlan
<1> QED
  BY <1>1, <1>10, <1>11, <1>12, <1>13, <1>14, <1>15, <1>16, <1>17
  DEF FrlInv, Lasting, Underway, ScanAt

-----------------------------------------------------------------------------
(* Acquiring the planned versions *)

LEMMA LoadPlanKeeps ==
  ASSUME FrlConstants, FrlInv, LoadPlan
  PROVE  FrlInv'
<1>1. /\ scan = [pc |-> "load", run |-> scan.run] /\ scan.run \in Scans
      /\ SavedPlan # Absent
      /\ UNCHANGED <<register, frlDisk, stale, regressed>>
      /\ fetches' = [t \in Titles |->
           [pc |-> IF SavedPlan.versions[t] = Absent THEN "idle" ELSE "todo", entry |-> Absent]]
      /\ scan' = [scan EXCEPT !.pc = "fetch"]
  BY DEF LoadPlan, FrlInv, Underway, ScanShape, ScanAt
<1>2. scan' = [pc |-> "fetch", run |-> scan.run]
  <2>1. PICK run : scan = [pc |-> "load", run |-> run] /\ run = scan.run
    BY <1>1
  <2> QED
    BY <1>1, <2>1
<1>3. SavedPlan' = SavedPlan
  BY <1>1, <1>2 DEF SavedPlan, frlDisk
<1>4. fetches' \in [Titles -> [pc : {"idle", "todo", "stored", "done"},
                               entry : {Absent} \cup Entry]]
  BY <1>1
<1>5. ScanFetching'
  BY <1>1, <1>3 DEF ScanFetching
<1>6. ScanShape'
  BY <1>1, <1>2 DEF ScanShape, ScanAt
<1>7. Lasting'
  BY <1>1, LastingStays DEF FrlInv
<1> QED
  BY <1>1, <1>2, <1>3, <1>4, <1>5, <1>6, <1>7 DEF FrlInv, Underway, ScanAt

\* What the threads of a scan share.
LEMMA WhileScanFetches ==
  ASSUME FrlInv, ScanAt("fetch")
  PROVE  /\ Lasting /\ FrlTypes /\ EntriesKept /\ ScanFetching /\ ScanShape /\ SavedPlan # Absent
         /\ scan = [pc |-> "fetch", run |-> scan.run] /\ scan.run \in Scans
         /\ SavedPlan \in ScanPlans
         /\ fetches \in [Titles -> [pc : {"idle", "todo", "stored", "done"},
                                    entry : {Absent} \cup Entry]]
<1>1. /\ Lasting /\ FrlTypes /\ EntriesKept /\ ScanFetching /\ ScanShape /\ SavedPlan # Absent
      /\ scan = [pc |-> "fetch", run |-> scan.run] /\ scan.run \in Scans
      /\ fetches \in [Titles -> [pc : {"idle", "todo", "stored", "done"},
                                 entry : {Absent} \cup Entry]]
  BY DEF FrlInv, Lasting, Underway, ScanShape, ScanAt
<1> QED
  BY <1>1 DEF FrlTypes, SavedPlan

\* A thread that moves on leaves the others as they are.
LEMMA FetchKeeps ==
  ASSUME FrlConstants, FrlInv, ScanAt("fetch"), NEW t \in Titles,
         fetches[t].pc # "idle",
         NEW to \in {"stored", "done"},
         fetches' = [fetches EXCEPT ![t] =
           [pc |-> to, entry |-> [version |-> SavedPlan.versions[t], text |-> Schema]]],
         HasText(t, [version |-> SavedPlan.versions[t], text |-> Schema])',
         texts \subseteq texts', plans' = plans, scan' = scan
  PROVE  Underway'
<1> DEFINE entry == [version |-> SavedPlan.versions[t], text |-> Schema]
<1>1. /\ ScanFetching /\ ScanShape /\ SavedPlan # Absent /\ SavedPlan \in ScanPlans
      /\ fetches \in [Titles -> [pc : {"idle", "todo", "stored", "done"},
                                 entry : {Absent} \cup Entry]]
  BY WhileScanFetches
<1>2. SavedPlan' = SavedPlan
  BY DEF SavedPlan
<1>3. entry \in Entry
  <2>1. SavedPlan.versions[t] # Absent
    BY <1>1 DEF ScanFetching
  <2>2. SavedPlan.versions[t] \in Nat
    BY <1>1, <2>1 DEF ScanPlans, Versionings
  <2> QED
    BY <2>2 DEF Entry, Schema
<1>4. /\ \A u \in Titles \ {t} : fetches'[u] = fetches[u]
      /\ fetches'[t].pc = to /\ fetches'[t].entry = entry
  BY <1>1
<1>5. fetches' \in [Titles -> [pc : {"idle", "todo", "stored", "done"},
                               entry : {Absent} \cup Entry]]
  BY <1>1, <1>3
<1>6. ScanFetching'
  <2>1. ASSUME NEW u \in Titles, u # t
        PROVE  /\ fetches'[u].pc = "idle" <=> SavedPlan'.versions[u] = Absent
               /\ fetches'[u].pc \in {"stored", "done"} =>
                    /\ fetches'[u].entry = [version |-> SavedPlan'.versions[u], text |-> Schema]
                    /\ <<u, fetches'[u].entry>> \in texts'
    BY <1>1, <1>2, <1>4, <2>1 DEF ScanFetching, HasText
  <2>2. /\ fetches'[t].pc # "idle" /\ SavedPlan'.versions[t] # Absent
        /\ fetches'[t].entry = [version |-> SavedPlan'.versions[t], text |-> Schema]
        /\ <<t, fetches'[t].entry>> \in texts'
    BY <1>1, <1>2, <1>4 DEF ScanFetching, HasText
  <2> QED
    BY <2>1, <2>2 DEF ScanFetching, HasText
<1>7. ScanShape'
  BY <1>1 DEF ScanShape, ScanAt
<1> QED
  BY <1>1, <1>2, <1>5, <1>6, <1>7 DEF Underway, ScanAt

LEMMA ReuseKeeps ==
  ASSUME FrlConstants, FrlInv, NEW t \in Titles, Reuse(t)
  PROVE  FrlInv'
<1> DEFINE entry == [version |-> SavedPlan.versions[t], text |-> Schema]
<1>1. /\ ScanAt("fetch") /\ fetches[t].pc = "todo"
      /\ ReusableText(t) # Absent /\ HasText(t, ReusableText(t))
      /\ fetches' = [fetches EXCEPT ![t] = [pc |-> "done", entry |-> ReusableText(t)]]
      /\ UNCHANGED <<register, frlDisk, scan, stale, regressed>>
  BY DEF Reuse
<1>2. EntriesKept /\ FrlTypes
  BY <1>1, WhileScanFetches
<1>3. /\ IsCurrentState
      /\ \/ ReusableText(t) = staged[t] /\ Wanted(t, staged[t])
         \/ ReusableText(t) = frlState.inventory[t] /\ Wanted(t, frlState.inventory[t])
  BY <1>1 DEF ReusableText, Found
<1>4. /\ ReusableText(t) \in Entry /\ ReusableText(t).version = SavedPlan.versions[t]
      /\ ReusableText(t).text = Schema
  BY <1>2, <1>3 DEF EntriesKept, TextGood, FrlTypes, Inventories, Wanted, TitlesIn
<1>5. ReusableText(t) = entry
  BY <1>4 DEF Entry
<1>6. texts' = texts /\ plans' = plans /\ scan' = scan
  BY <1>1 DEF frlDisk
<1>7. HasText(t, entry)'
  <2>1. <<t, entry>> \in texts /\ SavedPlan' = SavedPlan
    BY <1>1, <1>5, <1>6 DEF HasText, SavedPlan
  <2> QED
    BY <1>6, <2>1 DEF HasText
<1>8. Underway'
  BY <1>1, <1>5, <1>6, <1>7, FetchKeeps
<1>9. Lasting'
  BY <1>1, LastingStays DEF FrlInv
<1> QED
  BY <1>8, <1>9 DEF FrlInv

\* Texts and staged entries that come and go leave the rest of the disk as it is.
LEMMA LastingWithTexts ==
  ASSUME Lasting, texts \subseteq texts', staged' \in Inventories,
         \A t \in Titles : staged'[t] # Absent =>
           staged'[t].text = Schema /\ <<t, staged'[t]>> \in texts',
         UNCHANGED <<register, frlState, plans, stale, regressed>>
  PROVE  Lasting'
<1>1. UNCHANGED <<day, registered, current, inForce, late, frlState, plans, stale, regressed>>
  BY DEF register
<1>2. FrlTypes' /\ RegisterSound' /\ CursorsPast'
  BY <1>1 DEF Lasting, FrlTypes, RegisterSound, CursorsPast, Met, TitlesIn
<1>3. EntriesKept'
  BY <1>1 DEF Lasting, EntriesKept, TitlesIn, HasText, TextGood, IsCurrentState
<1>4. PlansHold'
  BY <1>1 DEF Lasting, PlansHold, IsCurrentState
<1>5. InventoryCovered'
  BY <1>1 DEF Lasting, InventoryCovered, IsCurrentState, TitlesIn, Covered, Reread
<1>6. PlansCovered'
  BY <1>1 DEF Lasting, PlansCovered, Settled, Covered, Reread
<1> QED
  BY <1>2, <1>3, <1>4, <1>5, <1>6 DEF Lasting

LEMMA StoreTextKeeps ==
  ASSUME FrlConstants, FrlInv, NEW t \in Titles, StoreText(t)
  PROVE  FrlInv'
<1> DEFINE entry == [version |-> SavedPlan.versions[t], text |-> Schema]
<1>1. /\ ScanAt("fetch") /\ fetches[t].pc = "todo"
      /\ texts' = texts \cup {<<t, entry>>}
      /\ fetches' = [fetches EXCEPT ![t] = [pc |-> "stored", entry |-> entry]]
      /\ UNCHANGED <<register, frlState, staged, plans, scan, stale, regressed>>
  BY DEF StoreText
<1>2. EntriesKept /\ FrlTypes /\ Lasting
  BY <1>1, WhileScanFetches
<1>3. HasText(t, entry)'
  <2>1. SavedPlan' = SavedPlan
    BY <1>1 DEF SavedPlan
  <2> QED
    BY <1>1, <2>1 DEF HasText
<1>4. Underway'
  BY <1>1, <1>3, FetchKeeps
<1>5. \A u \in Titles : staged'[u] # Absent =>
        staged'[u].text = Schema /\ <<u, staged'[u]>> \in texts'
  BY <1>1, <1>2 DEF EntriesKept, TextGood, TitlesIn, HasText
<1>6. Lasting'
  BY <1>1, <1>2, <1>5, LastingWithTexts DEF FrlTypes
<1> QED
  BY <1>4, <1>6 DEF FrlInv

LEMMA StageTitleKeeps ==
  ASSUME FrlConstants, FrlInv, NEW t \in Titles, StageTitle(t)
  PROVE  FrlInv'
<1> DEFINE entry == [version |-> SavedPlan.versions[t], text |-> Schema]
<1>1. /\ ScanAt("fetch") /\ fetches[t].pc = "stored"
      /\ staged' = [staged EXCEPT ![t] = fetches[t].entry]
      /\ fetches' = [fetches EXCEPT ![t].pc = "done"]
      /\ UNCHANGED <<register, frlState, texts, plans, scan, stale, regressed>>
  BY DEF StageTitle
<1>2. /\ EntriesKept /\ FrlTypes /\ Lasting /\ ScanFetching
      /\ fetches \in [Titles -> [pc : {"idle", "todo", "stored", "done"},
                                 entry : {Absent} \cup Entry]]
      /\ SavedPlan \in ScanPlans
  BY <1>1, WhileScanFetches
<1>3. fetches[t].entry = entry /\ <<t, entry>> \in texts
  BY <1>1, <1>2 DEF ScanFetching, HasText
<1>4. fetches' = [fetches EXCEPT ![t] = [pc |-> "done", entry |-> entry]]
  <2>1. [fetches[t] EXCEPT !.pc = "done"] = [pc |-> "done", entry |-> fetches[t].entry]
    <3>1. PICK pc, was : fetches[t] = [pc |-> pc, entry |-> was]
      BY <1>2
    <3> QED
      BY <3>1
  <2>2. fetches' = [fetches EXCEPT ![t] = [fetches[t] EXCEPT !.pc = "done"]]
    BY <1>1
  <2> QED
    BY <1>3, <2>1, <2>2
<1>5. HasText(t, entry)'
  <2>1. SavedPlan' = SavedPlan
    BY <1>1 DEF SavedPlan
  <2> QED
    BY <1>1, <1>3, <2>1 DEF HasText
<1>6. Underway'
  BY <1>1, <1>4, <1>5, FetchKeeps
<1>7. entry \in Entry /\ entry.text = Schema
  <2>1. SavedPlan.versions[t] # Absent
    BY <1>1, <1>2 DEF ScanFetching
  <2>2. SavedPlan.versions[t] \in Nat
    BY <1>2, <2>1 DEF ScanPlans, Versionings
  <2> QED
    BY <2>2 DEF Entry, Schema
<1>8. staged' \in Inventories
  BY <1>1, <1>2, <1>3, <1>7 DEF FrlTypes, Inventories
<1>9. \A u \in Titles : staged'[u] # Absent =>
        staged'[u].text = Schema /\ <<u, staged'[u]>> \in texts'
  BY <1>1, <1>2, <1>3, <1>7 DEF EntriesKept, TextGood, TitlesIn, HasText, FrlTypes, Inventories
<1>10. Lasting'
  BY <1>1, <1>2, <1>8, <1>9, LastingWithTexts
<1> QED
  BY <1>6, <1>10 DEF FrlInv

LEMMA ClearTitleKeeps ==
  ASSUME FrlInv, ClearTitle
  PROVE  FrlInv'
<1>1. PICK t : staged' = [staged EXCEPT ![t] = Absent]
  BY DEF ClearTitle
<1>2. /\ ScanAt("clear") /\ Lasting /\ FrlTypes /\ EntriesKept /\ ScanShape /\ Underway
      /\ UNCHANGED <<register, frlState, texts, plans, scan, fetches, stale, regressed>>
  BY DEF ClearTitle, FrlInv, Underway, Lasting
<1>3. staged' \in Inventories
  BY <1>1, <1>2 DEF FrlTypes, Inventories
<1>4. \A u \in Titles : staged'[u] # Absent =>
        staged'[u].text = Schema /\ <<u, staged'[u]>> \in texts'
  BY <1>1, <1>2 DEF EntriesKept, TextGood, TitlesIn, HasText, FrlTypes, Inventories
<1>5. Lasting'
  BY <1>2, <1>3, <1>4, LastingWithTexts
<1>6. ScanShape'
  BY <1>2 DEF ScanShape, ScanAt
<1>7. Underway'
  BY <1>2, <1>6 DEF Underway, ScanAt, SavedPlan
<1> QED
  BY <1>5, <1>7 DEF FrlInv

-----------------------------------------------------------------------------
(* The commit *)

\* The inventory and the cursor of the plan replace those of the state.
LEMMA CommitScanKeeps ==
  ASSUME FrlConstants, FrlInv, CommitScan
  PROVE  FrlInv'
<1> DEFINE saved == SavedPlan
<1>1. /\ ScanAt("fetch") /\ \A t \in Titles : fetches[t].pc \in {"idle", "done"}
      /\ frlState' = [schema |-> Schema, inventory |-> Reconciled,
                      cursor |-> IF After(SavedPlan.cursor, frlState.cursor) THEN SavedPlan.cursor
                                 ELSE frlState.cursor]
      /\ scan' = [scan EXCEPT !.pc = "clear"]
      /\ stale' = {r \in Scans : plans[r] # Absent}
      /\ regressed' = (regressed \/ scan.run \in stale)
      /\ UNCHANGED <<register, staged, texts, plans, fetches>>
  BY DEF CommitScan, AllFetched
<1>2. /\ Lasting /\ FrlTypes /\ EntriesKept /\ ScanFetching /\ ScanShape /\ SavedPlan # Absent
      /\ scan = [pc |-> "fetch", run |-> scan.run] /\ scan.run \in Scans
      /\ SavedPlan \in ScanPlans
      /\ fetches \in [Titles -> [pc : {"idle", "todo", "stored", "done"},
                                 entry : {Absent} \cup Entry]]
  BY <1>1, WhileScanFetches
<1>3. PICK run : run = scan.run /\ run \in Scans /\ plans[run] = saved /\ plans[run] # Absent
  BY <1>2 DEF SavedPlan
<1>4. scan' = [pc |-> "clear", run |-> run]
  <2>1. scan = [pc |-> "fetch", run |-> run]
    BY <1>2, <1>3
  <2> QED
    BY <1>1, <2>1
<1>5. UNCHANGED <<day, registered, current, inForce, late, staged, texts, plans>>
  BY <1>1 DEF register
<1>6. ASSUME NEW t \in Titles, Reconciled[t] # Absent
      PROVE  /\ t \in saved.titles /\ Reconciled[t] \in Entry
             /\ Reconciled[t].text = Schema /\ <<t, Reconciled[t]>> \in texts
             /\ Reconciled[t].version = Settled(run, t)
  <2>1. t \in saved.titles
    BY <1>6 DEF Reconciled
  <2>2. CASE fetches[t].pc = "done"
    <3>1. Reconciled[t] = fetches[t].entry
      BY <2>1, <2>2 DEF Reconciled
    <3>2. /\ fetches[t].entry = [version |-> SavedPlan.versions[t], text |-> Schema]
          /\ <<t, fetches[t].entry>> \in texts /\ SavedPlan.versions[t] # Absent
      BY <1>2, <2>2 DEF ScanFetching, HasText
    <3>3. SavedPlan.versions[t] \in Nat
      BY <1>2, <3>2 DEF ScanPlans, Versionings
    <3> QED
      BY <1>3, <2>1, <3>1, <3>2, <3>3 DEF Settled, Entry, Schema
  <2>3. CASE fetches[t].pc = "idle"
    <3>1. Reconciled[t] = frlState.inventory[t] /\ frlState.inventory[t] # Absent
      BY <1>6, <2>1, <2>3 DEF Reconciled
    <3>2. plans[run].versions[t] = Absent
      BY <1>2, <1>3, <2>3 DEF ScanFetching
    <3>3. IsCurrentState
      BY <1>2, <1>3, <2>1, <3>2 DEF Lasting, PlansHold
    <3>4. /\ frlState.inventory[t].text = Schema /\ <<t, frlState.inventory[t]>> \in texts
          /\ frlState.inventory[t] \in Entry
      BY <1>2, <3>1, <3>3 DEF EntriesKept, TitlesIn, HasText, FrlTypes, Inventories
    <3> QED
      BY <2>1, <3>1, <3>2, <3>4 DEF Settled
  <2> QED
    BY <1>1, <2>2, <2>3
<1>7. /\ frlState'.schema = Schema /\ frlState'.inventory = Reconciled
      /\ frlState'.cursor \in {plans[run].cursor, frlState.cursor}
  BY <1>1, <1>3
<1>8. Reconciled \in Inventories
  <2>1. Reconciled = [t \in Titles |-> Reconciled[t]]
    BY DEF Reconciled
  <2> QED
    BY <1>6, <2>1 DEF Inventories
<1>9. /\ plans[run] \in ScanPlans /\ plans[run].cursor \in Cursors /\ frlState.cursor \in Cursors
  BY <1>2, <1>3 DEF FrlTypes, ScanPlans
<1>10. FrlTypes'
  <2>1. frlState' \in [schema : 1 .. Schema, cursor : Cursors, inventory : Inventories]
    BY <1>1, <1>3, <1>8, <1>9 DEF Schema
  <2> QED
    BY <1>2, <1>5, <2>1 DEF FrlTypes
<1>11. \A t \in Titles : Reconciled[t] # Absent => Met(t)
  BY <1>2, <1>3, <1>6 DEF Lasting, RegisterSound
<1>12. RegisterSound'
  BY <1>2, <1>5, <1>7, <1>11 DEF Lasting, RegisterSound, Met, TitlesIn
<1>13. CursorsPast'
  BY <1>2, <1>3, <1>5, <1>7 DEF Lasting, CursorsPast
<1>14. EntriesKept'
  BY <1>2, <1>5, <1>6, <1>7 DEF EntriesKept, TextGood, TitlesIn, HasText
<1>15. PlansHold'
  BY <1>1, <1>5, <1>7 DEF PlansHold, IsCurrentState
<1>16. InventoryCovered'
  <2> SUFFICES ASSUME ~regressed, run \notin stale, NEW t \in Titles, Reconciled[t] # Absent
               PROVE  Covered(t, frlState.inventory[t].version, frlState.cursor.at)'
    BY <1>1, <1>3, <1>7 DEF InventoryCovered, TitlesIn
  <2>1. /\ Covered(t, Settled(run, t), plans[run].cursor.at)
        /\ Covered(t, Settled(run, t), frlState.cursor.at)
    BY <1>2, <1>3, <1>6 DEF Lasting, PlansCovered
  <2>2. Covered(t, Reconciled[t].version, frlState'.cursor.at)
    BY <1>6, <1>7, <2>1
  <2> QED
    BY <1>5, <1>7, <2>2 DEF Covered, Reread
<1>17. PlansCovered'
  BY <1>1, <1>5 DEF PlansCovered
<1>18. ScanShape' /\ SavedPlan' # Absent
  BY <1>3, <1>4, <1>5 DEF ScanShape, ScanAt, SavedPlan
<1> QED
  BY <1>1, <1>2, <1>4, <1>10, <1>12, <1>13, <1>14, <1>15, <1>16, <1>17, <1>18
  DEF FrlInv, Lasting, Underway, ScanAt

\* Every step of the next-state relation.
LEMMA FrlStepKeeps ==
  ASSUME FrlConstants, AbsentApart, FrlInv, [FrlNext]_frlVars
  PROVE  FrlInv'
<1>1. CASE NextDay \/ \E t \in Titles : Commence(t) \/ Repeal(t)
  BY <1>1, OtherRegisterSteps, RegisterStepLasts, RegisterStepGoesOn DEF FrlInv
<1>2. CASE \E t \in Titles : Register(t)
  BY <1>2, RegisterIsStep, RegisterStepLasts, RegisterStepGoesOn DEF FrlInv
<1>3. CASE \E r \in Scans : BeginScan(r)
  BY <1>3, BeginScanKeeps
<1>4. CASE FrlAdvance
  <2>1. CASE ReadUpperBound \/ TitlesPage \/ VersionsPage
    BY <2>1, ReadUpperBoundKeeps, TitlesPageKeeps, VersionsPageKeeps
  <2>2. CASE LookUp \/ SavePlan \/ LoadPlan
    BY <2>2, LookUpKeeps, SavePlanKeeps, LoadPlanKeeps
  <2>3. CASE \E t \in Titles : Reuse(t) \/ StoreText(t) \/ StageTitle(t)
    BY <2>3, ReuseKeeps, StoreTextKeeps, StageTitleKeeps
  <2>4. CASE CommitScan \/ Unreconciled \/ ClearTitle \/ ReportScan
    BY <2>4, CommitScanKeeps, EndingsKeepFrl, ClearTitleKeeps
  <2> QED
    BY <1>4, <2>1, <2>2, <2>3, <2>4 DEF FrlAdvance
<1>5. CASE Stop
  BY <1>5, EndingsKeepFrl
<1>6. CASE UNCHANGED frlVars
  <2>1. Lasting'
    BY <1>6, LastingStays DEF frlVars, FrlInv
  <2>2. /\ UNCHANGED <<day, registered, current, late, frlState, texts, plans, scan, fetches>>
    BY <1>6 DEF frlVars, register, frlDisk
  <2>3. ScanShape' /\ SavedPlan' = SavedPlan
    BY <2>2 DEF FrlInv, Underway, ScanShape, ScanAt, SavedPlan
  <2>4. Paging' = Paging
    BY <2>2 DEF Paging, Distinct, Met, Covered, Reread, LowerBound, KnownCursor, IsCurrentState,
                CurrentCursor, CurrentSeen
  <2>5. Resolving' = Resolving
    BY <2>2 DEF Resolving, Distinct, Met, Covered, Reread, LowerBound, KnownCursor,
                IsCurrentState, CurrentSeen, Reach
  <2>6. ScanFetching' = ScanFetching
    BY <2>2, <2>3 DEF ScanFetching, HasText
  <2> QED
    BY <2>1, <2>2, <2>3, <2>4, <2>5, <2>6 DEF FrlInv, Underway, ScanAt, Met
<1> QED
  BY <1>1, <1>2, <1>3, <1>4, <1>5, <1>6 DEF FrlNext

-----------------------------------------------------------------------------
(* Initial states *)

\* A finite set of numbers that is not empty has a greatest one.
LEMMA GreatestOf ==
  ASSUME NEW S \in SUBSET Nat, IsFiniteSet(S), S # {}
  PROVE  Max(S) \in S
<1> DEFINE R == {p \in S \X S : p[1] < p[2]}
<1>1. \A x, y \in S : <<x, y>> \in R <=> x < y
  OBVIOUS
<1> HIDE DEF R
<1>2. Orders(R, S)
  BY <1>1 DEF Orders
<1>3. PICK m \in S : \A x \in S \ {m} : <<x, m>> \in R
  BY <1>2, GreatestExists
<1>4. \A x \in S : m >= x
  <2> SUFFICES ASSUME NEW x \in S
               PROVE  m >= x
    OBVIOUS
  <2>1. m \in Nat /\ x \in Nat /\ (x = m \/ x < m)
    BY <1>1, <1>3
  <2> QED
    BY <2>1
<1> QED
  BY <1>4 DEF Max

\* A workspace that is new, superseded, established or awaiting.
LEMMA FrlStarts ==
  ASSUME FrlConstants, AbsentApart, FrlInit
  PROVE  FrlInv
<1>1. Titles \in SUBSET Nat /\ First \in Titles /\ Last \in Titles /\ First \in Nat /\ Last \in Nat
  BY LeastOf, GreatestOf DEF FrlConstants, First, Last
<1>2. Overlap \in Nat /\ Today \in Nat /\ Today = Overlap + 2
  BY DEF FrlConstants, Today
<1>3. PICK workspace \in Workspaces :
        /\ registered = [t \in Titles |-> IF t = First THEN <<1>>
                         ELSE IF t \in Listed(workspace) THEN <<day>> ELSE <<>>]
        /\ current = [t \in Titles |-> IF t \in Commenced(workspace) THEN 1 ELSE 0]
        /\ inForce = Commenced(workspace)
        /\ frlState = FirstState(workspace)
  BY DEF FrlInit
<1>4. /\ day = Today /\ late = {} /\ staged = [t \in Titles |-> Absent]
      /\ texts = {<<t, frlState.inventory[t]>> : t \in TitlesIn(frlState.inventory)}
      /\ plans = [r \in Scans |-> Absent]
      /\ scan = NoScan /\ fetches = NoFetches /\ stale = {} /\ regressed = FALSE
  BY DEF FrlInit, NoTexts
<1>5. /\ Listed(workspace) \in SUBSET Titles /\ Commenced(workspace) \in SUBSET Listed(workspace)
      /\ First \in Listed(workspace)
  BY <1>1 DEF Listed, Commenced
<1>6. PICK titles \in SUBSET Commenced(workspace), text \in 1 .. Schema, schema \in 1 .. Schema,
           cursor \in Cursors :
        /\ frlState = [schema |-> schema, cursor |-> cursor, inventory |-> Texts(titles, text)]
        /\ cursor.at <= day /\ (schema = Schema => text = Schema)
  <2>1. CASE workspace = "new"
    <3>1. frlState = [schema |-> Schema, cursor |-> Origin, inventory |-> Texts({}, Schema)]
      BY <1>3, <2>1 DEF FirstState, NoTexts, Texts
    <3>2. Origin \in Cursors /\ Origin.at <= day
      BY <1>2, <1>4 DEF Origin, Cursors
    <3> QED
      BY <3>1, <3>2 DEF Schema
  <2>2. CASE workspace = "superseded"
    <3> DEFINE cursor == [at |-> 1, title |-> First, number |-> 1]
    <3>1. frlState = [schema |-> 1, cursor |-> cursor, inventory |-> Texts({First}, 1)]
      BY <1>3, <2>2 DEF FirstState
    <3>2. First \in Commenced(workspace) /\ cursor \in Cursors /\ cursor.at <= day
      BY <1>1, <1>2, <1>4, <2>2 DEF Commenced, Listed, Cursors
    <3> QED
      BY <3>1, <3>2 DEF Schema
  <2>3. CASE workspace \notin {"new", "superseded"}
    <3> DEFINE cursor == [at |-> Today, title |-> Last, number |-> 1]
    <3>1. frlState = [schema |-> Schema, cursor |-> cursor,
                      inventory |-> Texts(Commenced(workspace), Schema)]
      BY <1>3, <2>3 DEF FirstState
    <3>2. cursor \in Cursors /\ cursor.at <= day
      BY <1>1, <1>2, <1>4 DEF Cursors
    <3> QED
      BY <3>1, <3>2 DEF Schema
  <2> QED
    BY <2>1, <2>2, <2>3
<1>7. \A t \in Titles : \/ t \in titles /\ frlState.inventory[t] = [version |-> 1, text |-> text]
                        \/ t \notin titles /\ frlState.inventory[t] = Absent
  BY <1>6 DEF Texts
<1>8. frlState.inventory \in Inventories
  BY <1>6 DEF Texts, Inventories, Entry
<1>9. TitlesIn(frlState.inventory) \in SUBSET titles
  BY <1>7 DEF TitlesIn
<1>10. \A t \in Commenced(workspace) : t \in Titles /\ current[t] = 1
  BY <1>3, <1>5
<1>11. \A t \in Titles : \/ registered[t] = <<1>> \/ registered[t] = <<day>>
                         \/ registered[t] = <<>> /\ t \notin Listed(workspace)
  BY <1>3, <1>5
<1>12. \A t \in Titles : /\ registered[t] \in Seq(Nat)
                         /\ \A n \in 1 .. Len(registered[t]) : registered[t][n] <= day
                         /\ t \in Listed(workspace) => Len(registered[t]) = 1
                         /\ Len(registered[t]) \in Nat
  <2> SUFFICES ASSUME NEW t \in Titles
               PROVE  /\ registered[t] \in Seq(Nat)
                      /\ \A n \in 1 .. Len(registered[t]) : registered[t][n] <= day
                      /\ t \in Listed(workspace) => Len(registered[t]) = 1
                      /\ Len(registered[t]) \in Nat
    OBVIOUS
  <2>1. day \in Nat /\ 1 <= day
    BY <1>2, <1>4
  <2>2. CASE registered[t] = <<1>>
    BY <2>1, <2>2
  <2>3. CASE registered[t] = <<day>>
    BY <2>1, <2>3
  <2>4. CASE registered[t] = <<>> /\ t \notin Listed(workspace)
    BY <2>1, <2>4
  <2> QED
    BY <1>11, <2>2, <2>3, <2>4
<1>13. FrlTypes
  <2>1. registered \in [Titles -> Seq(Nat)]
    BY <1>3, <1>12
  <2>2. current \in [Titles -> Nat] /\ inForce \subseteq Titles /\ day \in Nat
    BY <1>2, <1>3, <1>4, <1>5
  <2>3. frlState \in [schema : 1 .. Schema, cursor : Cursors, inventory : Inventories]
    BY <1>6, <1>8
  <2>4. staged \in Inventories /\ plans \in [Scans -> {Absent} \cup ScanPlans]
    BY <1>4 DEF Inventories
  <2> QED
    BY <2>1, <2>2, <2>3, <2>4 DEF FrlTypes
<1>14. RegisterSound
  <2>1. \A t \in Titles : current[t] <= Len(registered[t])
    BY <1>3, <1>5, <1>12
  <2> QED
    BY <1>3, <1>4, <1>6, <1>9, <1>10, <1>12, <2>1 DEF RegisterSound, Met
<1>15. CursorsPast
  BY <1>4, <1>6 DEF CursorsPast
<1>16. EntriesKept
  <2>1. \A t \in TitlesIn(frlState.inventory) : <<t, frlState.inventory[t]>> \in texts
    BY <1>4
  <2>2. \A t \in TitlesIn(frlState.inventory) : frlState.inventory[t].text = text
    BY <1>7 DEF TitlesIn
  <2>3. frlState.schema = schema
    BY <1>6
  <2> QED
    BY <1>4, <1>6, <2>1, <2>2, <2>3 DEF EntriesKept, HasText, IsCurrentState, TitlesIn
<1>17. InventoryCovered
  BY <1>6, <1>7, <1>9, <1>10 DEF InventoryCovered, Covered, TitlesIn
<1>18. PlansHold /\ PlansCovered
  BY <1>4 DEF PlansHold, PlansCovered
<1>19. Underway
  BY <1>4 DEF NoScan, NoFetches, Underway, ScanShape, ScanAt
<1> QED
  BY <1>13, <1>14, <1>15, <1>16, <1>17, <1>18, <1>19 DEF FrlInv, Lasting

LEMMA FrlInvariant ==
  ASSUME FrlConstants, AbsentApart
  PROVE  FrlSpec => []FrlInv
<1>1. FrlInit => FrlInv
  BY FrlStarts
<1>2. FrlInv /\ [FrlNext]_frlVars => FrlInv'
  BY FrlStepKeeps
<1> QED
  BY <1>1, <1>2, PTL DEF FrlSpec

\* Whatever the scans miss, are killed at or resume, a text in the inventory is the one in force,
\* or the next scan still reads the version that is: cursors, overlap, pages and stale plans lose
\* none (frl.rs scan_versions, resolve_authoritative_versions, commit of the cursor).
THEOREM InventoryMissesNothing ==
  ASSUME FrlConstants, AbsentApart
  PROVE  FrlSpec => []NothingMissed
<1>1. FrlInv => NothingMissed
  <2> SUFFICES ASSUME FrlInv, IsCurrentState, ~regressed,
                      NEW t \in TitlesIn(frlState.inventory) \ late,
                      frlState.inventory[t].version # current[t]
               PROVE  registered[t][current[t]] >= LowerBound
    BY DEF NothingMissed
  <2>1. t \in Titles /\ Met(t) /\ Reread(t, frlState.cursor.at)
    BY DEF FrlInv, Lasting, RegisterSound, TitlesIn, InventoryCovered, Covered
  <2>2. registered[t] \in Seq(Nat) /\ current[t] \in 1 .. Len(registered[t])
    BY <2>1 DEF FrlInv, Lasting, FrlTypes, RegisterSound, Met
  <2>3. registered[t][current[t]] \in Nat
    BY <2>2
  <2>4. KnownCursor = frlState.cursor /\ frlState.cursor.at \in Nat /\ Overlap \in Nat
    BY LowerBoundType DEF FrlInv, KnownCursor, Cursors, FrlConstants
  <2> QED
    BY <2>1, <2>3, <2>4 DEF Reread, LowerBound
<1> QED
  BY <1>1, FrlInvariant, PTL

\* What the state and the staging directory name was stored first, whole, and by the normalizer of
\* the schema they are read under (frl.rs persist_document, commit_staging_entry,
\* STATE_SCHEMA_VERSION).
THEOREM TextsAlwaysAsNamed ==
  ASSUME FrlConstants, AbsentApart
  PROVE  FrlSpec => []TextsAsNamed
<1>1. FrlInv => TextsAsNamed
  BY DEF FrlInv, Lasting, EntriesKept, TextGood, TextsAsNamed
<1> QED
  BY <1>1, FrlInvariant, PTL

\* Once every planned version is acquired, the inventory has the titles of the plan and no other,
\* so that "FRL reconciliation did not resolve" is never reported, unless another run has committed
\* in between (frl.rs fetch_plan).
THEOREM PlansAlwaysReconcile ==
  ASSUME FrlConstants, AbsentApart
  PROVE  FrlSpec => []PlansReconcile
<1>1. FrlInv => PlansReconcile
  <2> SUFFICES ASSUME FrlInv, AllFetched, scan.run \notin stale
               PROVE  TitlesIn(Reconciled) = SavedPlan.titles
    BY DEF PlansReconcile
  <2>1. /\ ScanAt("fetch") /\ \A t \in Titles : fetches[t].pc \in {"idle", "done"}
    BY DEF AllFetched
  <2>2. /\ ScanFetching /\ SavedPlan # Absent /\ SavedPlan \in ScanPlans /\ scan.run \in Scans
        /\ PlansHold
    BY <2>1, WhileScanFetches DEF FrlInv, Lasting
  <2>3. ASSUME NEW t \in SavedPlan.titles
        PROVE  t \in Titles /\ Reconciled[t] # Absent
    <3>1. t \in Titles
      BY <2>2 DEF ScanPlans
    <3>2. CASE fetches[t].pc = "done"
      <4>1. Reconciled[t] = [version |-> SavedPlan.versions[t], text |-> Schema]
        BY <2>2, <3>1, <3>2 DEF ScanFetching, Reconciled
      <4>2. SavedPlan.versions[t] \in Nat
        BY <2>2, <3>1, <3>2 DEF ScanFetching, ScanPlans, Versionings
      <4> QED
        BY <3>1, <4>1, <4>2 DEF AbsentApart, Entry, Schema
    <3>3. CASE fetches[t].pc = "idle"
      <4>1. Reconciled[t] = frlState.inventory[t] /\ SavedPlan.versions[t] = Absent
        BY <2>2, <3>1, <3>3 DEF ScanFetching, Reconciled
      <4> QED
        BY <2>2, <3>1, <4>1 DEF PlansHold, SavedPlan
    <3> QED
      BY <2>1, <3>1, <3>2, <3>3
  <2>4. \A t \in TitlesIn(Reconciled) : t \in SavedPlan.titles
    BY DEF TitlesIn, Reconciled
  <2> QED
    BY <2>3, <2>4 DEF TitlesIn
<1> QED
  BY <1>1, FrlInvariant, PTL
=============================================================================
