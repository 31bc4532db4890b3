------------------------- MODULE MaintainerSyncProofs -------------------------
(***************************************************************************)
(* Proofs about MaintainerSync, for any sources and any number of runs,      *)
(* publications, kills and failed acquisitions.  The inductive invariant     *)
(* says what each phase of the journal has established: what the build and    *)
(* the installed generation were made from, that the pointer names the        *)
(* generation of before or of this run, and, for a full refresh, on which      *)
(* side of the exchange of the source sets the run is.                        *)
(***************************************************************************)
EXTENDS MaintainerSync, TLAPS

Trees == [Sources -> Nat]
Runs == Generations \cup {None}
Pendings ==
  [mode : {"incremental", "full"}, phase : Phases, previous : Runs, new : Runs,
   fingerprint : Trees \cup {None}]
Shells ==
  [mode : {"incremental", "full", None}, phase : Phases \cup {None}, resuming : BOOLEAN,
   force : BOOLEAN, changed : BOOLEAN, todo : SUBSET Sources, previous : Runs, new : Runs,
   fingerprint : Trees \cup {None}]
Builds ==
  [state : {"none", "partial", "published", "complete"}, of : Trees \cup {None}]

\* None is none of the values it stands in for.
NoneApart == None \notin Trees /\ None \notin Nat /\ None \notin Pendings

Acquiring == {"submit", "acquiring", "acquired"}
Building == {"build", "compiling", "published", "built"}
Activating == {"activate", "installed", "verified"}
Promoting == {"promote", "retain", "finish"}

SyncTypes ==
  /\ sources \in Trees /\ fresh \in Trees \cup {None}
  /\ backup \in [Generations -> Trees \cup {None}]
  /\ made \in [Generations -> Trees \cup {None}]
  /\ build \in Builds
  /\ active \in Runs /\ run \in Generations
  /\ pending \in Pendings \cup {None}
  /\ sh \in Shells
  /\ pc \in {"idle", "started"} \cup Acquiring \cup Building \cup Activating \cup Promoting
  /\ prior \in Trees \cup {None}

\* Nothing of a run is there before it begins.
NothingLater ==
  /\ \A r \in Generations : r > run => made[r] = None /\ backup[r] = None
  /\ active # None => active <= run

\* The script runs in the phase it has journalled.
Journalled ==
  pc # "idle" =>
    /\ pending # None
    /\ sh.mode = pending.mode /\ sh.phase = pending.phase
    /\ sh.fingerprint = pending.fingerprint
    /\ pc # "verified" => sh.previous = pending.previous
    /\ pc \in Acquiring => pending.phase = "acquiring"
    /\ pc \in Building => pending.phase = "build"
    /\ pc \in Activating => pending.phase = "activating"
    /\ pc \in Promoting => pending.phase = "activated"
    /\ pc = "retain" => pending.mode = "full"

\* What is built, and activated.
Goal == IF pending.mode = "full" THEN pending.fingerprint ELSE sources
BuiltFromGoal ==
  pending # None =>
    /\ build.state # "none" => build.of = Goal /\ pending.phase # "acquiring"
    /\ pc \in {"compiling", "published", "built"} => build.state # "none"
    /\ made[run] # None => made[run] = Goal /\ pending.phase \in {"activating", "activated"}
    /\ active = run \/ pc = "installed" => made[run] # None
    /\ pc = "verified" \/ pending.phase = "activated" => active = run
    /\ pending.phase = "activating" => active \in {pending.previous, run}

\* The two sides of the exchange.
Unexchanged == sources = prior /\ fresh = pending.fingerprint /\ backup[run] = None
Exchanged ==
  /\ pending.phase = "activated" /\ sources = pending.fingerprint
  /\ prior \in {fresh, backup[run]}
FullRefresh ==
  pending # None /\ pending.mode = "full" =>
    /\ prior \in Trees
    /\ pending.phase = "acquiring" =>
         /\ sources = prior /\ backup[run] = None
         /\ pc \in Acquiring => fresh \in Trees
    /\ pending.phase # "acquiring" =>
         pending.fingerprint \in Trees /\ (Unexchanged \/ Exchanged)
    /\ pc \in {"retain", "finish"} => sources = pending.fingerprint

\* An incremental run that has found nothing new so far.
NothingNew ==
  /\ pending # None /\ pending.mode # "full" => prior = None
  /\ /\ pending # None /\ pending.mode # "full" /\ pending.phase = "acquiring"
     /\ pc # "idle" /\ ~sh.resuming /\ (pc \in {"started", "submit"} \/ ~sh.changed)
     /\ active # None
     => made[active] = sources

SyncInv ==
  /\ SyncTypes /\ NothingLater /\ Journalled /\ BuiltFromGoal /\ FullRefresh /\ NothingNew
  /\ SyncedTogether /\ PriorSetKept
-----------------------------------------------------------------------------
(* What every step relies on *)

LEMMA StartTypes == NoShell \in Shells /\ NoBuild \in Builds /\ Empty \in Trees
BY DEF NoShell, NoBuild, Empty, Shells, Builds, Trees, Runs

LEMMA FingerprintIsTree ==
  ASSUME NEW tree
  PROVE  Fingerprint(tree) \in {None, tree}
BY DEF Fingerprint

\* What is journalled is what the script goes on with.
LEMMA Journals ==
  ASSUME NEW phase \in Phases, NEW shell \in Shells, shell.mode \in {"incremental", "full"},
         Journal(phase, shell)
  PROVE  /\ pending' \in Pendings /\ sh' \in Shells
         /\ pending'.mode = shell.mode /\ pending'.phase = phase
         /\ pending'.fingerprint = shell.fingerprint /\ pending'.previous = shell.previous
         /\ sh'.mode = shell.mode /\ sh'.phase = phase
         /\ sh'.fingerprint = shell.fingerprint /\ sh'.previous = shell.previous
         /\ sh'.resuming = shell.resuming /\ sh'.changed = shell.changed
BY DEF Journal, Pendings, Shells

\* The journal is there while the script runs.
LEMMA Running ==
  ASSUME NoneApart, SyncInv, pc # "idle"
  PROVE  /\ pending \in Pendings /\ pending # None
         /\ sh.mode = pending.mode /\ sh.phase = pending.phase
         /\ sh.fingerprint = pending.fingerprint
         /\ sh.mode \in {"incremental", "full"} /\ sh.phase \in Phases
BY DEF SyncInv, SyncTypes, Journalled, Pendings

\* A script that is killed or fails leaves the journal and what it has done.
LEMMA ExitKeeps ==
  ASSUME SyncInv, Exit, UNCHANGED <<durable, pending, run, prior>>
  PROVE  SyncInv'
<1>1. /\ pc' = "idle" /\ sh' = NoShell
      /\ UNCHANGED <<sources, fresh, backup, build, made, active, pending, run, prior>>
  BY DEF Exit, durable
<1>2. SyncTypes'
  BY <1>1, StartTypes DEF SyncInv, SyncTypes
<1>3. NothingLater' /\ Journalled'
  BY <1>1 DEF SyncInv, NothingLater, Journalled
<1>4. BuiltFromGoal'
  BY <1>1 DEF SyncInv, BuiltFromGoal, Goal
<1>5. FullRefresh'
  BY <1>1 DEF SyncInv, FullRefresh, Unexchanged, Exchanged, Acquiring
<1>6. NothingNew' /\ SyncedTogether' /\ PriorSetKept'
  BY <1>1 DEF SyncInv, NothingNew, SyncedTogether, PriorSetKept
<1> QED
  BY <1>2, <1>3, <1>4, <1>5, <1>6 DEF SyncInv

-----------------------------------------------------------------------------
LEMMA SyncInvHolds == ASSUME SyncConstants, NoneApart, Init PROVE SyncInv
<1>1. sources \in Trees
  <2>1. StartVersions \subseteq Nat
    BY DEF SyncConstants
  <2>2. sources \in [Sources -> StartVersions]
    BY DEF Init
  <2> QED
    BY <2>1, <2>2 DEF Trees
<1>2. SyncTypes
  BY <1>1, StartTypes DEF Init, SyncTypes, SyncConstants, Generations, Runs
<1>3. NothingLater
  BY DEF Init, NothingLater, Generations, NoneApart, SyncConstants
<1>4. Journalled /\ BuiltFromGoal /\ FullRefresh /\ NothingNew /\ PriorSetKept
  BY DEF Init, Journalled, BuiltFromGoal, FullRefresh, NothingNew, PriorSetKept
<1>5. SyncedTogether
  BY DEF Init, SyncedTogether, Generations, SyncConstants
<1> QED
  BY <1>2, <1>3, <1>4, <1>5 DEF SyncInv

LEMMA BeginKeeps ==
  ASSUME SyncConstants, NoneApart, SyncInv, NEW mode \in Modes, NEW force \in BOOLEAN,
         Begin(mode, force)
  PROVE  SyncInv'
<1> DEFINE shell == [NoShell EXCEPT !.mode = mode, !.force = force]
<1>1. /\ pc = "idle" /\ pending = None /\ run < MaxRuns /\ run' = run + 1
      /\ Journal("acquiring", shell) /\ pc' = "started"
      /\ prior' = (IF mode = "full" THEN sources ELSE None)
      /\ fresh' = None /\ build' = NoBuild
      /\ UNCHANGED <<sources, backup, made, active>>
  BY DEF Begin
<1>2. /\ shell \in Shells /\ shell.mode = mode /\ mode \in {"incremental", "full"}
      /\ shell.fingerprint = None /\ shell.previous = None /\ ~shell.resuming
  BY DEF NoShell, Shells, Runs, SyncConstants
<1> HIDE DEF shell
<1>3. /\ pending' \in Pendings /\ sh' \in Shells
      /\ pending'.mode = mode /\ pending'.phase = "acquiring"
      /\ pending'.fingerprint = None /\ pending'.previous = None
      /\ sh'.mode = mode /\ sh'.phase = "acquiring"
      /\ sh'.fingerprint = None /\ sh'.previous = None
  BY <1>1, <1>2, Journals DEF Phases
<1>4. run \in Nat /\ run' \in Generations /\ run' > run
  BY <1>1 DEF SyncInv, SyncTypes, Generations, SyncConstants
<1>5. SyncTypes'
  BY <1>1, <1>3, <1>4, StartTypes DEF SyncInv, SyncTypes
<1>6. made[run'] = None /\ backup[run'] = None /\ active # run'
  <2>1. active # None => active \in Nat
    BY DEF SyncInv, SyncTypes, Runs, Generations
  <2>2. run' \in Nat
    BY <1>1, <1>4
  <2> QED
    BY <1>4, <2>1, <2>2 DEF SyncInv, NothingLater, NoneApart
<1>7. NothingLater'
  <2>1. \A r \in Generations : r > run' => r > run
    BY <1>1, <1>4 DEF Generations
  <2>2. active # None => active \in Nat
    BY DEF SyncInv, SyncTypes, Runs, Generations
  <2> QED
    BY <1>1, <1>4, <2>1, <2>2 DEF SyncInv, NothingLater
<1>8. pending' # None
  BY <1>3 DEF NoneApart
<1>9. Journalled'
  BY <1>1, <1>3, <1>8 DEF Journalled, Acquiring, Building, Activating, Promoting
<1>10. BuiltFromGoal'
  BY <1>1, <1>3, <1>6 DEF BuiltFromGoal, NoBuild
<1>11. FullRefresh'
  BY <1>1, <1>3, <1>6 DEF FullRefresh, SyncInv, SyncTypes, Acquiring
<1>12. NothingNew' /\ SyncedTogether'
  BY <1>1, <1>2, <1>3, <1>8 DEF NothingNew, SyncInv, SyncedTogether
<1>13. PriorSetKept'
  BY <1>1 DEF PriorSetKept
<1> QED
  BY <1>5, <1>7, <1>9, <1>10, <1>11, <1>12, <1>13 DEF SyncInv

LEMMA ResumeKeeps ==
  ASSUME NoneApart, SyncInv, NEW mode \in Modes, NEW force \in BOOLEAN, Resume(mode, force)
  PROVE  SyncInv'
<1>1. /\ pc = "idle" /\ pending # None /\ pc' = "started"
      /\ sh' = [NoShell EXCEPT !.mode = pending.mode, !.phase = pending.phase,
                               !.resuming = TRUE, !.force = force,
                               !.previous = pending.previous, !.new = pending.new,
                               !.fingerprint = pending.fingerprint]
      /\ UNCHANGED <<sources, fresh, backup, build, made, active, pending, run, prior>>
  BY DEF Resume, durable
<1>2. pending \in Pendings
  BY <1>1 DEF SyncInv, SyncTypes
<1>3. /\ sh' \in Shells /\ sh'.mode = pending.mode /\ sh'.phase = pending.phase
      /\ sh'.fingerprint = pending.fingerprint /\ sh'.previous = pending.previous
      /\ sh'.resuming
  BY <1>1, <1>2 DEF NoShell, Shells, Pendings
<1>4. SyncTypes'
  BY <1>1, <1>3 DEF SyncInv, SyncTypes
<1>5. NothingLater' /\ Journalled'
  BY <1>1, <1>3
     DEF SyncInv, NothingLater, Journalled, Acquiring, Building, Activating, Promoting
<1>6. BuiltFromGoal'
  BY <1>1 DEF SyncInv, BuiltFromGoal, Goal
<1>7. FullRefresh'
  BY <1>1 DEF SyncInv, FullRefresh, Unexchanged, Exchanged, Acquiring
<1>8. NothingNew' /\ SyncedTogether' /\ PriorSetKept'
  BY <1>1, <1>3 DEF SyncInv, NothingNew, SyncedTogether, PriorSetKept
<1> QED
  BY <1>4, <1>5, <1>6, <1>7, <1>8 DEF SyncInv

\* The directory for a full refresh is made again if a run has given it away.
LEMMA PrepareKeeps ==
  ASSUME NoneApart, SyncInv, Prepare
  PROVE  SyncInv'
<1>1. /\ pc = "started"
      /\ fresh' = (IF sh.mode = "full" /\ fresh = None THEN Empty ELSE fresh)
      /\ UNCHANGED <<sources, backup, build, made, active, pending, run, sh, prior>>
  BY DEF Prepare
<1>2. /\ pending \in Pendings /\ pending # None
      /\ sh.mode = pending.mode /\ sh.phase = pending.phase /\ sh.phase \in Phases
      /\ sh.fingerprint = pending.fingerprint
  BY <1>1, Running
<1>3. /\ sh.phase = "acquiring" => pc' = "submit"
      /\ sh.phase = "build" => pc' = "build"
      /\ sh.phase = "activating" => pc' = "activate"
      /\ sh.phase = "activated" => pc' = "promote"
  BY <1>2 DEF Prepare, Phases
<1>4. SyncTypes'
  BY <1>1, <1>2, <1>3, StartTypes
     DEF SyncInv, SyncTypes, Phases, Acquiring, Building, Activating, Promoting
<1>5. NothingLater' /\ Journalled'
  BY <1>1, <1>2, <1>3
     DEF SyncInv, NothingLater, Journalled, Phases, Acquiring, Building, Activating, Promoting
<1>6. BuiltFromGoal'
  BY <1>1, <1>2, <1>3 DEF SyncInv, BuiltFromGoal, Goal, Phases
<1>7. FullRefresh'
  <2>1. SUFFICES ASSUME pending.mode = "full"
                 PROVE  FullRefresh'
    BY <1>1 DEF FullRefresh
  <2>2. fresh' \in Trees
    BY <1>1, <1>2, <2>1, StartTypes DEF SyncInv, SyncTypes
  <2>3. pending.phase # "acquiring" => Unexchanged' \/ Exchanged'
    BY <1>1, <1>2, <2>1 DEF SyncInv, FullRefresh, Unexchanged, Exchanged, NoneApart
  <2> QED
    BY <1>1, <1>2, <1>3, <2>1, <2>2, <2>3 DEF SyncInv, FullRefresh, Phases
<1>8. NothingNew' /\ SyncedTogether'
  BY <1>1, <1>2, <1>3 DEF SyncInv, NothingNew, SyncedTogether
<1>9. PriorSetKept'
  BY <1>1 DEF SyncInv, PriorSetKept
<1> QED
  BY <1>4, <1>5, <1>6, <1>7, <1>8, <1>9 DEF SyncInv
-----------------------------------------------------------------------------
(* Acquisition *)

\* Steps between two of those that acquire, none of which has a build or an installation.
LEMMA SubmitKeeps ==
  ASSUME NoneApart, SyncInv, Submit
  PROVE  SyncInv'
<1>1. /\ pc = "submit" /\ pc' = (IF Submitted = {} THEN "acquired" ELSE "acquiring")
      /\ sh' = [sh EXCEPT !.todo = Submitted, !.changed = (Submitted = {})]
      /\ UNCHANGED <<sources, fresh, backup, build, made, active, pending, run, prior>>
  BY DEF Submit, durable
<1>2. Submitted \subseteq Sources
  BY DEF Submitted
<1>3. /\ sh' \in Shells /\ sh'.mode = sh.mode /\ sh'.phase = sh.phase
      /\ sh'.fingerprint = sh.fingerprint /\ sh'.previous = sh.previous
      /\ sh'.resuming = sh.resuming
  BY <1>1, <1>2 DEF SyncInv, SyncTypes, Shells
<1>4. SyncTypes'
  BY <1>1, <1>3 DEF SyncInv, SyncTypes, Acquiring
<1>5. NothingLater' /\ Journalled'
  BY <1>1, <1>3
     DEF SyncInv, NothingLater, Journalled, Acquiring, Building, Activating, Promoting
<1>6. BuiltFromGoal'
  BY <1>1 DEF SyncInv, BuiltFromGoal, Goal
<1>7. FullRefresh'
  BY <1>1 DEF SyncInv, FullRefresh, Unexchanged, Exchanged, Acquiring
<1>8. NothingNew' /\ SyncedTogether' /\ PriorSetKept'
  BY <1>1, <1>3 DEF SyncInv, NothingNew, SyncedTogether, PriorSetKept
<1> QED
  BY <1>4, <1>5, <1>6, <1>7, <1>8 DEF SyncInv

LEMMA CommitSourceKeeps ==
  ASSUME SyncConstants, NoneApart, SyncInv, NEW s \in Sources, CommitSource(s)
  PROVE  SyncInv'
<1>1. /\ pc = "acquiring" /\ pc' = (IF sh.todo = {s} THEN "acquired" ELSE "acquiring")
      /\ UNCHANGED <<backup, build, made, active, pending, run, prior>>
  BY DEF CommitSource
<1>2. PICK v \in 1 .. MaxVersion :
        /\ IF sh.mode = "full"
           THEN fresh' = [fresh EXCEPT ![s] = v] /\ UNCHANGED sources
           ELSE sources' = [sources EXCEPT ![s] = v] /\ UNCHANGED fresh
        /\ sh' = [sh EXCEPT !.todo = sh.todo \ {s}, !.changed = (sh.changed \/ v # Target[s])]
  BY DEF CommitSource
<1>3. v \in Nat
  BY DEF SyncConstants
<1>4. /\ pending \in Pendings /\ pending # None
      /\ sh.mode = pending.mode /\ pending.phase = "acquiring"
  BY <1>1, Running DEF SyncInv, Journalled, Acquiring
<1>5. /\ sh' \in Shells /\ sh'.mode = sh.mode /\ sh'.phase = sh.phase
      /\ sh'.fingerprint = sh.fingerprint /\ sh'.previous = sh.previous
      /\ sh'.resuming = sh.resuming /\ sh'.changed = (sh.changed \/ v # Target[s])
  BY <1>2 DEF SyncInv, SyncTypes, Shells
<1>6. /\ sources' \in Trees /\ fresh' \in Trees \cup {None}
      /\ pending.mode = "full" => fresh' \in Trees /\ sources' = sources
      /\ pending.mode # "full" /\ v = Target[s] => sources' = sources
  BY <1>1, <1>2, <1>3, <1>4 DEF SyncInv, SyncTypes, FullRefresh, Acquiring, Trees, Target
<1>7. SyncTypes'
  BY <1>1, <1>5, <1>6 DEF SyncInv, SyncTypes, Acquiring
<1>8. NothingLater' /\ Journalled'
  BY <1>1, <1>5
     DEF SyncInv, NothingLater, Journalled, Acquiring, Building, Activating, Promoting
<1>9. BuiltFromGoal'
  BY <1>1, <1>4 DEF SyncInv, BuiltFromGoal
<1>10. FullRefresh'
  BY <1>1, <1>4, <1>6 DEF SyncInv, FullRefresh, Acquiring
<1>11. NothingNew' /\ SyncedTogether'
  BY <1>1, <1>4, <1>5, <1>6 DEF SyncInv, NothingNew, SyncedTogether
<1>12. PriorSetKept'
  BY <1>1, <1>4, <1>10 DEF SyncInv, FullRefresh, NothingNew, PriorSetKept
<1> QED
  BY <1>7, <1>8, <1>9, <1>10, <1>11, <1>12 DEF SyncInv

\* A run that is not resumed and has seen no change leaves what is active as it is.
LEMMA KeepGenerationKeeps ==
  ASSUME NoneApart, SyncInv, KeepGeneration
  PROVE  SyncInv'
<1>1. /\ pc = "acquired" /\ NothingToBuild /\ pending' = None /\ pc' = "idle" /\ sh' = NoShell
      /\ UNCHANGED <<sources, fresh, backup, build, made, active, run, prior>>
  BY DEF KeepGeneration, Exit, durable
<1>2. /\ pending # None /\ pending.mode # "full" /\ pending.phase = "acquiring"
  BY <1>1, Running DEF NothingToBuild, SyncInv, Journalled, Acquiring
<1>3. SyncTypes'
  BY <1>1, StartTypes DEF SyncInv, SyncTypes
<1>4. NothingLater' /\ Journalled' /\ BuiltFromGoal' /\ FullRefresh'
  BY <1>1 DEF SyncInv, NothingLater, Journalled, BuiltFromGoal, FullRefresh
<1>5. NothingNew' /\ SyncedTogether'
  BY <1>1, <1>2 DEF NothingNew, SyncInv, SyncedTogether, NothingToBuild
<1>6. PriorSetKept'
  BY <1>1 DEF SyncInv, PriorSetKept
<1> QED
  BY <1>3, <1>4, <1>5, <1>6 DEF SyncInv

LEMMA RecordSourcesKeeps ==
  ASSUME NoneApart, SyncInv, RecordSources
  PROVE  SyncInv'
<1> DEFINE fingerprint == IF sh.mode = "full" THEN Fingerprint(fresh) ELSE None
           shell == [sh EXCEPT !.previous = None, !.new = None, !.fingerprint = fingerprint]
<1>1. /\ pc = "acquired" /\ pc' = "build"
      /\ sh.mode = "full" => Fingerprint(fresh) # None
      /\ Journal("build", shell)
      /\ UNCHANGED <<sources, fresh, backup, build, made, active, run, prior>>
  BY DEF RecordSources, durable
<1>2. /\ pending \in Pendings /\ pending # None
      /\ sh.mode = pending.mode /\ sh.mode \in {"incremental", "full"}
      /\ pending.phase = "acquiring"
  BY <1>1, Running DEF SyncInv, Journalled, Acquiring
<1>3. /\ fingerprint \in Trees \cup {None}
      /\ sh.mode = "full" => fingerprint = fresh /\ fresh \in Trees
  BY <1>1, <1>2, FingerprintIsTree DEF SyncInv, FullRefresh, Acquiring
<1> HIDE DEF fingerprint
<1>4. /\ shell \in Shells /\ shell.mode = sh.mode /\ shell.previous = None
      /\ shell.fingerprint = fingerprint
  BY <1>3 DEF SyncInv, SyncTypes, Shells, Runs
<1> HIDE DEF shell
<1>5. /\ pending' \in Pendings /\ sh' \in Shells
      /\ pending'.mode = pending.mode /\ pending'.phase = "build"
      /\ pending'.fingerprint = fingerprint /\ pending'.previous = None
      /\ sh'.mode = pending.mode /\ sh'.phase = "build"
      /\ sh'.fingerprint = fingerprint /\ sh'.previous = None
  BY <1>1, <1>2, <1>4, Journals DEF Phases
<1>6. pending' # None
  BY <1>5 DEF NoneApart
<1>7. SyncTypes'
  BY <1>1, <1>5 DEF SyncInv, SyncTypes, Building
<1>8. NothingLater' /\ Journalled'
  BY <1>1, <1>5, <1>6
     DEF SyncInv, NothingLater, Journalled, Acquiring, Building, Activating, Promoting
<1>9. BuiltFromGoal'
  BY <1>1, <1>2, <1>5 DEF SyncInv, BuiltFromGoal
<1>10. FullRefresh'
  BY <1>1, <1>2, <1>3, <1>5 DEF SyncInv, FullRefresh, Unexchanged, Acquiring
<1>11. NothingNew' /\ SyncedTogether'
  BY <1>1, <1>2, <1>5, <1>6 DEF SyncInv, NothingNew, SyncedTogether
<1>12. PriorSetKept'
  BY <1>1 DEF SyncInv, PriorSetKept
<1> QED
  BY <1>7, <1>8, <1>9, <1>10, <1>11, <1>12 DEF SyncInv

-----------------------------------------------------------------------------
(* Build and activation *)

LEMMA StartBuildKeeps ==
  ASSUME NoneApart, SyncInv, StartBuild
  PROVE  SyncInv'
<1>1. /\ pc = "build"
      /\ \/ build.state # "none" /\ pc' = "built" /\ build' = build
         \/ pc' = "compiling" /\ build' = [state |-> "partial", of |-> Target]
      /\ UNCHANGED <<sources, fresh, backup, made, active, pending, run, sh, prior>>
  BY DEF StartBuild
<1>2. /\ pending \in Pendings /\ pending # None /\ sh.mode = pending.mode
      /\ pending.phase = "build"
  BY <1>1, Running DEF SyncInv, Journalled, Building
<1>3. Target = Goal /\ Goal \in Trees
  BY <1>2 DEF SyncInv, SyncTypes, FullRefresh, Unexchanged, Exchanged, Target, Goal
<1>4. /\ build' \in Builds /\ build'.state # "none" /\ build'.of = Goal
  BY <1>1, <1>2, <1>3 DEF SyncInv, SyncTypes, BuiltFromGoal, Builds
<1>5. Goal' = Goal
  BY <1>1 DEF Goal
<1>6. SyncTypes'
  BY <1>1, <1>4 DEF SyncInv, SyncTypes, Building
<1>7. NothingLater' /\ Journalled'
  BY <1>1
     DEF SyncInv, NothingLater, Journalled, Acquiring, Building, Activating, Promoting
<1>8. BuiltFromGoal'
  BY <1>1, <1>2, <1>4, <1>5 DEF SyncInv, BuiltFromGoal
<1>9. FullRefresh'
  BY <1>1, <1>2 DEF SyncInv, FullRefresh, Unexchanged, Exchanged
<1>10. NothingNew' /\ SyncedTogether' /\ PriorSetKept'
  BY <1>1, <1>2 DEF SyncInv, NothingNew, SyncedTogether, PriorSetKept
<1> QED
  BY <1>6, <1>7, <1>8, <1>9, <1>10 DEF SyncInv

\* The manifest, and then the end of the checkpoint, of what was built.
LEMMA BuildGoesOn ==
  ASSUME NoneApart, SyncInv, PublishManifest \/ RemoveCheckpoint
  PROVE  SyncInv'
<1>1. /\ pc \in {"compiling", "published"} /\ pc' \in {"published", "built"}
      /\ \E state \in {"published", "complete"} : build' = [build EXCEPT !.state = state]
      /\ UNCHANGED <<sources, fresh, backup, made, active, pending, run, sh, prior>>
  BY DEF PublishManifest, RemoveCheckpoint
<1>2. /\ pending \in Pendings /\ pending # None /\ pending.phase = "build"
  BY <1>1, Running DEF SyncInv, Journalled, Building
<1>3. build' \in Builds /\ build'.state # "none" /\ build'.of = build.of
  BY <1>1 DEF SyncInv, SyncTypes, Builds
<1>4. Goal' = Goal /\ build.state # "none"
  BY <1>1, <1>2 DEF SyncInv, BuiltFromGoal, Goal
<1>5. SyncTypes'
  BY <1>1, <1>3 DEF SyncInv, SyncTypes, Building
<1>6. NothingLater' /\ Journalled'
  BY <1>1
     DEF SyncInv, NothingLater, Journalled, Acquiring, Building, Activating, Promoting
<1>7. BuiltFromGoal'
  BY <1>1, <1>2, <1>3, <1>4 DEF SyncInv, BuiltFromGoal
<1>8. FullRefresh'
  BY <1>1, <1>2 DEF SyncInv, FullRefresh, Unexchanged, Exchanged
<1>9. NothingNew' /\ SyncedTogether' /\ PriorSetKept'
  BY <1>1, <1>2 DEF SyncInv, NothingNew, SyncedTogether, PriorSetKept
<1> QED
  BY <1>5, <1>6, <1>7, <1>8, <1>9 DEF SyncInv

\* The pointer's generation is recorded while nothing of this run is installed.
LEMMA RecordBuildKeeps ==
  ASSUME NoneApart, SyncInv, RecordBuild
  PROVE  SyncInv'
<1> DEFINE shell == [sh EXCEPT !.previous = active, !.new = None]
<1>1. /\ pc = "built" /\ pc' = "activate" /\ Journal("activating", shell)
      /\ UNCHANGED <<sources, fresh, backup, build, made, active, run, prior>>
  BY DEF RecordBuild, durable
<1>2. /\ pending \in Pendings /\ pending # None
      /\ sh.mode = pending.mode /\ sh.fingerprint = pending.fingerprint
      /\ sh.mode \in {"incremental", "full"}
      /\ pending.phase = "build"
  BY <1>1, Running DEF SyncInv, Journalled, Building
<1>3. /\ shell \in Shells /\ shell.mode = sh.mode /\ shell.previous = active
      /\ shell.fingerprint = sh.fingerprint
  BY DEF SyncInv, SyncTypes, Shells, Runs
<1> HIDE DEF shell
<1>4. /\ pending' \in Pendings /\ sh' \in Shells
      /\ pending'.mode = pending.mode /\ pending'.phase = "activating"
      /\ pending'.fingerprint = pending.fingerprint /\ pending'.previous = active
      /\ sh'.mode = pending.mode /\ sh'.phase = "activating"
      /\ sh'.fingerprint = pending.fingerprint /\ sh'.previous = active
  BY <1>1, <1>2, <1>3, Journals DEF Phases
<1>5. pending' # None
  BY <1>4 DEF NoneApart
<1>6. SyncTypes'
  BY <1>1, <1>4 DEF SyncInv, SyncTypes, Activating
<1>7. NothingLater' /\ Journalled'
  BY <1>1, <1>4, <1>5
     DEF SyncInv, NothingLater, Journalled, Acquiring, Building, Activating, Promoting
<1>8. BuiltFromGoal'
  BY <1>1, <1>2, <1>4 DEF SyncInv, BuiltFromGoal, Goal
<1>9. FullRefresh'
  BY <1>1, <1>2, <1>4 DEF SyncInv, FullRefresh, Unexchanged, Exchanged, Acquiring
<1>10. NothingNew' /\ SyncedTogether'
  BY <1>1, <1>2, <1>4, <1>5 DEF SyncInv, NothingNew, SyncedTogether
<1>11. PriorSetKept'
  BY <1>1 DEF SyncInv, PriorSetKept
<1> QED
  BY <1>6, <1>7, <1>8, <1>9, <1>10, <1>11 DEF SyncInv

LEMMA InstallKeeps ==
  ASSUME NoneApart, SyncInv, Install
  PROVE  SyncInv'
<1>1. /\ pc = "activate" /\ build.state = "complete" /\ pc' = "installed"
      /\ made' = [made EXCEPT ![run] = build.of] /\ build' = NoBuild
      /\ UNCHANGED <<sources, fresh, backup, active, pending, run, sh, prior>>
  BY DEF Install
<1>2. /\ pending \in Pendings /\ pending # None /\ pending.phase = "activating"
  BY <1>1, Running DEF SyncInv, Journalled, Activating
<1>3. build.of = Goal /\ Goal \in Trees /\ Goal' = Goal
  BY <1>1, <1>2
     DEF SyncInv, SyncTypes, BuiltFromGoal, FullRefresh, Unexchanged, Exchanged, Goal
<1>4. /\ made' \in [Generations -> Trees \cup {None}] /\ made'[run] = Goal /\ Goal # None
      /\ \A r \in Generations \ {run} : made'[r] = made[r]
  BY <1>1, <1>3 DEF SyncInv, SyncTypes, NoneApart
<1>5. SyncTypes'
  BY <1>1, <1>4, StartTypes DEF SyncInv, SyncTypes, Activating
<1>6. NothingLater'
  <2>1. \A r \in Generations : r > run => r # run
    BY DEF SyncInv, SyncTypes, Generations
  <2> QED
    BY <1>1, <1>4, <2>1 DEF SyncInv, NothingLater
<1>7. Journalled'
  BY <1>1 DEF SyncInv, Journalled, Acquiring, Building, Activating, Promoting
<1>8. BuiltFromGoal'
  BY <1>1, <1>2, <1>3, <1>4 DEF SyncInv, BuiltFromGoal, NoBuild
<1>9. FullRefresh'
  BY <1>1, <1>2 DEF SyncInv, FullRefresh, Unexchanged, Exchanged
<1>10. NothingNew' /\ SyncedTogether' /\ PriorSetKept'
  BY <1>1, <1>2 DEF SyncInv, NothingNew, SyncedTogether, PriorSetKept
<1> QED
  BY <1>5, <1>6, <1>7, <1>8, <1>9, <1>10 DEF SyncInv

\* The pointer is switched to what this run has installed: by the activation, or by the operator.
LEMMA PointerMoves ==
  ASSUME NoneApart, SyncInv, active' = run, made[run] # None,
         pending # None, pending.phase = "activating",
         pc # "idle" => pc \in {"started"} \cup Activating,
         UNCHANGED <<sources, fresh, backup, build, made, pending, run, prior>>,
         pc' \in {pc, "verified"}, pc' # pc => pc # "idle",
         sh' \in Shells, sh'.mode = sh.mode, sh'.phase = sh.phase,
         sh'.fingerprint = sh.fingerprint,
         pc' # "verified" => sh'.previous = sh.previous
  PROVE  SyncInv'
<1>1. SyncTypes'
  BY DEF SyncInv, SyncTypes, Runs, Activating
<1>2. NothingLater'
  BY DEF SyncInv, SyncTypes, NothingLater, Generations
<1>3. Journalled'
  BY DEF SyncInv, Journalled, Acquiring, Building, Activating, Promoting
<1>4. BuiltFromGoal'
  BY DEF SyncInv, BuiltFromGoal, Goal, Activating
<1>5. FullRefresh'
  BY DEF SyncInv, FullRefresh, Unexchanged, Exchanged, Acquiring, Activating
<1>6. NothingNew' /\ SyncedTogether' /\ PriorSetKept'
  BY DEF SyncInv, NothingNew, SyncedTogether, PriorSetKept
<1> QED
  BY <1>1, <1>2, <1>3, <1>4, <1>5, <1>6 DEF SyncInv

LEMMA PointKeeps ==
  ASSUME NoneApart, SyncInv, Point
  PROVE  SyncInv'
<1>1. /\ pc = "installed" /\ pc' = "verified" /\ active' = run
      /\ sh' = [sh EXCEPT !.new = run, !.previous = active]
      /\ UNCHANGED <<sources, fresh, backup, build, made, pending, run, prior>>
  BY DEF Point
<1>2. pending # None /\ pending.phase = "activating" /\ made[run] # None
  BY <1>1 DEF SyncInv, Journalled, Activating, BuiltFromGoal
<1>3. /\ sh' \in Shells /\ sh'.mode = sh.mode /\ sh'.phase = sh.phase
      /\ sh'.fingerprint = sh.fingerprint
  BY <1>1 DEF SyncInv, SyncTypes, Shells, Runs
<1> QED
  BY <1>1, <1>2, <1>3, PointerMoves DEF Activating

\* A pointer that is no longer what was recorded names the generation of this run.
LEMMA RecoverOutcomeKeeps ==
  ASSUME NoneApart, SyncInv, RecoverOutcome
  PROVE  SyncInv'
<1>1. /\ pc = "activate" /\ pc' = "verified" /\ active # sh.previous
      /\ sh' = [sh EXCEPT !.new = active]
      /\ UNCHANGED <<sources, fresh, backup, build, made, active, pending, run, prior>>
  BY DEF RecoverOutcome, durable
<1>2. /\ pending # None /\ pending.phase = "activating" /\ sh.previous = pending.previous
  BY <1>1 DEF SyncInv, Journalled, Activating
<1>3. active = run /\ made[run] # None
  BY <1>1, <1>2 DEF SyncInv, BuiltFromGoal
<1>4. /\ sh' \in Shells /\ sh'.mode = sh.mode /\ sh'.phase = sh.phase
      /\ sh'.fingerprint = sh.fingerprint
  BY <1>1 DEF SyncInv, SyncTypes, Shells, Runs
<1> QED
  BY <1>1, <1>2, <1>3, <1>4, PointerMoves DEF Activating

LEMMA OperatorRecoversKeeps ==
  ASSUME NoneApart, SyncInv, OperatorRecovers
  PROVE  SyncInv'
<1>1. /\ pending # None /\ pending.phase = "activating" /\ made[run] # None /\ active' = run
      /\ active # run
      /\ UNCHANGED <<sources, fresh, backup, build, made, pending, run, pc, sh, prior>>
  BY DEF OperatorRecovers
<1>2. pc # "idle" => pc \in {"started"} \cup Activating
  BY <1>1 DEF SyncInv, SyncTypes, Journalled
<1>3. sh \in Shells
  BY DEF SyncInv, SyncTypes
<1> QED
  BY <1>1, <1>2, <1>3, PointerMoves

LEMMA RecordActivatedKeeps ==
  ASSUME NoneApart, SyncInv, RecordActivated
  PROVE  SyncInv'
<1>1. /\ pc = "verified" /\ pc' = "promote" /\ Journal("activated", sh)
      /\ UNCHANGED <<sources, fresh, backup, build, made, active, run, prior>>
  BY DEF RecordActivated, durable
<1>2. /\ pending \in Pendings /\ pending # None
      /\ sh.mode = pending.mode /\ sh.fingerprint = pending.fingerprint
      /\ sh.mode \in {"incremental", "full"} /\ sh \in Shells
      /\ pending.phase = "activating"
  BY <1>1, Running DEF SyncInv, SyncTypes, Journalled, Activating
<1>3. /\ pending' \in Pendings /\ sh' \in Shells
      /\ pending'.mode = pending.mode /\ pending'.phase = "activated"
      /\ pending'.fingerprint = pending.fingerprint /\ pending'.previous = sh.previous
      /\ sh'.mode = pending.mode /\ sh'.phase = "activated"
      /\ sh'.fingerprint = pending.fingerprint /\ sh'.previous = sh.previous
  BY <1>1, <1>2, Journals DEF Phases
<1>4. pending' # None
  BY <1>3 DEF NoneApart
<1>5. SyncTypes'
  BY <1>1, <1>3 DEF SyncInv, SyncTypes, Promoting
<1>6. NothingLater' /\ Journalled'
  BY <1>1, <1>3, <1>4
     DEF SyncInv, NothingLater, Journalled, Acquiring, Building, Activating, Promoting
<1>7. BuiltFromGoal'
  BY <1>1, <1>2, <1>3 DEF SyncInv, BuiltFromGoal, Goal
<1>8. FullRefresh'
  BY <1>1, <1>2, <1>3 DEF SyncInv, FullRefresh, Unexchanged, Exchanged, Acquiring
<1>9. NothingNew' /\ SyncedTogether'
  BY <1>1, <1>2, <1>3, <1>4 DEF SyncInv, NothingNew, SyncedTogether
<1>10. PriorSetKept'
  BY <1>1 DEF SyncInv, PriorSetKept
<1> QED
  BY <1>5, <1>6, <1>7, <1>8, <1>9, <1>10 DEF SyncInv

-----------------------------------------------------------------------------
(* Promotion *)

\* From the journal's last phase on.
LEMMA LastPhase ==
  ASSUME NoneApart, SyncInv, pc \in Promoting
  PROVE  /\ pending \in Pendings /\ pending # None /\ pending.phase = "activated"
         /\ sh.mode = pending.mode /\ sh.fingerprint = pending.fingerprint
         /\ active = run /\ made[run] = Goal /\ made[run] # None
<1>1. /\ pending \in Pendings /\ pending # None /\ pending.phase = "activated"
      /\ sh.mode = pending.mode /\ sh.fingerprint = pending.fingerprint
  BY Running DEF SyncInv, Journalled, Promoting
<1> QED
  BY <1>1 DEF SyncInv, BuiltFromGoal

LEMMA PromotionSkippedOrDone ==
  ASSUME NoneApart, SyncInv, SkipPromotion \/ AlreadyPromoted
  PROVE  SyncInv'
<1>1. /\ pc = "promote"
      /\ UNCHANGED <<sources, fresh, backup, build, made, active, pending, run, sh, prior>>
      /\ \/ sh.mode # "full" /\ pc' = "finish"
         \/ /\ sh.mode = "full" /\ pc' = "retain"
            /\ Fingerprint(sources) # None /\ Fingerprint(sources) = sh.fingerprint
  BY DEF SkipPromotion, AlreadyPromoted, durable
<1>2. /\ pending \in Pendings /\ pending # None /\ pending.phase = "activated"
      /\ sh.mode = pending.mode /\ sh.fingerprint = pending.fingerprint
  BY <1>1, LastPhase DEF Promoting
<1>3. pending.mode = "full" => sources = pending.fingerprint
  BY <1>1, <1>2, FingerprintIsTree
<1>4. SyncTypes'
  BY <1>1 DEF SyncInv, SyncTypes, Promoting
<1>5. NothingLater' /\ Journalled'
  BY <1>1, <1>2
     DEF SyncInv, NothingLater, Journalled, Acquiring, Building, Activating, Promoting
<1>6. BuiltFromGoal'
  BY <1>1 DEF SyncInv, BuiltFromGoal, Goal
<1>7. FullRefresh'
  BY <1>1, <1>2, <1>3 DEF SyncInv, FullRefresh, Unexchanged, Exchanged
<1>8. NothingNew' /\ SyncedTogether' /\ PriorSetKept'
  BY <1>1, <1>2 DEF SyncInv, NothingNew, SyncedTogether, PriorSetKept
<1> QED
  BY <1>4, <1>5, <1>6, <1>7, <1>8 DEF SyncInv

\* The two sets change places, whatever becomes of the script then.
LEMMA ExchangeKeeps ==
  ASSUME NoneApart, SyncInv, Exchange
  PROVE  SyncInv'
<1>1. /\ pc = "promote" /\ sh.mode = "full"
      /\ Fingerprint(sources) \notin {None, sh.fingerprint}
      /\ sources' = fresh /\ fresh' = sources
      /\ \/ pc' = "retain" /\ sh' = sh
         \/ pc' = "idle" /\ sh' = NoShell
      /\ UNCHANGED <<backup, build, made, active, pending, run, prior>>
  BY DEF Exchange, Exit
<1>2. /\ pending \in Pendings /\ pending # None /\ pending.phase = "activated"
      /\ sh.mode = pending.mode /\ sh.fingerprint = pending.fingerprint
      /\ active = run /\ made[run] = Goal
  BY <1>1, LastPhase DEF Promoting
<1>3. sources # pending.fingerprint
  BY <1>1, <1>2, FingerprintIsTree
<1>4. Unexchanged /\ pending.fingerprint \in Trees
  BY <1>1, <1>2, <1>3 DEF SyncInv, FullRefresh, Exchanged
<1>5. sources' = pending.fingerprint /\ fresh' = prior /\ backup' = backup
  BY <1>1, <1>4 DEF Unexchanged
<1>6. SyncTypes'
  BY <1>1, <1>4, <1>5, StartTypes DEF SyncInv, SyncTypes, Promoting
<1>7. NothingLater' /\ Journalled'
  BY <1>1, <1>2
     DEF SyncInv, NothingLater, Journalled, Acquiring, Building, Activating, Promoting
<1>8. BuiltFromGoal'
  BY <1>1, <1>2 DEF SyncInv, BuiltFromGoal, Goal
<1>9. FullRefresh'
  BY <1>1, <1>2, <1>4, <1>5 DEF SyncInv, FullRefresh, Exchanged
<1>10. NothingNew' /\ SyncedTogether' /\ PriorSetKept'
  BY <1>1, <1>2, <1>5 DEF SyncInv, NothingNew, SyncedTogether, PriorSetKept
<1> QED
  BY <1>6, <1>7, <1>8, <1>9, <1>10 DEF SyncInv

\* The snapshot that is taken is the set of before.
LEMMA RetainPriorKeeps ==
  ASSUME NoneApart, SyncInv, RetainPrior
  PROVE  SyncInv'
<1>1. /\ pc = "retain" /\ backup[run] = None /\ pc' = "finish"
      /\ backup' = [backup EXCEPT ![run] = fresh] /\ fresh' = None
      /\ UNCHANGED <<sources, build, made, active, pending, run, sh, prior>>
  BY DEF RetainPrior
<1>2. /\ pending \in Pendings /\ pending # None /\ pending.phase = "activated"
      /\ pending.mode = "full" /\ sources = pending.fingerprint /\ prior \in Trees
  BY <1>1, LastPhase DEF SyncInv, Journalled, FullRefresh, Promoting
<1>3. fresh = prior
  BY <1>1, <1>2 DEF SyncInv, FullRefresh, Unexchanged, Exchanged, NoneApart
<1>4. /\ backup' \in [Generations -> Trees \cup {None}] /\ backup'[run] = prior
      /\ \A r \in Generations \ {run} : backup'[r] = backup[r]
  BY <1>1, <1>2, <1>3 DEF SyncInv, SyncTypes
<1>5. SyncTypes'
  BY <1>1, <1>4 DEF SyncInv, SyncTypes, Promoting
<1>6. NothingLater'
  <2>1. \A r \in Generations : r > run => r # run
    BY DEF SyncInv, SyncTypes, Generations
  <2> QED
    BY <1>1, <1>4, <2>1 DEF SyncInv, NothingLater
<1>7. Journalled'
  BY <1>1 DEF SyncInv, Journalled, Acquiring, Building, Activating, Promoting
<1>8. BuiltFromGoal'
  BY <1>1 DEF SyncInv, BuiltFromGoal, Goal
<1>9. FullRefresh'
  BY <1>1, <1>2, <1>4 DEF SyncInv, FullRefresh, Exchanged
<1>10. NothingNew' /\ SyncedTogether' /\ PriorSetKept'
  BY <1>1, <1>2, <1>4 DEF SyncInv, NothingNew, SyncedTogether, PriorSetKept
<1> QED
  BY <1>5, <1>6, <1>7, <1>8, <1>9, <1>10 DEF SyncInv

LEMMA FinishKeeps ==
  ASSUME NoneApart, SyncInv, Finish
  PROVE  SyncInv'
<1>1. /\ pc = "finish" /\ pending' = None /\ pc' = "idle" /\ sh' = NoShell
      /\ UNCHANGED <<sources, fresh, backup, build, made, active, run, prior>>
  BY DEF Finish, Exit, durable
<1>2. active = run /\ made[run] = Goal /\ pending # None
  BY <1>1, LastPhase DEF Promoting
<1>3. sources = Goal
  BY <1>1, <1>2 DEF SyncInv, FullRefresh, Goal
<1>4. SyncTypes'
  BY <1>1, StartTypes DEF SyncInv, SyncTypes
<1>5. NothingLater' /\ Journalled' /\ BuiltFromGoal' /\ FullRefresh' /\ NothingNew'
  BY <1>1 DEF SyncInv, NothingLater, Journalled, BuiltFromGoal, FullRefresh, NothingNew
<1>6. SyncedTogether' /\ PriorSetKept'
  BY <1>1, <1>2, <1>3 DEF SyncInv, SyncedTogether, PriorSetKept
<1> QED
  BY <1>4, <1>5, <1>6 DEF SyncInv

-----------------------------------------------------------------------------
LEMMA SyncStutter == ASSUME SyncInv, UNCHANGED vars PROVE SyncInv'
<1>1. UNCHANGED <<sources, fresh, backup, build, made, active, pending, run, pc, sh, prior>>
  BY DEF vars, durable
<1>2. SyncTypes' /\ NothingLater' /\ Journalled'
  BY <1>1 DEF SyncInv, SyncTypes, NothingLater, Journalled
<1>3. BuiltFromGoal' /\ FullRefresh'
  BY <1>1 DEF SyncInv, BuiltFromGoal, Goal, FullRefresh, Unexchanged, Exchanged
<1>4. NothingNew' /\ SyncedTogether' /\ PriorSetKept'
  BY <1>1 DEF SyncInv, NothingNew, SyncedTogether, PriorSetKept
<1> QED
  BY <1>2, <1>3, <1>4 DEF SyncInv

\* Whatever ends the script early.
LEMMA FailureKeeps ==
  ASSUME SyncInv,
         \/ SubmitRefused \/ AcquisitionFails \/ FingerprintFails \/ InstallRefused
         \/ OutcomeUnknown \/ PromotionRefused \/ SnapshotCollision \/ Kill
  PROVE  SyncInv'
BY ExitKeeps
   DEF SubmitRefused, AcquisitionFails, FingerprintFails, InstallRefused, OutcomeUnknown,
       PromotionRefused, SnapshotCollision, Kill

LEMMA SyncInvKept ==
  ASSUME SyncConstants, NoneApart, SyncInv, [Next]_vars
  PROVE  SyncInv'
<1>1. ASSUME NEW mode \in Modes, NEW force \in BOOLEAN, Begin(mode, force)
      PROVE  SyncInv'
  BY <1>1, BeginKeeps
<1>2. ASSUME NEW mode \in Modes, NEW force \in BOOLEAN, Resume(mode, force)
      PROVE  SyncInv'
  BY <1>2, ResumeKeeps
<1>3. ASSUME NEW s \in Sources, CommitSource(s)
      PROVE  SyncInv'
  BY <1>3, CommitSourceKeeps
<1>4. CASE Prepare \/ Submit \/ KeepGeneration \/ RecordSources
  BY <1>4, PrepareKeeps, SubmitKeeps, KeepGenerationKeeps, RecordSourcesKeeps
<1>5. CASE StartBuild \/ PublishManifest \/ RemoveCheckpoint \/ RecordBuild
  BY <1>5, StartBuildKeeps, BuildGoesOn, RecordBuildKeeps
<1>6. CASE Install \/ Point \/ RecoverOutcome \/ RecordActivated \/ OperatorRecovers
  BY <1>6, InstallKeeps, PointKeeps, RecoverOutcomeKeeps, RecordActivatedKeeps,
     OperatorRecoversKeeps
<1>7. CASE SkipPromotion \/ Exchange \/ AlreadyPromoted \/ RetainPrior \/ Finish
  BY <1>7, PromotionSkippedOrDone, ExchangeKeeps, RetainPriorKeeps, FinishKeeps
<1>8. CASE \/ SubmitRefused \/ AcquisitionFails \/ FingerprintFails \/ InstallRefused
           \/ OutcomeUnknown \/ PromotionRefused \/ SnapshotCollision \/ Kill
  BY <1>8, FailureKeeps
<1>9. CASE UNCHANGED vars
  BY <1>9, SyncStutter
<1> QED
  BY <1>1, <1>2, <1>3, <1>4, <1>5, <1>6, <1>7, <1>8, <1>9 DEF Next, Work

\* Whatever is killed, fails or is recovered, at whatever step: the journal, the source sets, the
\* build and the pointer are always as the phase says (maintainer-sync.sh, all of it).
THEOREM JournalAlwaysTrue ==
  ASSUME SyncConstants, NoneApart
  PROVE  Spec => []SyncInv
<1>1. Init => SyncInv
  BY SyncInvHolds
<1>2. SyncInv /\ [Next]_vars => SyncInv'
  BY SyncInvKept
<1> QED
  BY <1>1, <1>2, PTL DEF Spec

\* No committed change of a source is ever forgotten: outside a pending run, the active generation
\* was built from exactly the source set in place (maintainer-sync.sh 213-217).
THEOREM AlwaysSyncedTogether ==
  ASSUME SyncConstants, NoneApart
  PROVE  Spec => []SyncedTogether
<1>1. SyncInv => SyncedTogether
  BY DEF SyncInv
<1> QED
  BY <1>1, JournalAlwaysTrue, PTL

\* During a full refresh the source set in place is always a whole one, that of before or that
\* of the active generation (maintainer-sync.sh 185-190 and 264-272).
THEOREM FullRefreshAlwaysAtomic ==
  ASSUME SyncConstants, NoneApart
  PROVE  Spec => []FullRefreshIsAtomic
<1>1. SyncInv => FullRefreshIsAtomic
  BY DEF SyncInv, FullRefreshIsAtomic, FullRefresh, Unexchanged, Exchanged, BuiltFromGoal, Goal
<1> QED
  BY <1>1, JournalAlwaysTrue, PTL

\* The set that a full refresh replaces is never lost (maintainer-sync.sh 273-278).
THEOREM PriorSetAlwaysKept ==
  ASSUME SyncConstants, NoneApart
  PROVE  Spec => []PriorSetKept
<1>1. SyncInv => PriorSetKept
  BY DEF SyncInv
<1> QED
  BY <1>1, JournalAlwaysTrue, PTL
===============================================================================
