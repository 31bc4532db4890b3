---------------------------- MODULE FrlAcquisition ----------------------------
(***************************************************************************)
(* The Federal Register of Legislation adapter (src/frl.rs): a workspace    *)
(* that is brought up to date from a register that goes on changing.  A run *)
(* lists the titles in force and the versions registered since its cursor,  *)
(* page by page, settles one version per title, saves that plan, acquires   *)
(* the planned versions in parallel, and commits inventory and cursor in    *)
(* one write.  A run that was killed is resumed from its saved plan; other  *)
(* runs may have committed in between.                                      *)
(*                                                                          *)
(* A title is a number (titles are listed in the order of their ids), a     *)
(* version of it is its number in the order of registration, a time is a    *)
(* day.  The lock of the workspace is modelled in SourceWorkspace: here one *)
(* run is under way at a time.                                              *)
(***************************************************************************)
EXTENDS Naturals, Sequences, FiniteSets, FiniteSetsExt

CONSTANTS
  Titles,      \* title ids
  PageSize,    \* PAGE_SIZE
  Overlap,     \* OVERLAP_DAYS
  Lag,         \* days until the register shows what it has registered
  MaxDays,     \* bound: days that pass after Today
  MaxVersions, \* bound: versions of all titles
  MaxRepeals,  \* bound: titles that cease to be in force
  MaxScans,    \* bound: run directories
  MaxStops,    \* bound: kills and failed requests
  Workspaces,  \* how the workspace starts
  Absent

FrlConstants ==
  /\ Titles \subseteq Nat \ {0} /\ IsFiniteSet(Titles) /\ Titles # {}
  /\ PageSize \in Nat \ {0}
  /\ {Overlap, Lag, MaxDays, MaxVersions, MaxRepeals, MaxScans, MaxStops} \subseteq Nat
  /\ Lag <= Overlap
  /\ Workspaces \subseteq {"new", "superseded", "established", "awaiting"}

Scans == 1 .. MaxScans
Schema == 2  \* STATE_SCHEMA_VERSION; a state of schema 1 has superseded texts

VARIABLES
  day,        \* the day in the register
  registered, \* the days on which the versions of each title were registered
  current,    \* the version of each title that has commenced last
  inForce,    \* titles that are in force
  repeals,
  frlState,   \* state.json
  staged,     \* staging/: an entry per acquired title
  texts,      \* documents/ and assets/: the titles' texts
  plans,      \* frl-discovery.json of each run directory
  reported,   \* runs whose update was reported
  scan,       \* the run under way, its position and what it has scanned
  fetches,    \* the acquisition of each planned title
  stale,      \* runs whose plan is older than the last commit (history)
  late,       \* titles whose current version commenced after its registration (history)
  regressed,  \* a stale plan was committed (history)
  stops

register == <<day, registered, current, inForce, repeals, late>>
frlDisk == <<frlState, staged, texts, plans>>
frlVars == <<register, frlDisk, reported, scan, fetches, stale, regressed, stops>>

\* An entry names a version and the normalizer that made its text.
Entry == [version : Nat, text : 1 .. Schema]
TitlesIn(inventory) == {t \in Titles : inventory[t] # Absent}
NoTexts == [t \in Titles |-> Absent]

\* FrlCursor: the place of a version in the order of registration.
Origin == [at |-> 0, title |-> 0, number |-> 0]
Cursor(v) == [at |-> v.at, title |-> v.title, number |-> v.number]

NoScan == [pc |-> "idle", run |-> 0]
NoFetches == [t \in Titles |-> [pc |-> "idle", entry |-> Absent]]

\* A workspace that is new, that has a text of the superseded normalizer and is behind, or
\* that was brought up to date today, all titles in force or the first yet to commence.
First == Min(Titles)
Last == Max(Titles)
Today == Overlap + 2
Listed(workspace) == IF workspace = "new" THEN {First} ELSE {First, Last}
Commenced(workspace) == Listed(workspace) \ IF workspace = "awaiting" THEN {First} ELSE {}
Texts(titles, text) ==
  [t \in Titles |-> IF t \in titles THEN [version |-> 1, text |-> text] ELSE Absent]
FirstState(workspace) ==
  CASE workspace = "new" ->
         [schema |-> Schema, cursor |-> Origin, inventory |-> NoTexts]
    [] workspace = "superseded" ->
         [schema |-> 1, cursor |-> [at |-> 1, title |-> First, number |-> 1],
          inventory |-> Texts({First}, 1)]
    [] OTHER ->
         [schema |-> Schema, cursor |-> [at |-> Today, title |-> Last, number |-> 1],
          inventory |-> Texts(Commenced(workspace), Schema)]

FrlInit ==
  /\ day = Today
  /\ \E workspace \in Workspaces :
       /\ registered = [t \in Titles |-> IF t = First THEN <<1>>
                        ELSE IF t \in Listed(workspace) THEN <<day>> ELSE <<>>]
       /\ current = [t \in Titles |-> IF t \in Commenced(workspace) THEN 1 ELSE 0]
       /\ inForce = Commenced(workspace)
       /\ frlState = FirstState(workspace)
  /\ repeals = 0 /\ late = {}
  /\ staged = NoTexts
  /\ texts = {<<t, frlState.inventory[t]>> : t \in TitlesIn(frlState.inventory)}
  /\ plans = [r \in Scans |-> Absent] /\ reported = {}
  /\ scan = NoScan /\ fetches = NoFetches
  /\ stale = {} /\ regressed = FALSE /\ stops = 0
-----------------------------------------------------------------------------
(* The register *)

ScanAt(pc) == scan.pc = pc
EndScan == scan' = NoScan /\ fetches' = NoFetches

Published == {t \in Titles : registered[t] # <<>>}

\* The rows of the Versions entity set for a title.
Versions(t) ==
  {[title |-> t, number |-> n, at |-> registered[t][n],
    isCurrent |-> n = current[t], isLatest |-> n = Len(registered[t])] :
     n \in 1 .. Len(registered[t])}

\* What happens in the register while a run fetches its plan may as well happen
\* before or after: the two read nothing of each other.
Watched == scan.pc \in {"idle", "bound", "titles", "versions", "resolve"}

\* The versions are scanned within a day.
NextDay ==
  /\ Watched /\ ~ScanAt("versions")
  /\ day < Today + MaxDays /\ day' = day + 1
  /\ UNCHANGED <<registered, current, inForce, repeals, late, frlDisk, reported, scan, fetches,
                 stale, regressed, stops>>

\* A version is registered, on a day up to Lag days ago, in force at once or not yet.
Register(t) ==
  /\ Watched
  /\ Cardinality(UNION {Versions(u) : u \in Titles}) < MaxVersions
  /\ \E at \in {d \in 1 .. day : d + Lag >= day}, commenced \in BOOLEAN :
       /\ registered' = [registered EXCEPT ![t] = Append(@, at)]
       /\ IF commenced
          THEN /\ current' = [current EXCEPT ![t] = Len(registered[t]) + 1]
               /\ inForce' = inForce \cup {t}
               /\ late' = late \ {t}
          ELSE UNCHANGED <<current, inForce, late>>
  /\ UNCHANGED <<day, repeals, frlDisk, reported, scan, fetches, stale, regressed,
                 stops>>

Commence(t) ==
  /\ Watched
  /\ current[t] < Len(registered[t])
  /\ current' = [current EXCEPT ![t] = Len(registered[t])]
  /\ inForce' = inForce \cup {t}
  /\ late' = late \cup {t}
  /\ UNCHANGED <<day, registered, repeals, frlDisk, reported, scan, fetches, stale, regressed, stops>>

Repeal(t) ==
  /\ Watched
  /\ t \in inForce /\ repeals < MaxRepeals
  /\ repeals' = repeals + 1
  /\ inForce' = inForce \ {t}
  /\ UNCHANGED <<day, registered, current, late, frlDisk, reported, scan, fetches, stale, regressed,
                 stops>>
-----------------------------------------------------------------------------
(* discover_to_run_dir *)

\* compare_cursors
After(a, b) ==
  \/ a.at > b.at
  \/ a.at = b.at /\ a.title > b.title
  \/ a.at = b.at /\ a.title = b.title /\ a.number > b.number

\* select_versions_by_title: current before latest before the rest, then the cursor.
Preferred(a, b) ==
  \/ a.isCurrent /\ ~b.isCurrent
  \/ a.isCurrent = b.isCurrent /\ a.isLatest /\ ~b.isLatest
  \/ a.isCurrent = b.isCurrent /\ a.isLatest = b.isLatest /\ After(Cursor(a), Cursor(b))
Selected(rows) == CHOOSE a \in rows : \A b \in rows \ {a} : Preferred(a, b)

\* authoritative_version: one request for the versions of a title.
Authoritative(t) == Selected(Versions(t)).number

IsCurrentState == frlState.schema = Schema
KnownCursor == IF IsCurrentState THEN frlState.cursor ELSE Origin
FullHistory == KnownCursor = Origin
AtCursor == KnownCursor.at
LowerBound == IF KnownCursor.at > Overlap THEN KnownCursor.at - Overlap ELSE 0

\* A run directory without a plan is like one that was not used.
BeginScan(r) ==
  /\ ScanAt("idle") /\ r \notin reported
  /\ \A earlier \in 1 .. (r - 1) : plans[earlier] # Absent
  /\ scan' = [pc |-> IF plans[r] = Absent THEN "bound" ELSE "load", run |-> r]
  /\ UNCHANGED <<register, frlDisk, reported, fetches, stale, regressed, stops>>

\* title_upper_bound fixes the end of the scan of titles.
ReadUpperBound ==
  /\ ScanAt("bound")
  /\ scan' = [pc |-> "titles", run |-> scan.run, bound |-> Max(Published), after |-> 0,
             titles |-> {}]
  /\ UNCHANGED <<register, frlDisk, reported, fetches, stale, regressed, stops>>

\* A page: the first PageSize of the rows that follow, in their order.
Page(rows, Before(_, _)) ==
  {x \in rows : Cardinality({y \in rows : Before(y, x)}) < PageSize}
Ascending(a, b) == a < b
Registration(a, b) == After(Cursor(b), Cursor(a))

\* scan_titles
TitlesPage ==
  /\ ScanAt("titles")
  /\ LET page == Page({t \in Published : scan.after < t /\ t <= scan.bound}, Ascending)
         last == IF page = {} THEN scan.after ELSE Max(page)
         titles == scan.titles \cup (page \cap inForce)
         full == Cardinality(page) = PageSize
     IN \/ /\ full
           /\ scan' = [scan EXCEPT !.after = last, !.titles = titles]
           /\ UNCHANGED fetches
        \/ /\ ~full /\ last = scan.bound /\ titles # {}
           /\ scan' = [pc |-> "versions", run |-> scan.run, titles |-> titles,
                      after |-> Origin, seen |-> {}, maximum |-> KnownCursor]
           /\ UNCHANGED fetches
        \/ ~full /\ (last # scan.bound \/ titles = {}) /\ EndScan
  /\ UNCHANGED <<register, frlDisk, reported, stale, regressed, stops>>

\* scan_versions
Unread ==
  {v \in UNION {Versions(t) : t \in Titles} : v.at >= LowerBound /\ After(Cursor(v), scan.after)}
Farthest(cursors) == CHOOSE c \in cursors : \A d \in cursors \ {c} : After(c, d)

VersionsPage ==
  /\ ScanAt("versions")
  /\ LET page == Page(Unread, Registration)
         last == Farthest({Cursor(v) : v \in page} \cup {scan.after})
         scanned == [scan EXCEPT !.after = last, !.seen = @ \cup page,
                                !.maximum = IF After(last, @) THEN last ELSE @]
     IN scan' = IF Cardinality(page) = PageSize THEN scanned
               ELSE [pc |-> "resolve", run |-> scan.run, titles |-> scan.titles,
                     seen |-> {v \in scanned.seen : v.title \in scan.titles},
                     maximum |-> scanned.maximum, versions |-> [t \in Titles |-> Absent]]
  /\ UNCHANGED <<register, frlDisk, reported, fetches, stale, regressed, stops>>

\* resolve_authoritative_versions, and the titles that are in neither the scan nor the
\* inventory: settled from the scan, left as they are, or looked up.
Scanned(t) == {v \in scan.seen : v.title = t}
FromScan(t) == Scanned(t) # {} /\ (FullHistory \/ Selected(Scanned(t)).isCurrent)
NotScanned(t) == Scanned(t) = {}
Kept(t) == Scanned(t) = {} /\ IsCurrentState /\ frlState.inventory[t] # Absent
LookedUp(t) == ~FromScan(t) /\ ~Kept(t)

LookUp ==
  /\ ScanAt("resolve")
  /\ LET open == {t \in scan.titles : LookedUp(t) /\ scan.versions[t] = Absent}
     IN open # {} /\ scan' = [scan EXCEPT !.versions[Min(open)] = Authoritative(Min(open))]
  /\ UNCHANGED <<register, frlDisk, reported, fetches, stale, regressed, stops>>

SavePlan ==
  /\ ScanAt("resolve")
  /\ \A t \in scan.titles : LookedUp(t) => scan.versions[t] # Absent
  /\ plans' = [plans EXCEPT ![scan.run] =
       [titles |-> scan.titles, cursor |-> scan.maximum,
        versions |-> [t \in Titles |->
          IF t \in scan.titles /\ FromScan(t) THEN Selected(Scanned(t)).number
          ELSE scan.versions[t]]]]
  /\ scan' = [pc |-> "load", run |-> scan.run]
  /\ UNCHANGED <<register, frlState, staged, texts, reported, fetches, stale, regressed, stops>>
-----------------------------------------------------------------------------
(* fetch_plan *)

SavedPlan == plans[scan.run]

LoadPlan ==
  /\ ScanAt("load")
  /\ fetches' = [t \in Titles |->
       [pc |-> IF SavedPlan.versions[t] = Absent THEN "idle" ELSE "todo", entry |-> Absent]]
  /\ scan' = [scan EXCEPT !.pc = "fetch"]
  /\ UNCHANGED <<register, frlDisk, reported, stale, regressed, stops>>

\* acquire_planned_version: a staged entry of that version, else a committed one,
\* made by this normalizer and loadable.
Wanted(t, entry) == entry # Absent /\ entry.version = SavedPlan.versions[t]
Found(t) ==
  IF Wanted(t, staged[t]) THEN staged[t]
  ELSE IF Wanted(t, frlState.inventory[t]) THEN frlState.inventory[t] ELSE Absent
ReusableText(t) == IF IsCurrentState THEN Found(t) ELSE Absent
HasText(t, entry) == <<t, entry>> \in texts

Reuse(t) ==
  /\ ScanAt("fetch") /\ fetches[t].pc = "todo"
  /\ ReusableText(t) # Absent /\ HasText(t, ReusableText(t))
  /\ fetches' = [fetches EXCEPT ![t] = [pc |-> "done", entry |-> ReusableText(t)]]
  /\ UNCHANGED <<register, frlDisk, reported, scan, stale, regressed, stops>>

\* The preferred rendition that can be normalized is stored: the texts before what
\* names them.
StoreText(t) ==
  /\ ScanAt("fetch") /\ fetches[t].pc = "todo"
  /\ ReusableText(t) = Absent \/ ~HasText(t, ReusableText(t))
  /\ LET entry == [version |-> SavedPlan.versions[t], text |-> Schema]
     IN /\ texts' = texts \cup {<<t, entry>>}
        /\ fetches' = [fetches EXCEPT ![t] = [pc |-> "stored", entry |-> entry]]
  /\ UNCHANGED <<register, frlState, staged, plans, reported, scan, stale, regressed, stops>>

StageTitle(t) ==
  /\ ScanAt("fetch") /\ fetches[t].pc = "stored"
  /\ staged' = [staged EXCEPT ![t] = fetches[t].entry]
  /\ fetches' = [fetches EXCEPT ![t].pc = "done"]
  /\ UNCHANGED <<register, frlState, texts, plans, reported, scan, stale, regressed, stops>>

AllFetched == ScanAt("fetch") /\ \A t \in Titles : fetches[t].pc \in {"idle", "done"}

Reconciled ==
  [t \in Titles |->
     IF t \notin SavedPlan.titles THEN Absent
     ELSE IF fetches[t].pc = "done" THEN fetches[t].entry ELSE frlState.inventory[t]]

\* Every title of the plan has an entry; the cursor never moves back.
CommitScan ==
  /\ AllFetched
  /\ TitlesIn(Reconciled) = SavedPlan.titles
  /\ frlState' = [schema |-> Schema, inventory |-> Reconciled,
               cursor |-> IF After(SavedPlan.cursor, frlState.cursor) THEN SavedPlan.cursor
                          ELSE frlState.cursor]
  /\ scan' = [scan EXCEPT !.pc = "clear"]
  /\ stale' = {r \in Scans : plans[r] # Absent}
  /\ regressed' = (regressed \/ scan.run \in stale)
  /\ UNCHANGED <<register, staged, texts, plans, reported, fetches, stops>>

\* The plan counts on an entry that has been dropped since.
Unreconciled ==
  /\ AllFetched
  /\ TitlesIn(Reconciled) # SavedPlan.titles
  /\ EndScan
  /\ UNCHANGED <<register, frlDisk, reported, stale, regressed, stops>>

\* clear_staging
ClearTitle ==
  /\ ScanAt("clear") /\ TitlesIn(staged) # {}
  /\ staged' = [staged EXCEPT ![Min(TitlesIn(staged))] = Absent]
  /\ UNCHANGED <<register, frlState, texts, plans, reported, scan, fetches, stale, regressed, stops>>

ReportScan ==
  /\ ScanAt("clear") /\ TitlesIn(staged) = {}
  /\ reported' = reported \cup {scan.run}
  /\ EndScan
  /\ UNCHANGED <<register, frlDisk, stale, regressed, stops>>

\* A request fails for good, or the process is killed.  What other threads had in
\* flight they did before.
Stop ==
  /\ ~ScanAt("idle") /\ stops < MaxStops
  /\ stops' = stops + 1
  /\ EndScan
  /\ UNCHANGED <<register, frlDisk, reported, stale, regressed>>
-----------------------------------------------------------------------------
FrlAdvance ==
  \/ ReadUpperBound \/ TitlesPage \/ VersionsPage \/ LookUp \/ SavePlan \/ LoadPlan
  \/ \E t \in Titles : Reuse(t) \/ StoreText(t) \/ StageTitle(t)
  \/ CommitScan \/ Unreconciled \/ ClearTitle \/ ReportScan

FrlNext ==
  \/ NextDay \/ \E t \in Titles : Register(t) \/ Commence(t) \/ Repeal(t)
  \/ \E r \in Scans : BeginScan(r)
  \/ FrlAdvance \/ Stop

FrlSpec == FrlInit /\ [][FrlNext]_frlVars
-----------------------------------------------------------------------------
(* Properties *)

\* The inventory is behind the register by no more than the next run makes up: whatever
\* was registered while a scan paged through, the committed version of each title is the
\* current one or the next scan will read that one.  Three things break it, and nothing
\* else: the commit of a plan older than the last commit, a version that commences
\* after the scan that met it, and its superseded texts (frl.rs scan_versions,
\* resolve_authoritative_versions, fetch_plan).
NothingMissed ==
  IsCurrentState /\ ~regressed =>
    \A t \in TitlesIn(frlState.inventory) \ late :
      \/ frlState.inventory[t].version = current[t]
      \/ registered[t][current[t]] >= LowerBound

\* Whatever was killed or resumed, no entry of a committed or staged inventory names a
\* text that is missing, and a state of the present schema has no text of the superseded
\* normalizer (frl.rs persist_document, commit_staging_entry, STATE_SCHEMA_VERSION).
TextsAsNamed ==
  /\ \A t \in TitlesIn(frlState.inventory) : HasText(t, frlState.inventory[t])
  /\ \A t \in TitlesIn(staged) : HasText(t, staged[t])
  /\ IsCurrentState => \A t \in TitlesIn(frlState.inventory) : frlState.inventory[t].text = Schema

\* A plan that no other run has overtaken can be carried out: each title it does not
\* acquire is still in the inventory, however often it is resumed (frl.rs fetch_plan
\* "FRL reconciliation did not resolve every authoritative title").
PlansReconcile ==
  AllFetched /\ scan.run \notin stale => TitlesIn(Reconciled) = SavedPlan.titles

=============================================================================
