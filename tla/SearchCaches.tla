----------------------------- MODULE SearchCaches -----------------------------
(***************************************************************************)
(* What the searches of one process share: the lexical indexes that were   *)
(* verified (src/lexical.rs), the sources whose vectors are ready, and the *)
(* rows that a filter lets through (src/search.rs).  Searches run in       *)
(* several threads under a lease on one generation; a check or a load may  *)
(* fail for a passing reason, and somebody may put another file in the     *)
(* place of an index.                                                      *)
(***************************************************************************)
EXTENDS Naturals, Sequences, SequencesExt, FiniteSets

CONSTANTS
  Threads, Sources, Filters,
  CacheCapacity,         \* ELIGIBILITY_CACHE_CAPACITY
  MaxSearches,      \* bound: the searches of the process
  MaxReplacements,  \* bound: how often an index is replaced
  MaxPassing        \* bound: the failures for a passing reason

ASSUME CacheConstants ==
  /\ Sources # {} /\ Filters # {}
  /\ CacheCapacity \in Nat \ {0}
  /\ {MaxSearches, MaxReplacements, MaxPassing} \subseteq Nat

VARIABLES
  files,     \* the index of each source: its stamp, and whether it is the manifest's
  seals,     \* the stamps of the indexes that were verified, 0 if none was
  ready,     \* whether the vectors of a source are: "unknown", "ready" or "failed"
  checking,  \* the threads that hold the lock of that cache: one or none
  entries,   \* the cached filters, the one that was used last behind the others
  cells,     \* what became of a filter: "empty", "rows" or "failed", and who fills it
  searches,  \* the search of each thread
  begun,     \* how many searches began
  passing    \* how many checks and loads failed for a passing reason

cacheVars == <<files, seals, ready, checking, entries, cells, searches, begun, passing>>
--------------------------------------------------------------------------------
NoSearch ==
  [at |-> "idle", source |-> CHOOSE s \in Sources : TRUE, filter |-> CHOOSE f \in Filters : TRUE,
   first |-> 0, seal |-> 0, opened |-> [stamp |-> 0, sound |-> TRUE], full |-> FALSE, cell |-> 0]

CacheInit ==
  /\ files = [s \in Sources |-> [stamp |-> 1, sound |-> TRUE]]
  /\ seals \in [Sources -> {0, 1}]  \* the startup of a server verifies the indexes
  /\ ready = [s \in Sources |-> "unknown"] /\ checking = {}
  /\ entries = <<>> /\ cells = <<>>
  /\ searches = [t \in Threads |-> NoSearch] /\ begun = 0 /\ passing = 0

At(t, place) == searches[t].at = place
Goes(t, search) == searches' = [searches EXCEPT ![t] = search]
GoesTo(t, place) == Goes(t, [searches[t] EXCEPT !.at = place])
SourceOf(t) == searches[t].source
FileOf(t) == files[SourceOf(t)]

\* A check or a load that fails though nothing is wrong for good.
Passing == passing < MaxPassing /\ passing' = passing + 1

\* Another file in the place of an index, with the same content or not.
Replace(s) ==
  /\ files[s].stamp <= MaxReplacements
  /\ \E sound \in BOOLEAN : files' = [files EXCEPT ![s] = [stamp |-> @.stamp + 1, sound |-> sound]]
  /\ UNCHANGED <<seals, ready, checking, entries, cells, searches, begun, passing>>

Begin(t) ==
  /\ At(t, "idle") /\ begun < MaxSearches
  /\ begun' = begun + 1
  /\ \E s \in Sources, f \in Filters :
       Goes(t, [NoSearch EXCEPT !.at = "lexical", !.source = s, !.filter = f, !.first = files[s].stamp])
  /\ UNCHANGED <<files, seals, ready, checking, entries, cells, passing>>
--------------------------------------------------------------------------------
(* open_runtime_sidecar.                                                    *)

\* The file is held open, and compared with the one that was verified.
Capture(t) ==
  /\ At(t, "lexical")
  /\ LET known == seals[SourceOf(t)]
         held == [searches[t] EXCEPT !.seal = FileOf(t).stamp, !.full = known = 0]
     IN IF known \in {0, FileOf(t).stamp}
          THEN Goes(t, [held EXCEPT !.at = IF known = 0 THEN "hash" ELSE "open"])
          ELSE Goes(t, [held EXCEPT !.at = "failed"])
  /\ UNCHANGED <<files, seals, ready, checking, entries, cells, begun, passing>>

\* One that was not is hashed, and is still the one that is held.
Hash(t) ==
  /\ At(t, "hash")
  /\ GoesTo(t, IF FileOf(t).sound /\ FileOf(t).stamp = searches[t].seal THEN "open" ELSE "failed")
  /\ UNCHANGED <<files, seals, ready, checking, entries, cells, begun, passing>>

\* The index is opened by its path.  Another content may have the same metadata.
Open(t) ==
  /\ At(t, "open")
  /\ \/ Goes(t, [searches[t] EXCEPT !.opened = FileOf(t),
                                    !.at = IF searches[t].full THEN "verify" ELSE "ready"])
     \/ ~FileOf(t).sound /\ GoesTo(t, "failed")
  /\ UNCHANGED <<files, seals, ready, checking, entries, cells, begun, passing>>

\* Mutant: what was verified is not compared with what is in the place of the index now.
SealUnchecked(t) ==
  /\ At(t, "verify")
  /\ GoesTo(t, "insert")
  /\ UNCHANGED <<files, seals, ready, checking, entries, cells, begun, passing>>

\* After a full verification the file is the one that is held, and is remembered.
Seal(t) ==
  /\ At(t, "verify")
  /\ GoesTo(t, IF FileOf(t).stamp = searches[t].seal THEN "insert" ELSE "failed")
  /\ UNCHANGED <<files, seals, ready, checking, entries, cells, begun, passing>>

Insert(t) ==
  /\ At(t, "insert")
  /\ seals' = [seals EXCEPT ![SourceOf(t)] = searches[t].seal]
  /\ GoesTo(t, "ready")
  /\ UNCHANGED <<files, ready, checking, entries, cells, begun, passing>>
--------------------------------------------------------------------------------
(* ensure_vector_search_ready.                                              *)

\* The cache is locked for the whole check.
LockReady(t) ==
  /\ At(t, "ready") /\ checking = {}
  /\ CASE ready[SourceOf(t)] = "ready" -> GoesTo(t, "eligible") /\ UNCHANGED checking
       [] ready[SourceOf(t)] = "failed" -> GoesTo(t, "failed") /\ UNCHANGED checking
       [] OTHER -> GoesTo(t, "check") /\ checking' = {t}
  /\ UNCHANGED <<files, seals, ready, entries, cells, begun, passing>>

\* The vectors are what the manifest says; what the check says is remembered either way.
CheckReady(t) ==
  /\ At(t, "check")
  /\ \/ /\ ready' = [ready EXCEPT ![SourceOf(t)] = "ready"] /\ GoesTo(t, "eligible")
        /\ UNCHANGED passing
     \/ /\ Passing
        /\ ready' = [ready EXCEPT ![SourceOf(t)] = "failed"] /\ GoesTo(t, "failed")
  /\ checking' = {}
  /\ UNCHANGED <<files, seals, entries, cells, begun>>
--------------------------------------------------------------------------------
(* eligible_ann_items.                                                      *)

KeyOf(t) == <<SourceOf(t), searches[t].filter>>
Entry(key) == {i \in DOMAIN entries : entries[i].key = key}

\* EligibilityCache::cell: the cell of a filter, or a new one in the place of the filter that
\* was not used for longest.
Cell(t) ==
  /\ At(t, "eligible")
  /\ \/ \E i \in Entry(KeyOf(t)) :
          /\ entries' = Append(RemoveAt(entries, i), entries[i])
          /\ Goes(t, [searches[t] EXCEPT !.at = "cell", !.cell = entries[i].cell])
          /\ UNCHANGED cells
     \/ /\ Entry(KeyOf(t)) = {}
        /\ entries' = Append(IF Len(entries) >= CacheCapacity THEN Tail(entries) ELSE entries,
                             [key |-> KeyOf(t), cell |-> Len(cells) + 1])
        /\ cells' = Append(cells, [key |-> KeyOf(t), state |-> "empty", fillers |-> {}])
        /\ Goes(t, [searches[t] EXCEPT !.at = "cell", !.cell = Len(cells) + 1])
  /\ UNCHANGED <<files, seals, ready, checking, begun, passing>>

\* OnceLock::get_or_init: the first thread fills the cell, the others wait for it.
Enter(t) ==
  LET cell == searches[t].cell
  IN /\ At(t, "cell") /\ cells[cell].fillers = {}
     /\ CASE cells[cell].state = "rows" -> GoesTo(t, "answered") /\ UNCHANGED cells
          [] cells[cell].state = "failed" -> GoesTo(t, "failed") /\ UNCHANGED cells
          [] OTHER -> GoesTo(t, "fill") /\ cells' = [cells EXCEPT ![cell].fillers = {t}]
     /\ UNCHANGED <<files, seals, ready, checking, entries, begun, passing>>

\* load_eligible_ann_items; the error stays in the cell too.
Fill(t) ==
  LET cell == searches[t].cell
  IN /\ At(t, "fill")
     /\ \/ /\ cells' = [cells EXCEPT ![cell].state = "rows", ![cell].fillers = {}]
           /\ GoesTo(t, "answered") /\ UNCHANGED passing
        \/ /\ Passing
           /\ cells' = [cells EXCEPT ![cell].state = "failed", ![cell].fillers = {}]
           /\ GoesTo(t, "failed")
     /\ UNCHANGED <<files, seals, ready, checking, entries, begun>>

End(t) ==
  /\ searches[t].at \in {"answered", "failed"} /\ Goes(t, NoSearch)
  /\ UNCHANGED <<files, seals, ready, checking, entries, cells, begun, passing>>

CacheNext ==
  \/ \E s \in Sources : Replace(s)
  \/ \E t \in Threads :
       \/ Begin(t) \/ Capture(t) \/ Hash(t) \/ Open(t) \/ Seal(t) \/ Insert(t)
       \/ LockReady(t) \/ CheckReady(t) \/ Cell(t) \/ Enter(t) \/ Fill(t) \/ End(t)

CacheSpec == CacheInit /\ [][CacheNext]_cacheVars
--------------------------------------------------------------------------------
\* An index that is not the manifest's is read only by a search that was under way when it was
\* put in its place, and that found the one before it verified: the ones that begin later fail.
ReplacementSeen ==
  \A t \in Threads : At(t, "answered") /\ ~searches[t].opened.sound =>
    searches[t].first # searches[t].opened.stamp /\ ~searches[t].full

\* A search fails only when an index was replaced or when a check or a load failed; the two
\* spoil only the source or the filter they are about, as long as they are remembered.
FailureHasCause ==
  \A t \in Threads : At(t, "failed") =>
    \/ files[SourceOf(t)].stamp > 1
    \/ ready[SourceOf(t)] = "failed"
    \/ searches[t].cell # 0 /\ cells[searches[t].cell].state = "failed"

\* The rows of a filter are loaded once for as long as the cache has room for all filters; a
\* thread gets the rows of its own filter; and the cache keeps its size.
LoadedOnce ==
  /\ Cardinality({cells[i].key : i \in DOMAIN cells}) <= CacheCapacity =>
       \A i, j \in DOMAIN cells : cells[i].key = cells[j].key => i = j
  /\ \A t \in Threads : searches[t].cell # 0 => cells[searches[t].cell].key = KeyOf(t)
  /\ Len(entries) <= CacheCapacity

\* Some search can always go on: nobody waits for a lock or a cell that is never left.
NobodyStuck ==
  (\E t \in Threads : ~At(t, "idle")) =>
    \E t \in Threads : \/ searches[t].at \notin {"idle", "ready", "cell"}
                       \/ At(t, "ready") /\ checking = {}
                       \/ At(t, "cell") /\ cells[searches[t].cell].fillers = {}

CachesSound == ReplacementSeen /\ FailureHasCause /\ LoadedOnce /\ NobodyStuck
================================================================================
