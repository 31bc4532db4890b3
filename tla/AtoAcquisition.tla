---------------------------- MODULE AtoAcquisition ----------------------------
(***************************************************************************)
(* The acquisition of the ATO source (src/source.rs, source_update.rs): an  *)
(* incremental run reads What's New and requests what the index does not    *)
(* have, a full run crawls the browse tree into an empty workspace; worker  *)
(* threads share the list of links, and append each outcome to index.jsonl  *)
(* as it comes.  When all have ended the index is rewritten in one piece.   *)
(* Payloads are content addressed and written atomically.                   *)
(*                                                                          *)
(* A document has a version upstream; index.jsonl is a record per document  *)
(* and the state of its last line.  The lock is that of SourceWorkspace:    *)
(* one run is under way at a time.                                          *)
(***************************************************************************)
EXTENDS Naturals, FiniteSets

CONSTANTS
  Ids,          \* canonical ids
  Folders,      \* the folders of the browse tree: the documents that each links
  Workers,      \* the threads of a download
  AtoModes,     \* the modes that are asked for
  MaxPayloads,  \* bound: versions of a document
  MaxAtoRuns,   \* bound: run directories
  MaxAtoFaults, \* bound: failed requests and kills
  Nowhere

AtoConstants ==
  /\ IsFiniteSet(Ids) /\ Ids # {} /\ IsFiniteSet(Workers) /\ Workers # {}
  /\ Folders \subseteq SUBSET Ids
  /\ AtoModes \subseteq {"incremental", "full"}
  /\ {MaxPayloads, MaxAtoRuns, MaxAtoFaults} \subseteq Nat

AtoRuns == 1 .. MaxAtoRuns

VARIABLES
  published, \* the version of each document upstream
  feed,      \* the documents that What's New lists
  index,     \* index.jsonl: a record per document, or Nowhere while there is no file
  torn,      \* the line of it that does not parse: "none", the "last", cut short, or one "inside"
  payloads,  \* payloads/
  linkLists, \* pending.jsonl or deduped_links.jsonl of each run directory
  updated,   \* the runs reported as updated or current
  update,    \* the run under way
  threads,   \* its threads
  memory,    \* the index as the threads share it
  atoFaults

atoVars ==
  <<published, feed, index, torn, payloads, linkLists, updated, update, threads, memory, atoFaults>>

NoRecord == [status |-> "none", version |-> 0, refresh |-> FALSE]
NoRun == [pc |-> "idle", run |-> 0]
NoWorker == [pc |-> "idle", doc |-> Nowhere, record |-> NoRecord]
NoThreads == [w \in Workers |-> NoWorker]
Blank == [d \in Ids |-> NoRecord]

AtoInit ==
  /\ published \in [Ids -> {0, 1}]
  /\ feed = {}
  /\ \/ index = Nowhere /\ payloads = {}
     \/ /\ index = [d \in Ids |-> IF published[d] = 0 THEN NoRecord
                                   ELSE [status |-> "success", version |-> 1, refresh |-> FALSE]]
        /\ payloads = {<<d, 1>> : d \in {e \in Ids : published[e] = 1}}
  /\ torn = "none"
  /\ linkLists = [r \in AtoRuns |-> Nowhere] /\ updated = {}
  /\ update = NoRun /\ threads = NoThreads /\ memory = Blank
  /\ atoFaults = 0
-----------------------------------------------------------------------------
RunAt(pc) == update.pc = pc
AtoFault == atoFaults < MaxAtoFaults /\ atoFaults' = atoFaults + 1
EndRun == update' = NoRun /\ threads' = NoThreads /\ memory' = Blank

\* A document is published, and listed; a list is short, and what is new pushes out
\* what was.
PublishId(d) ==
  /\ RunAt("idle")
  /\ published[d] < MaxPayloads
  /\ published' = [published EXCEPT ![d] = @ + 1]
  /\ \E listed \in SUBSET feed : feed' = listed \cup {d}
  /\ UNCHANGED <<index, torn, payloads, linkLists, updated, update, threads, memory, atoFaults>>

\* prepare_context: a full refresh starts on an empty workspace.
BeginRun(r, mode) ==
  /\ RunAt("idle") /\ r \notin updated
  /\ \A earlier \in 1 .. (r - 1) : linkLists[earlier] # Nowhere
  /\ mode = "full" => index = Nowhere
  /\ update' = [pc |-> "discover", run |-> r, mode |-> mode]
  /\ UNCHANGED <<published, feed, index, torn, payloads, linkLists, updated, threads, memory,
                 atoFaults>>

\* load_canonical_ids: what need not be requested again.
IsComplete(record) == record.status = "success" /\ ~record.refresh

\* ato_index_path and load_canonical_ids: there is an index, and each line parses.
Readable == index # Nowhere /\ torn = "none"

Save(links) ==
  /\ linkLists' = [linkLists EXCEPT ![update.run] = links]
  /\ update' = [update EXCEPT !.pc = "load"]

\* What's New less what is complete.
New == {d \in feed : ~IsComplete(index[d])}

\* scrape_diff
Diff ==
  /\ RunAt("discover") /\ update.mode = "incremental" /\ Readable
  /\ Save(New)
  /\ UNCHANGED <<published, feed, index, torn, payloads, updated, threads, memory, atoFaults>>

DiffRefused ==
  /\ RunAt("discover") /\ update.mode = "incremental" /\ ~Readable
  /\ EndRun
  /\ UNCHANGED <<published, feed, index, torn, payloads, linkLists, updated, atoFaults>>

\* tree_crawl and snapshot_reduce: a request per folder.
Crawl ==
  /\ RunAt("discover") /\ update.mode = "full"
  /\ Save({d \in Ids : published[d] > 0})
  /\ UNCHANGED <<published, feed, index, torn, payloads, updated, threads, memory, atoFaults>>

\* The request for a folder fails: the crawl goes on without it.
CrawlSkips(f) ==
  /\ RunAt("discover") /\ update.mode = "full" /\ AtoFault
  /\ Save({d \in Ids : published[d] > 0 /\ d \notin f})
  /\ UNCHANGED <<published, feed, index, torn, payloads, updated, threads, memory>>
-----------------------------------------------------------------------------
(* link_download *)

\* No links, no download.  The command link-download has links of the operator's, and may
\* be forced to request what is there.
NothingNew ==
  /\ RunAt("load") /\ linkLists[update.run] = {}
  /\ updated' = updated \cup {update.run}
  /\ EndRun
  /\ UNCHANGED <<published, feed, index, torn, payloads, linkLists, atoFaults>>

Index == IF index = Nowhere THEN Blank ELSE index

StartDownload(links, force) ==
  /\ memory' = Index
  /\ index' = Index
  /\ update' = [pc |-> "fetch", run |-> update.run, queue |-> links, force |-> force,
             errors |-> 0, broken |-> FALSE, glued |-> torn = "last"]
  /\ threads' = [w \in Workers |-> [NoWorker EXCEPT !.pc = "ready"]]

Load ==
  /\ RunAt("load") /\ linkLists[update.run] # {}
  /\ StartDownload(linkLists[update.run], update.mode = "full")
  /\ UNCHANGED <<published, feed, torn, payloads, linkLists, updated, atoFaults>>

\* It goes over a last line that is cut short, and refuses any other that does not parse.
Download(links, force) ==
  /\ RunAt("idle") /\ torn # "inside"
  /\ links # {} /\ \A d \in links : published[d] > 0
  /\ StartDownload(links, force)
  /\ UNCHANGED <<published, feed, torn, payloads, linkLists, updated, atoFaults>>

\* A record whose payload is there.
Matches(d, record) == record.status = "success" /\ <<d, record.version>> \in payloads

Pop(w) ==
  /\ RunAt("fetch") /\ threads[w].pc = "ready"
  /\ \/ /\ update.queue = {}
        /\ threads' = [threads EXCEPT ![w].pc = "ended"]
        /\ UNCHANGED update
     \/ \E d \in update.queue :
          /\ update' = [update EXCEPT !.queue = @ \ {d}]
          /\ threads' = IF ~update.force /\ IsComplete(memory[d]) /\ Matches(d, memory[d])
                        THEN threads
                        ELSE [threads EXCEPT ![w].pc = "get", ![w].doc = d]
  /\ UNCHANGED <<published, feed, index, torn, payloads, linkLists, updated, memory, atoFaults>>

AppendRecord(w, record) == threads' = [threads EXCEPT ![w].pc = "append", ![w].record = record]

\* The payload is stored before the record that names it.
Store(w) ==
  /\ RunAt("fetch") /\ threads[w].pc = "get"
  /\ LET d == threads[w].doc
     IN /\ payloads' = payloads \cup {<<d, published[d]>>}
        /\ AppendRecord(w, [status |-> "success", version |-> published[d], refresh |-> FALSE])
  /\ UNCHANGED <<published, feed, index, torn, linkLists, updated, update, memory, atoFaults>>

\* record_link_refresh_failure keeps a record whose payload is there, and marks it.
FailedOverwriting(d) == [status |-> "failed", version |-> 0, refresh |-> FALSE]
Failed(d) ==
  IF Matches(d, memory[d])
  THEN [memory[d] EXCEPT !.refresh = TRUE]
  ELSE [status |-> "failed", version |-> 0, refresh |-> FALSE]

\* The request fails, or what came has no article.
RequestFails(w) ==
  /\ RunAt("fetch") /\ threads[w].pc = "get" /\ AtoFault
  /\ AppendRecord(w, Failed(threads[w].doc))
  /\ update' = [update EXCEPT !.errors = @ + 1]
  /\ UNCHANGED <<published, feed, index, torn, payloads, linkLists, updated, memory>>

\* The body is too long, is not UTF-8 or breaks off: the thread ends with an error.
RequestBreaks(w) ==
  /\ RunAt("fetch") /\ threads[w].pc = "get" /\ AtoFault
  /\ threads' = [threads EXCEPT ![w].pc = "ended"]
  /\ update' = [update EXCEPT !.broken = TRUE]
  /\ UNCHANGED <<published, feed, index, torn, payloads, linkLists, updated, memory>>

\* Under the lock of the index: the record in memory, and the line that is appended.
Writing == \E w \in Workers : threads[w].pc = "write"

Record(w) ==
  /\ RunAt("fetch") /\ threads[w].pc = "append" /\ ~Writing
  /\ memory' = [memory EXCEPT ![threads[w].doc] = threads[w].record]
  /\ torn' = IF torn = "none" THEN "last" ELSE torn
  /\ threads' = [threads EXCEPT ![w].pc = "write"]
  /\ UNCHANGED <<published, feed, index, payloads, linkLists, updated, update, atoFaults>>

\* The first line is glued to a line that an earlier run left cut short.
WriteLine(w) ==
  /\ RunAt("fetch") /\ threads[w].pc = "write"
  /\ IF update.glued
     THEN torn' = "inside" /\ UNCHANGED index
     ELSE /\ index' = [index EXCEPT ![threads[w].doc] = threads[w].record]
          /\ torn' = IF torn = "inside" THEN torn ELSE "none"
  /\ update' = [update EXCEPT !.glued = FALSE]
  /\ threads' = [threads EXCEPT ![w] = [NoWorker EXCEPT !.pc = "ready"]]
  /\ UNCHANGED <<published, feed, payloads, linkLists, updated, memory, atoFaults>>

Joined == RunAt("fetch") /\ \A w \in Workers : threads[w].pc = "ended"

\* A thread that broke fails the update; what was appended stays.
Broken ==
  /\ Joined /\ update.broken
  /\ EndRun
  /\ UNCHANGED <<published, feed, index, torn, payloads, linkLists, updated, atoFaults>>

\* The index is rewritten; with errors the update is partial.
Rewrite ==
  /\ Joined /\ ~update.broken
  /\ index' = memory /\ torn' = "none"
  /\ updated' = IF update.errors = 0 THEN updated \cup ({update.run} \cap AtoRuns) ELSE updated
  /\ EndRun
  /\ UNCHANGED <<published, feed, payloads, linkLists, atoFaults>>

KillRun ==
  /\ ~RunAt("idle") /\ AtoFault
  /\ EndRun
  /\ UNCHANGED <<published, feed, index, torn, payloads, linkLists, updated>>
-----------------------------------------------------------------------------
AtoAdvance ==
  \/ Diff \/ DiffRefused \/ Crawl
  \/ NothingNew \/ Load \/ Broken \/ Rewrite
  \/ \E w \in Workers : Pop(w) \/ Store(w) \/ Record(w) \/ WriteLine(w)

AtoNext ==
  \/ \E d \in Ids : PublishId(d)
  \/ \E r \in AtoRuns, mode \in AtoModes : BeginRun(r, mode)
  \/ AtoAdvance
  \/ \E f \in Folders : CrawlSkips(f)
  \/ \E w \in Workers : RequestFails(w) \/ RequestBreaks(w)
  \/ \E links \in SUBSET Ids, force \in BOOLEAN : Download(links, force)
  \/ KillRun

AtoSpec == AtoInit /\ [][AtoNext]_atoVars

\* The process runs, and whoever asked for a run asks again until it is reported.
AtoFairSpec ==
  /\ AtoSpec /\ WF_atoVars(AtoAdvance)
  /\ \A r \in AtoRuns : SF_atoVars(\E mode \in AtoModes : BeginRun(r, mode))
-----------------------------------------------------------------------------
(* Properties *)

\* A document that was once acquired keeps a record of the payload it had or of a
\* later one, whatever failed, was killed or was rewritten since (MAINTENANCE.md "A failed
\* refresh preserves the last verified payload"; source.rs record_link_refresh_failure).
VerifiedPayloadKept ==
  \A d \in Ids : index # Nowhere /\ index[d].status = "success" =>
    /\ index'[d].status = "success" /\ index'[d].version >= index[d].version
    /\ <<d, index'[d].version>> \in payloads'

\* A run that is reported as complete has left in the index every document of its plan,
\* as complete, even when the threads failed and retried in any order (source.rs
\* link_download, source_update.rs update_one).
ReportedRunIsComplete ==
  \A r \in updated' \ updated : \A d \in linkLists[r] :
    index'[d].status = "success" /\ ~index'[d].refresh

\* No step of a run, however it ends, loses what the index vouches for, and none reports
\* more than the index has (VerifiedPayloadKept, ReportedRunIsComplete).
IndexKept == [][VerifiedPayloadKept /\ ReportedRunIsComplete]_atoVars

\* source.rs 2635 "Load existing index for resumability", and the torn last line that is
\* skipped there: an incremental run that is asked for until it is reported is reported.
TornIndexResumes ==
  \A r \in AtoRuns : [](index # Nowhere => <>(r \in updated))
=============================================================================
