------------------------------ MODULE SourceIngest ------------------------------
(***************************************************************************)
(* The ingestion of one source (src/pipeline.rs, ingest_source_results): a  *)
(* complete snapshot of its documents is reconciled with the database in   *)
(* one transaction.  The main thread inserts documents, queues the chunks  *)
(* that need a vector and writes vectors; one worker at a time encodes.    *)
(* The texts of a job are looked up in the cache before the job ahead of   *)
(* it has been written there, so that job hands its vectors on.            *)
(***************************************************************************)
EXTENDS Naturals, Sequences, FiniteSets, SequencesExt, Functions, FiniteSetsExt

CONSTANTS
  Natives,     \* the native ids of the source
  Contents,    \* the contents of a document: sequences of chunk texts
  Seeds,       \* the sets of texts an embedding cache may be seeded with
  BatchSize,   \* DOCUMENT_PREPARATION_BATCH_SIZE
  FlushSize,   \* EMBEDDING_FLUSH_SIZE, in chunks
  MaxDocuments, MaxIngests, MaxIngestFaults   \* bounds

Texts == UNION {ToSet(c) : c \in Contents}

ASSUME IngestConstants ==
  /\ Contents \subseteq Seq(Texts)
  /\ {BatchSize, FlushSize} \subseteq Nat \ {0}
  /\ {MaxDocuments, MaxIngests, MaxIngestFaults} \subseteq Nat

Documents == [native : Natives, content : Contents]
Snapshots == BoundedSeq(Documents, MaxDocuments)

VARIABLES
  committed,  \* the database as the last transaction has left it
  tables,     \* the database as the transaction sees it
  ingest,     \* the main thread and what is left of the snapshot
  buffer,     \* the chunks without a vector that are in no job yet
  queued,     \* the jobs nobody has resolved
  worker,     \* the jobs that are being encoded: one or none
  ingestFaults

ingestVars == <<committed, tables, ingest, buffer, queued, worker, ingestFaults>>

\* A job: the chunks that wait for a vector, the vectors that are known, those the model has
\* still to make, shortest text first, and those it has made.
RawJob(pending) == [pending |-> pending, vectors |-> <<>>, missing |-> {}, new |-> {}, done |-> FALSE]
Empty(seed) == [documents |-> <<>>, chunks |-> <<>>, vectors |-> <<>>,
                cache |-> [t \in seed |-> t]]

IngestInit ==
  /\ \E seed \in Seeds : committed = Empty(seed)
  /\ tables = committed
  /\ ingest = [pc |-> "idle", rest |-> <<>>, batch |-> 0, seen |-> <<>>, runs |-> 0]
  /\ buffer = <<>> /\ queued = <<>> /\ worker = {}
  /\ ingestFaults = 0
-----------------------------------------------------------------------------
(* The tables *)

\* Rows that are inserted, over those that are there.
Over(new, old) ==
  [x \in DOMAIN new \cup DOMAIN old |-> IF x \in DOMAIN new THEN new[x] ELSE old[x]]

\* A new chunk id: one more than the largest (an INTEGER PRIMARY KEY of SQLite).
NewId(chunks) == 1 + Max(DOMAIN chunks \cup {0})

\* delete_source_document and its cascades, for some of the documents.
Without(db, natives) ==
  LET gone == {i \in DOMAIN db.chunks : db.chunks[i].native \in natives}
  IN [db EXCEPT !.documents = Restrict(@, DOMAIN @ \ natives),
                !.chunks = Restrict(@, DOMAIN @ \ gone),
                !.vectors = Restrict(@, DOMAIN @ \ gone)]

\* insert_document: the row, and a chunk for each text.
With(db, d) ==
  LET first == NewId(db.chunks)
      rows == [i \in first .. first + Len(d.content) - 1 |->
                 [native |-> d.native, text |-> d.content[i - first + 1]]]
  IN [db EXCEPT !.documents = Over([n \in {d.native} |-> d.content], @), !.chunks = Over(rows, @)]
\* Its chunks are pending.
Pending(db, content) ==
  [k \in DOMAIN content |-> [id |-> NewId(db.chunks) + k - 1, text |-> content[k]]]

\* Mutant: the job ahead hands nothing on: its texts are encoded again.
NothingHandedOn(raw, available) ==
  LET wanted == {p.text : p \in ToSet(raw.pending)} IN
  [raw EXCEPT !.vectors = Restrict(tables.cache, DOMAIN tables.cache \cap wanted),
              !.missing = wanted \ DOMAIN tables.cache]

\* resolve_embedding_job: the vectors of the job ahead, then those of the cache.
Resolved(raw, available) ==
  LET wanted == {p.text : p \in ToSet(raw.pending)}
      cached == DOMAIN tables.cache \ DOMAIN available
  IN [raw EXCEPT !.vectors = Over(Restrict(available, DOMAIN available \cap wanted),
                                  Restrict(tables.cache, cached \cap wanted)),
                 !.missing = wanted \ (DOMAIN available \cup cached)]

\* persist_embedding_job: the new vectors go to the cache, whose key a text must not have
\* yet, and each pending chunk gets its vector.
Conflicts(job, db) ==
  \/ job.new \cap DOMAIN db.cache # {}
  \/ \E p \in ToSet(job.pending) : p.id \in DOMAIN db.vectors \/ p.id \notin DOMAIN db.chunks
Persisted(job, db) ==
  LET made == [i \in {p.id : p \in ToSet(job.pending)} |->
                 job.vectors[(CHOOSE p \in ToSet(job.pending) : p.id = i).text]]
  IN [db EXCEPT !.cache = Over(Restrict(job.vectors, job.new), @), !.vectors = Over(made, @)]
-----------------------------------------------------------------------------
(* The transaction *)

Begin ==
  /\ ingest.pc = "idle" /\ ingest.runs < MaxIngests
  /\ \E s \in Snapshots :
       ingest' = [pc |-> "batch", rest |-> s, batch |-> 0, seen |-> <<>>, runs |-> ingest.runs + 1]
  /\ tables' = committed
  /\ UNCHANGED <<committed, buffer, queued, worker, ingestFaults>>

\* An error ends the scope, which waits for the worker; the transaction is rolled back.
RollBack(outcome) ==
  /\ ingest' = [ingest EXCEPT !.pc = outcome]
  /\ tables' = committed
  /\ buffer' = <<>> /\ queued' = <<>> /\ worker' = {}
  /\ UNCHANGED <<committed, ingestFaults>>

\* The next documents are read and prepared in parallel.
TakeBatch ==
  /\ ingest.pc = "batch"
  /\ IF ingest.rest = <<>>
     THEN /\ ingest' = [ingest EXCEPT !.pc = "drain"]
          /\ queued' = IF buffer = <<>> THEN queued ELSE Append(queued, RawJob(buffer))
          /\ buffer' = <<>>
     ELSE /\ ingest' = [ingest EXCEPT !.pc = "document",
                                      !.batch = Min({BatchSize, Len(ingest.rest)})]
          /\ UNCHANGED <<queued, buffer>>
  /\ UNCHANGED <<committed, tables, worker, ingestFaults>>

\* A document of the batch: the same id twice is an error; one with the hash of the old row
\* stays; any other replaces the row.
Advanced == [ingest EXCEPT !.rest = Tail(@), !.batch = @ - 1,
                           !.pc = IF ingest.batch = 1 THEN "poll" ELSE "document",
                           !.seen = Over([n \in {Head(ingest.rest).native} |->
                                            Head(ingest.rest).content], @)]

Duplicate ==
  /\ ingest.pc = "document" /\ Head(ingest.rest).native \in DOMAIN ingest.seen
  /\ RollBack("duplicate")

Unchanged(d) == d.native \in DOMAIN committed.documents
                /\ committed.documents[d.native] = d.content

KeepRow ==
  /\ ingest.pc = "document" /\ Head(ingest.rest).native \notin DOMAIN ingest.seen
  /\ Unchanged(Head(ingest.rest))
  /\ ingest' = Advanced
  /\ UNCHANGED <<committed, tables, buffer, queued, worker, ingestFaults>>

Insert ==
  LET d == Head(ingest.rest)
      db == IF d.native \in DOMAIN committed.documents THEN Without(tables, {d.native}) ELSE tables
      pending == buffer \o Pending(db, d.content)
      full == Len(pending) >= FlushSize
  IN
  /\ ingest.pc = "document" /\ d.native \notin DOMAIN ingest.seen /\ ~Unchanged(d)
  /\ tables' = With(db, d)
  /\ buffer' = IF full THEN <<>> ELSE pending
  /\ queued' = IF full THEN Append(queued, RawJob(pending)) ELSE queued
  /\ ingest' = Advanced
  /\ UNCHANGED <<committed, worker, ingestFaults>>
-----------------------------------------------------------------------------
(* The jobs *)

\* A finished job is joined: the next one is resolved with its vectors, and it is persisted.
Hand(job, pc) ==
  /\ worker' = IF queued = <<>> THEN {} ELSE {Resolved(Head(queued), job.vectors)}
  /\ queued' = IF queued = <<>> THEN <<>> ELSE Tail(queued)
  /\ IF Conflicts(job, tables)
     THEN tables' = committed /\ ingest' = [ingest EXCEPT !.pc = "conflict"]
     ELSE tables' = Persisted(job, tables) /\ ingest' = [ingest EXCEPT !.pc = pc]
  /\ UNCHANGED <<committed, buffer, ingestFaults>>

Start(pc) ==
  /\ worker' = IF queued = <<>> THEN {} ELSE {Resolved(Head(queued), <<>>)}
  /\ queued' = IF queued = <<>> THEN <<>> ELSE Tail(queued)
  /\ ingest' = [ingest EXCEPT !.pc = pc]
  /\ UNCHANGED <<committed, tables, buffer, ingestFaults>>

\* After a batch: a job that is finished is joined, and one is started when none is active.
Poll ==
  /\ ingest.pc = "poll"
  /\ \/ \E job \in worker : job.done /\ Hand(job, "throttle")
     \/ worker = {} /\ Start("throttle")
     \/ (\E job \in worker : ~job.done) /\ ingest' = [ingest EXCEPT !.pc = "throttle"]
        /\ UNCHANGED <<committed, tables, buffer, queued, worker, ingestFaults>>

\* With two jobs waiting the main thread waits for the active one, once.
Throttle ==
  /\ ingest.pc = "throttle"
  /\ \/ Len(queued) < 2 /\ ingest' = [ingest EXCEPT !.pc = "batch"]
        /\ UNCHANGED <<committed, tables, buffer, queued, worker, ingestFaults>>
     \/ Len(queued) >= 2 /\ \E job \in worker : job.done /\ Hand(job, "batch")

Drain ==
  /\ ingest.pc = "drain"
  /\ \/ \E job \in worker : job.done /\ Hand(job, "drain")
     \/ worker = {} /\ queued # <<>> /\ Start("drain")

\* The worker: encode_embedding_job, whose errors reach the main thread when it joins.
Encode ==
  /\ \E job \in worker :
       /\ ~job.done
       /\ worker' = {[job EXCEPT !.done = TRUE, !.new = job.missing,
                                 !.vectors = Over([t \in job.missing |-> t], @)]}
  /\ UNCHANGED <<committed, tables, ingest, buffer, queued, ingestFaults>>

\* A document that cannot be read or is invalid, a database error, a model that fails.
Fails ==
  /\ ingestFaults < MaxIngestFaults /\ ingest.pc \in {"document", "poll", "throttle", "drain"}
  /\ ingestFaults' = ingestFaults + 1
  /\ ingest' = [ingest EXCEPT !.pc = "failed"] /\ tables' = committed
  /\ buffer' = <<>> /\ queued' = <<>> /\ worker' = {}
  /\ UNCHANGED committed

\* refresh_metadata: a chunk without a vector is an error.
Unencoded(db) == DOMAIN db.vectors # DOMAIN db.chunks

\* What the snapshot has not named is deleted.
Finish ==
  LET absent == DOMAIN committed.documents \ DOMAIN ingest.seen
      kept == Without(tables, absent)
  IN
  /\ ingest.pc = "drain" /\ worker = {} /\ queued = <<>>
  /\ IF Unencoded(kept)
     THEN RollBack("conflict")
     ELSE /\ tables' = kept /\ committed' = kept
          /\ ingest' = [ingest EXCEPT !.pc = "committed"]
          /\ UNCHANGED <<buffer, queued, worker, ingestFaults>>

Again ==
  /\ ingest.pc \in {"committed", "duplicate", "failed"}
  /\ ingest' = [ingest EXCEPT !.pc = "idle", !.rest = <<>>, !.batch = 0, !.seen = <<>>]
  /\ UNCHANGED <<committed, tables, buffer, queued, worker, ingestFaults>>

IngestEnded == ingest.pc = "idle" /\ ingest.runs = MaxIngests /\ UNCHANGED ingestVars

IngestNext ==
  \/ Begin \/ TakeBatch \/ Duplicate \/ KeepRow \/ Insert \/ Poll \/ Throttle \/ Drain \/ Encode
  \/ Fails \/ Finish \/ Again \/ IngestEnded

IngestSpec == IngestInit /\ [][IngestNext]_ingestVars
-----------------------------------------------------------------------------
\* A document has a chunk for each of its texts, in consecutive ids.
Laid(db, n) ==
  LET own == {i \in DOMAIN db.chunks : db.chunks[i].native = n}
      content == db.documents[n]
  IN \E first \in own \cup {0} :
       /\ own = first .. first + Len(content) - 1
       /\ \A k \in DOMAIN content : db.chunks[first + k - 1].text = content[k]

(* What an ingestion promises: whatever the worker has done when the main thread looks, it
   never trips over its own jobs (a text that two of them encode has no place in the cache
   twice), and after it the source holds the snapshot, each chunk with the vector of its own
   text, in ids that were those of other chunks before. *)
IngestSound ==
  /\ ingest.pc # "conflict"
  /\ \A i \in DOMAIN tables.vectors :
       i \in DOMAIN tables.chunks /\ tables.vectors[i] = tables.chunks[i].text
  /\ ingest.pc = "committed" =>
       /\ tables.documents = ingest.seen
       /\ \A n \in DOMAIN tables.documents : Laid(tables, n)
       /\ DOMAIN tables.vectors = DOMAIN tables.chunks
=============================================================================
