# Specification and verification of australian-legal-mcp

`legal-mcp` builds an immutable *generation* of a legal corpus from official
sources on a maintainer's machine, installs it on a host, and serves it to
language-model clients over MCP.  This directory holds TLA+ modules for the
parts of it whose correctness rests on the order of events (locks, directory
syncs, crashes, retries, threads), the TLC configurations that check them, and
TLAPS proofs of what matters most.

All source paths below are relative to the repository root, so `src/source.rs`
is the Rust file and not the copy of the tree.

## 1. Inventory

| component | state | operations | hard behaviour | what makes it correct |
|---|---|---|---|---|
| **Generation lifecycle** (`source.rs` 925-1580, `config.rs`) | `generations/<key>/`, the pointer `lifecycle/active-generation`, `LIFECYCLE_LOCK`, `LOCK`, permission bits | `activate`, `rollback`, `deactivate`, `prune-generations` | kills and power loss between rename, sync and pointer write; concurrent commands; a builder rewriting its directory | the pointer always names a complete read-only generation, now and after any power loss; a reported success is durable; commands return |
| **Corpus server** (`main.rs` serve / `ServerState` / `call_tool`, `db.rs` `LiveDbSeal`, `search.rs`) | generation key, sealed database, loaded model, cached instructions, readiness | startup, tool calls | the pointer is read many times without a lock at startup and again for each artifact of a call | one answer, one generation; never an answer after the generation changed |
| **HTTP service** (`main.rs` 1084-1333) | bounded queue, worker pool, readiness flag, `http.json` | accept, answer, refuse, drain | saturation, shutdown while requests are queued, a failing listener | every accepted request is answered or refused; the drain ends |
| **Local backend** (`main.rs` 1346-1560) | `http.json`, `SERVER_LOCK`, child server | `mcp` stdio forwarding, spawn, probe, retry | several shims, a busy backend that looks dead, a stopping backend removing another one's state file | one reachable backend; shims settle |
| **Adaptive concurrency** (`adaptive_http.rs`) and **official HTTP client** (`official_sources/mod.rs` 1002-1460) | active requests, limit, learned ceiling, congestion episode; pacing slot | acquire, finish, drop; get, retry, defer | workers finishing out of order, early returns, a sleep under a mutex | never more requests than the limit allows; one cut per episode; capacity is given back on every path |
| **Source workspaces** (`source_update.rs`, `official_sources/mod.rs` 205-985) | `state.json`, staging entries, documents, workspace lock | discover, fetch, commit, resume | crash between documents, staging and state | a committed inventory names documents that exist; a resumed run continues its plan |
| **FRL acquisition** (`frl.rs`) | inventory and cursor, staged entries, plans, texts | scan since the cursor, plan, acquire, commit; choose a rendition, number and render it | a register that changes while it is paged, plans resumed after later ones, renditions that cannot be read | nothing registered is missed; an entry has the text of its version; the best rendition is taken |
| **ATO acquisition** (`source.rs` 1756-3200) | `index.jsonl`, content-addressed payloads, link lists | What's New, tree crawl, download, recovery, rewrite | a kill within an append, several workers, failed refreshes | a verified payload is kept; a reported run is complete |
| **Court and State adapters** (`official_sources/*.rs`) | none beyond the workspace | inventory over several pages, choice and conversion of renditions | a site that publishes while it is listed; one converter failing after another | the inventory is one listing; the text is the best there is |
| **Browser transport** (`browser_http.rs`) | a pool of Chrome tabs, their unanswered pauses | navigate, continue, refuse, replace a tab | a tab returned with pauses of the page before | a caller gets its own document; no tab is lost |
| **Extraction and normalisation** (`chunker.rs`, `html.rs`, `extract.rs`, `rules.rs`, office files in `frl.rs`) | none | elements to blocks, blocks to chunks, markers and anchors | estimates cut again by the tokenizer, headings repeated, markers divided | no text lost or twice; every chunk fits; links lead to their targets |
| **Build pipeline** (`build.rs`, `pipeline.rs`) | the output directory, its checkpoint, one transaction per source, the embedding cache | bind, ingest, write vectors, publish, resume | a second thread behind the main one, kills, jobs that wait for each other | a complete output holds one snapshot of the workspaces |
| **Indexes** (`ann.rs`, `lexical.rs`) | mapped sidecars, seals of verified files | scan, confirm, open | threads merging heaps, a file replaced or damaged under its reader | exact answers; a replaced file is noticed |
| **Retrieval and search** (`search.rs`, `retrieval.rs`) | caches of a process | fuse, cut, page, cache | cursors, limits, shared loads | pages are the whole text; no document crowds out others |
| **HTTP authentication** (`http_auth.rs`) | API keys, cached signing keys | authorize, refresh | concurrent refresh, issuer outage | a withdrawn key ends; a new one is soon known |
| **Maintainer sync** (`scripts/maintainer-sync.sh`) | `pending-generation.json`, source set, snapshots | acquire, build, activate, promote, resume | a crash between any two steps, resumed by phase | a run ends with the new source set and generation, or resumes |
| **Hosting shell** (`scripts/legal-mcp-host-deploy`, `infra/**`) | image and generation pairs, container units | deploy, cut over, roll back | partial failure of a cut-over | one consistent image and generation pair is served; a failed cut-over is undone |

How they interact: the maintainer sync runs `source-update` (workspaces with
their adapters, HTTP client, adaptive concurrency, browser), `build` (extraction
and pipeline) and `activate` (lifecycle); the server reads what the lifecycle
installs, under `LOCK` shared; the HTTP service authorizes requests and hands
them to tool calls, which search and page; the stdio shim starts and finds the
HTTP service through `http.json`.

## 2. Plan

In order of how much of the system's correctness rests on them.

| module | what | status |
|---|---|---|
| `ActiveGeneration` | abstract: a register that names a servable generation | done |
| `GenerationStore` | the lifecycle commands; implements `ActiveGeneration` | done, proved |
| `CorpusServer` | the server and its tool calls, composed with `GenerationStore` | done, proved |
| `MaintainerSync` | the journalled script | done, proved |
| `SourceWorkspace` | one workspace under concurrent `source-update` runs | done, proved |
| `AdaptiveConcurrency` | the controller | done, proved |
| `OfficialClient` | the HTTP client, composed with `AdaptiveConcurrency`, whose specification it implements | done, proved |
| `HttpService`, `LocalBackend` | the service; stdio shims and their backends | done, proved |
| `FrlAcquisition`, `AtoAcquisition` | the two stores with journals of their own | done, proved |
| `FrlRendition`, `DocxNumbering`, `OfficeMarkup` | the text of a register version | done, proved |
| `CorpusBuild`, `SourceIngest` | the build of a generation and the ingestion of a source | done, proved |
| `SigningKeys` | authorization and the issuer's keys | done, proved |
| `BrowserTransport` | the tab pool, its leases and replacements | done, proved |
| `CourtDiscovery`, `AdapterRenditions` | inventories and renditions of the courts and States | done; the second is proved |
| `DocumentBlocks`, `Chunker` | from the elements of a document to its chunks | done |
| `VectorScan`, `SearchRanking`, `ChunkPages`, `SearchCaches` | what is searched, ranked, paged and shared | done; the last is proved |
| `SourceUpdate` | one invocation over several sources: the pool of sources, its report, the shared controllers | planned |
| `McpRequests` | the request handling of `main.rs` between the HTTP service and a tool call | planned |
| `HostDeploy` | the hosting scripts | planned last |

What is marked done without a proof computes over sequences: sorts, folds and
recursion over the data (blocks, chunks, markers, listings, rankings, the scan of
the vectors). There the provers have no induction, and TLC's small inputs are the
evidence.

## 3. The modules and the code

Five modules set up the others for TLC. `MCCorpusServer` gives
`CorpusServer` its constants. The others check several modules in one run, one at
a time: a variable chosen in the initial state says which
(`MCMaintenance`: a refresh or the update of a workspace; `MCServing`: the service,
the shims or the caches that searches share; `MCAcquisition`: the three kinds of
workspace; `MCComponents`: fourteen components that are sequential or small), and
the variables of the others keep one value. The behaviours of a part are those of
its own module; the composition adds no interaction, it only shares the constants
and the run.
`MCMaintenance` extends `MaintainerSync`, `MCServing` and `MCAcquisition` all the
modules they check, `MCComponents` the six that it checks and that have theorems
(`SigningKeys`, `CorpusBuild`, `BrowserTransport`, `SourceIngest`, `FrlRendition`,
`AdapterRenditions`), so that the runs and the theorems go by the same definitions.
`OfficeMarkup` and `DocxNumbering` are instances there, with their own names for their
own parameters; their theorems take the assumptions on those as hypotheses.
For that the names of these modules are disjoint: `TitlesIn` and `HasText` of the
register are what `Named` and `Loads` are of a workspace, the threads of
`SigningKeys` are `Verifiers`, and each module has its own value for "none"
(`Absent`, `NoUrl`, `Nothing`).

Each definition that models code is listed with its lines in `PROJECT.json`
under `map`. An operator that a comment calls "a mutation" or "Mutant", or that
stands before its sound counterpart under a longer name (`ReturnHolding` before
`Return`), is used by no specification: it is the plausible bug that the
properties are shown to detect.

### GenerationStore

State: `installed` is `generations/<key>`, a tree being modelled by the key its
content hashes to, or `Damaged`; `sealed` holds the trees whose permission bits
are all read-only; `pointer` is `lifecycle/active-generation`; `staged` and
`stagedSealed` the builder directories given to `activate`; `lifecycle`,
`writer` and `readers` the two `flock`s; `pc`, `op`, `path`, `target`, `durable`
the progress of each command. `survivors` is the set of disk states a power loss
may leave; an update adds one, a directory sync discards the others.

| action | code (`source.rs`) |
|---|---|
| `Issue`, `TakeLifecycle`, `TakeCorpus` | the command line and the two locks, always in this order |
| `Validate`, `SealStaged`, `Commit`, `Rename`, `RenameFails`, `SyncRename` | `activate_generation` and `commit_validated_generation_locked` |
| `Reseal`, `Point`, `PointFails`, `SyncPointer` | the tail of both `activate` and `rollback` |
| `Confirm`, `Protect` | `rollback_generation` |
| `Clear`, `SyncClear` | `deactivate_generation` |
| `Check`, `StartRemoval`, `FinishRemoval`, `RemovalFails`, `SyncPrune` | `prune_generations` |
| `Kill`, `PowerLoss`, `Build` | a killed process, a lost machine, a builder that rewrites its directory |

Abstractions. Which generations a prune keeps (a count and modification times)
is any subset without the active one. Permission changes are assumed to follow
the journal like other metadata. When a rename reports an error although it took
effect, the tree returns to the builder's path by a `Build` step. `activate` of
the key that is already active returns early and syncs nothing, as in the code:
`SwitchIsDurable` speaks of steps that switch the pointer.

`OrderedJournal` says whether a power loss keeps a prefix of the metadata
updates (ext4 and XFS with their default journals) or may keep the updates of
one directory and lose those of another, which POSIX permits. The code syncs
`generations/` and `lifecycle/` separately; the safety properties are checked
and proved for the first kind, the second shows the finding of
`StoreRollbackDurability`.

`ActiveGeneration` is implemented with `active <- pointer`, `available <-` the
complete sealed trees and `fallback <-` the pointers of `survivors`.

### CorpusServer

Extends `GenerationStore` with the processes that read it. `phase` is the
startup of a server (`serve`, `verify_active_generation_startup`,
`ServerState::new`, `prepare_for_serving`): the key to verify, the verification
under `LOCK` shared, the key for the process, the seal of `legal.db`, the
comparison, model and tokenizer, the comparison again. `call` is a tool call
(`call_tool`, `search_inner`): `LOCK` shared, the check of generation and seal,
for a search `LOCK` shared again on a descriptor of its own, and every file opened
through `live_dir()`, which reads the pointer each time; `seen` collects what it
resolved. `StoreStep` is a step of the store while servers watch, `Blackout` a
power loss that ends them too.

What is left out: the answers, and what searches share (see `SearchCaches`).
`ModelCoherent` and `NoAnswerAfterInterruption` are stated for a server whose
seal is on the database of its own generation (`SealedOwn`). The two reads in
`ServerState::new` hold no lock, so if the pointer goes from A to B and back
around them the seal is on the other database; `AnswersCoherent` holds even then.

### MaintainerSync

One action per step of `scripts/maintainer-sync.sh` between two durable effects;
`sh` holds its shell variables, lost by `Exit`; `pending` is the journal. A
source set maps each source to the version of its committed inventory. `KillAt`
names the points where the script may be killed, by the value of `pc`.
`indexOnly` are the sources that never write a `state.json`; in production this
is ATO, with which a full refresh cannot pass its fingerprint (`SyncCatalogue`).
`Maintenance` starts with such a catalogue or with one without, in which full
refreshes come to their end. A completed build is always activated here, although
`BuildLeftovers` shows one that cannot be: that dead end is not among those of
`Stranded`. Run ids are taken to be unique. `Stranded` names
the states of a pending run that no invocation leads out of. `OperatorRecovers`
is the only action of a person: the rollback that the activation error
prescribes.

### SourceWorkspace

One workspace of the eight court and State adapters. An upstream document is
the number of its latest version; `files` is the content-addressed store, where
a file is absent, created but not written (`partial`), or complete; `staging`
and `state` are inventories; `plan` is the `discovery.json` of a run directory.

| action | code |
|---|---|
| `Start`, `Lock`, `LockHeld`, `MakeRunDir`, `RunDirExists` | `prepare_context`, `lock_workspace` (`source_update.rs`) |
| `Discover`, `DiscoveryRefused` | `fetch_documents` up to the pool, `validate_discovery`, `validate_snapshot_size` |
| `Take`, `Get` | `acquire_one`, `reusable_entry`, `load_inventory_document` |
| `Create`, `Write`, `FindSame`, `Collide`, `WriteFails` | `persist_document`, `write_immutable` |
| `Stage`, `Abort`, `TooFew`, `Collect`, `ClearOne`, `Commit`, `Report` | the end of the pool, `clear_staging`, the write of `state.json` |
| `Retain` | the maintainer script leaves out committed sources of a full run |
| `BeginBuild`, `EndBuild` | `lock_workspace_shared` in a build |
| `Fails`, `GetFails`, `Kill` | a failed request or write, a killed process |

Abstractions. Discovering a listing is one step. The retention percentage and
the 99 % of usable full text are computed as in the code. A workspace counts as
empty when it has no lock file, because everything in it is made under the lock.
A withdrawn document does not return. Power loss is left out: the code relies on
the journal here as in the lifecycle. The shared `LOCK` of a workspace is held
during network requests; `flock` itself does not queue, so a build that tries
fails at once and retries as a new build.

### AdaptiveConcurrency and OfficialClient

`AdaptiveConcurrency` is the state under the mutex of `adaptive_http.rs`:
`active`, `limit`, `ceiling` (learned), `successes`, the time left of the
congestion `episode`, and the threads `holding` a permit or `waiting` on the
condition variable. Admission, finishing with each outcome and the drop of
an unfinished permit are its actions.

`OfficialClient` is `get` of `official_sources/mod.rs`: admission, pacing under
a second mutex that is held across the sleep, the request, and what each answer
leads to (return, redirect, deferral of everybody's next request, retry).
Time is counted down in ticks. A Retry-After or a backoff is any member of `Delays`.
`Prompt` restricts the behaviours to those in which local steps take no time; no
run uses it. The browser transport has a module of its own. The client is checked to implement
`ControllerSpec`: it never finishes a permit twice or without one.

### HttpService and LocalBackend

`HttpService` is `serve` of `main.rs`: the accept thread that answers probes
itself, `sync_channel` with `HTTP_QUEUE_PER_WORKER` per worker, workers whose
handler may take for ever or panic, refusal when the channel is full, and the
shutdown with its grace. `serve` holds a reference to the receiver itself (`main.rs`
1247) and gives the workers clones, so that the channel outlives the last of them: with
all workers panicked requests are queued while there is room, then refused, and the
`Disconnected` branch (1309) is not reached; there is no action for it. The `ready` flag
set to false at shutdown has no observer there, since the accept thread that would answer `/readyz` has stopped.

`LocalBackend` is `legal-mcp mcp`: a shim reads `http.json`, probes, takes
`SERVER_LOCK`, reads and probes again, picks a port, spawns `serve`, waits for
it and forwards; after a failed request it does so once more. A backend whose queue is full,
or that answers later than the timeout, is `saturated` and fails probes. Every
backend has a port of its own.

### FrlAcquisition

The Federal Register while a run reads it: titles and versions registered,
commenced and repealed day by day (`NextDay`, `Register`, `Commence`, `Repeal`),
and shown with a lag. The state machine of a run is `BeginScan`, `ReadUpperBound`,
`TitlesPage`, `VersionsPage`, `LookUp`, `SavePlan`, `LoadPlan`, `Reuse`,
`StoreText`, `StageTitle`, `CommitScan` or `Unreconciled`, `ClearTitle`,
`ReportScan`; `Stop` is a kill or a request that failed. Two history variables name what the code does not promise: `late`, titles whose
version commenced after its registration, and `regressed`, that a plan older
than the last commit was committed. A title is in one of the four kinds of
workspace a run may meet (`new`, `superseded` text, `established`, `awaiting` a
version).

### AtoAcquisition

`index.jsonl` and its payloads. `Diff` reads What's New, `Crawl` the browse tree
(`CrawlSkips`: a folder fails and is skipped), and both keep the list of links;
`Load` reads the index for a run; the workers `Pop` a link, `Store` the payload
and `Record` the outcome, whose line is appended by `WriteLine`; `Rewrite` writes
the whole index. `KillRun` may cut a line short (`torn`). `Download` is the command
`link_download` run by hand, with any links and with `--force`.

### FrlRendition, DocxNumbering, OfficeMarkup

`FrlRendition` is one version: its renditions are listed page by page while the
register goes on adding, sorted by preference, and fetched until one has been
normalised. A parse either yields text, or a PDF without text (`metadata`), or
fails. `DocxNumbering` is `paragraph_marker` over styles, numbering instances and
overrides, each of which is chosen in the initial state from all small ones.
`OfficeMarkup` is the reader with its stack and the sink with its pending space,
over every sequence of a bounded number of tags and texts. Layout, tables,
footnotes and images are left out.

### CourtDiscovery and AdapterRenditions

A site lists the newest document first; `Publish` and `Withdraw` change it
between two pages, which are served in any order (`parallel_map` promises none).
`site` selects the rule by which a changed site is refused: the total of each page
(High Court), the same with three attempts (NSW Caselaw), a count before and after
(Federal Court), a point in time (Tasmania). `AdapterRenditions` has, for each of
the eight adapters, the order of its renditions and the commands that convert
one, each of which yields a good, a poor or an empty text or fails.

### BrowserTransport

Chrome (external) pauses requests and responses of a page, of its frames and
of what it navigates to (`Pause`); a caller takes a tab, navigates, and answers
the pauses (`Pass`, `Escape`, `Follow`, `Body`) until its own document has come
or time is up; a tab that failed is replaced or not, and given back with the
pauses nobody answered.

### DocumentBlocks and Chunker

`DocumentBlocks` grows every document of up to seven nodes over a small alphabet
of interacting elements, in the order of the text, and renders it in one step
(`Walk`, `RenderTable`, `RenderList`, `RenderInline` are the functions of
`chunker.rs` and `html.rs`). `Chunker` takes sequences of up to three blocks of ten
shapes: `Attach` and `AttachRest` hold the headings until a block follows them,
`Pack` and `PackRest` fill chunks up to the estimate, `Limit` cuts what the
tokenizer counts as too long, `Store` is the lookup of links in the ingestion. A
character is the least that a cut leaves; a word of the model has the tokens of
one, or it is a marker of several words that may not be cut.

### CorpusBuild and SourceIngest

`CorpusBuild` is `build_corpus`: `Launch`, `Check` and `Bind` (a new output is
bound to the workspaces' bytes, an existing one must be bound to them),
`Unpublish`, one `Ingest` per source with the second thread's `Scan`, `Scanned`
and `Replace` behind it, `Join`, `BindMetadata`, `ClearCache`, `Compare` of the
workspaces with the binding, `InstallModels`, `LexicalSidecars`, `Publish` and
`Release` of the checkpoint. `Kill` leaves any of the temporary files in
`litter`. `SourceIngest` is the transaction of one source: the batches, the
documents kept, replaced or inserted, the queue of embedding jobs whose texts
are resolved while the job ahead is encoded, its failures and its final
reconciliation. A text stands for the row of the embedding cache that has its
hash.

### VectorScan, SearchRanking, ChunkPages, SearchCaches

`VectorScan`: eligible rows are scored in blocks, whose heaps are merged in any
order, and the winners are confirmed by the database; `Damage` changes the file
under its mapping. `SearchRanking`: two rankings of any chunks are fused, cut per
document, sorted and cut, and the caller makes the call the answer names
(`More`). `ChunkPages`: a caller follows the cursor while the generation may be
switched. `SearchCaches`: several threads open an index (its stamp, its seal, its
hash), wait for the one readiness check, and share the rows of a filter in a
cache of bounded size; `Replace` puts another file in place of the index.

### SigningKeys

The issuer's keys come and go with time (`Rotate`, `Tick`); a request is
answered from API keys (`Present`) or by the cached set (`Look`), and a thread
that finds it due refreshes it (`Refresh`, `Fetch`, `FetchFails`, `Keep`) while
the others go on (`Yield`). Time is counted in units longer than a fetch, so a
fetch and its answer are of one moment.

## 4. Runs

"pass" runs find no error. The others each check one statement of the
repository about itself, and TLC shows a behaviour of the code that
contradicts it; section 5 describes them.

| run | bounds | what it shows |
|---|---|---|
| `StoreOrdered` | 2 keys, 1 builder path, 2 operators, 3 commands, 1 reader, kills and power losses without bound | the pointer always names a sealed complete generation, now and after a power loss; installed trees hold what they are named for; confirmed switches last; `ActiveGeneration` is implemented; commands return |
| `StoreRollbackDurability` | the same on an unordered journal | violation |
| `ServerAnswers` | 1 server, 1 thread with both tools, 1 operator, 3 commands | an answer comes from one generation, the one its server started on and (hosted) described; never after an interruption; a search that takes `LOCK` twice is not held up |
| `Maintenance` | the script: 2 sources, both catalogues, 2 runs, 2 publications, 2 faults at any point; a workspace: 2 concurrent invocations, both modes, 2 documents, one with an asset, 2 versions, 1 run, 1 fault anywhere | sources and generation in step; a full refresh is all or nothing; the replaced set is kept; a pending run, or an update, completes but for the named dead ends |
| `SyncCatalogue` | 2 sources, one of them index-only, 1 run, no fault | violation |
| `Acquisition` | 2 runs and 1 fault anywhere. Official: 2 documents that share an image, 2 versions, 1 withdrawal, 1 process, 1 build. Register: 2 titles, 3 versions, 2 days, 1 repeal, pages of 2. ATO: 2 documents in 2 folders, 2 workers, both modes | entries name what is there, of the version they say, and no more (`EntriesSound`, `TextsAsNamed`); no registration is missed; plans reconcile; a commit is one whole plan; verified payloads are kept and reported runs whole (`IndexKept`); a build sees one inventory |
| `AtoTornIndex` | 1 document, 1 worker, 1 run, 1 fault | violation |
| `Client` | 3 threads, ceiling 2, 1 get each, 2 attempts, 1 redirect, one answer of each effect | no stored credit, no lost wake-up; no request too early; the controller is used as it specifies; each get returns |
| `Serving` | the service: 4 requests and a probe, 2 workers with 1 place each in the channel, 2 panics, a listener that may fail; the shims: 2, 4 ports, 2 faults of any kind; the caches: 2 threads, 3 filters in a cache of 2, 3 searches, 1 replacement of the index, 1 passing failure | a shutdown within its grace abandons nothing while a worker is left; probes are answered with the channel full and all workers stuck or panicked, and a shutdown ends (`ServiceGoesOn`); one backend if backends only crash; no shim waits for good; what searches share is of one index (`CachesSound`) |
| `Components` | one part at a time, see below | the text (`TextKept`), the renditions (`BestListed`, `TextChosen`), the browser's documents, the builds and ingestions, the keys, and the inventories, pages, scans and rankings (`ListsComplete`) are as the parts promise |
| `FrlMetadata`, `BuildLeftovers` | the parts `rendition` and `build` of the same | violations |

The parts of `Components`: keys: 2 keys, 2 verifiers, 4 units of time, 1 failed
fetch, tokens whose claims are good; browser: 1 tab, 1 caller, 2 urls that may redirect, 2 gets, 2 pauses each;
rendition: 8 renditions of 2 rectifications and 2 volumes, pages of 2, 3 faults;
numbering: 2 styles, 4 paragraphs, 3 levels; markup: 6 tags and texts, depth 3;
ingest: 3 documents of 2 contents, batches of 2, jobs of 1 chunk, 2 ingestions, 1
failure; build: 2 sources, 3 runs, 2 kills, 1 failure, 1 changed workspace; pages:
2 generations, limits of 2 and 3 characters, 2 chunks asked for, 1 around;
vectors: 4 rows, blocks of 2, limit 2, ties; ranking: 4 chunks of 2 documents, 2
of each document, k up to 3; courts: listings of 4 and 5, pages of 2, 2
publications, 1 withdrawal, 2 attempts; adapters: all 8; document: 4 to 7 nodes
over 6 alphabets; chunker: 3 blocks of 10 shapes, chunks of 8 tokens.

Why the bounds are enough. Two generations suffice for every confusion of one
with another, because a command and a call compare with at most one other key;
the A-B-A case needs three commands. Two operators cover every pair of lock
orders. Two runs of the sync are needed to see that one leaves the next an
intact source set; two faults, to fail the resumption of a failed run.
Workspaces need two documents for partial failures and for shrinkage, and two
versions for stale plans; `Acquisition` has one process at a time, since
`Maintenance` shows what the lock does with two and a killed process leaves
everything to the next. Two runs of the register let an older plan be resumed
after a newer one. Three threads under a ceiling of two leave one waiting while
the others finish in any order, and the ceiling can be cut once. Four requests
fill two workers and two places of the channel; one is refused when it comes
before the workers have taken what is queued. Four ports are as many as two shims can start
backends that matter: each may start one, lose it and start another. The limits of
pages, blocks, chunks and caches are small so that each part meets them: a page
ends within a chunk, a block of rows ends between ties, a heading leaves room for
no more than a word, a third filter evicts the first. The theorems of section 6
remove the bounds for the store, the servers and their calls, the controller and
its client, the browser's tabs, the service, the shims, the shared caches, the
issuer's keys, the script, the three kinds of workspace, the renditions of the
register and of the adapters, the build and the ingestion.

`CHECK_DEADLOCK FALSE` stands where a behaviour ends because a bound on
requests, runs or documents is reached, because the service stops, or because a
part has computed its result.

Fairness. Each process and thread that can take its next step takes it: weak
fairness of its steps, which is what the scheduler gives. Not assumed: that a
handler returns, that a reader leaves `LOCK`, that an operator, a client, a
builder or a fault acts. Further:

- `CommandsReturn` is "a command returns, or readers hold `LOCK`", since `flock`
  lets new readers in before a waiting writer: a command may starve while calls
  overlap. `CallsProceed` needs no fairness: it says that the next step of a
  call that has `LOCK` is always enabled.
- `CommandsCompleteOrStrand` assumes that the maintainer invokes the script, or
  `source-update`, again after a failure, as `MAINTENANCE.md` 82 and 182 ask; of the
  script, also that the prescribed rollback is done. `TornIndexResumes` assumes the same of the ATO update, strongly: whoever
  asks goes on asking whenever no other run is under way.
- `ServiceGoesOn` rests on the grace, after which the process exits whatever its
  handlers do, and on a fair accept thread, whose own answers to probes return;
  no worker has to run.
- `GetsReturn` assumes that time passes and that requests time out, as the
  client's agent is configured.
- `ShimsSettle` rests on the timeouts of probes, forwards and the wait for a start.

In a workspace completion is asked without withdrawals and for sources that list
at least one document: otherwise the code refuses the plan, rightly.

## 5. Findings

Five of them contradict a statement of the repository and have a run of their
own, with `expect: violation` and the quoted text in `PROJECT.json`.

| run | what happens |
|---|---|
| `StoreRollbackDurability` | on an unordered journal, `rollback` reports success without syncing the rename it is prescribed to recover |
| `SyncCatalogue` | a full refresh never passes its fingerprint, as ATO has no `state.json` |
| `AtoTornIndex` | a kill within an append leaves a line that every later incremental update fails on |
| `FrlMetadata` | a version whose EPUB and Word files cannot be read is kept with its title only when it has a PDF without text |
| `BuildLeftovers` | temporary files of a killed build stay in the output that is completed later, and its activation refuses it |

Other behaviours that a maintainer may want to know are part of the models. The
liveness properties name dead ends as their only exceptions, so that the runs
show the list to be complete within the bounds:

- `Stranded` of `MaintainerSync`. `CheckpointLeft`: killed between the manifest
  and the removal of the build's checkpoint, the run is never activated, since
  the resumed script sees `generation.json` and does not build (`maintainer-sync.sh`
  237), and `activate` refuses a directory with a checkpoint (`build.rs` 536
  says who removes it). `SnapshotTaken`: killed between the snapshot
  and the end of the journal, the run meets its own snapshot (275).
  `PriorIncomplete`: a full refresh that repairs a set without a `state.json`
  can never be promoted, as the set to be replaced is fingerprinted first (266).
  `FreshIncomplete`: the finding of `SyncCatalogue`.
- `Stranded` of `SourceWorkspace`. `Truncated`: a kill inside a file write
  leaves a truncated file that every later run takes for a collision.
  `Unprepared`: a full refresh killed between its lock
  file and its run directory is neither new (the workspace is not empty) nor
  resumable (there is no run directory), `source_update.rs` 444.
- `OneBackend` is stated for crashes. With the other faults there are two
  backends when a busy one fails its probe (`main.rs` 1422), when a stopping
  one removes the `http.json` its successor wrote (1327), or when the child of
  a killed shim comes up after its replacement.
- A listener that fails ends the service without a drain (`main.rs` 1273):
  `CleanShutdown` is about shutdowns that were asked for.
- When every worker has panicked, `serve` is neither stopped nor repaired: the error
  that it has for this case (`main.rs` 1310) is in a branch that its own
  reference to the receiver makes unreachable. `/readyz` is answered as before,
  requests are accepted until the channel is full and then refused; and at a signal the
  wait for the workers finds no sender left (1324), so that the process ends at
  once and successfully with accepted requests in the channel, although
  `CURRENT_STATE.md` 32 says that it drains. `CleanShutdown` excepts this case
  by name; without the exception the run `Serving` violates it, within 2 workers and 2 panics.
- A full refresh checks that the workspace is empty before it locks it
  (`source_update.rs` 406), so two may overlap; each still commits a whole plan.
- Two threads that store the same asset at once collide (`Collide`, `mod.rs`
  2417); the next update gets over it.
- A pointer to a missing directory fails every command with a message that
  prescribes `activate` (`config.rs` 96), which fails the same way (`source.rs`
  1439). No crash on an ordered journal leads there (`ActiveServable`).
- Without `--require-ready-corpus` the instructions may describe another
  generation than the answers come from, because only the hosted start compares
  the two (`main.rs` 536, 852): `HostedInstructionsMatch` is about hosted servers.
- Register: `NothingMissed` needs its two exceptions. A version that commences
  later than the overlap after its registration is behind the cursor for good,
  and a plan resumed after a later one moves titles back.
- Courts: the Federal Court's counts do not see a publication and a withdrawal
  that cancel out, nor a shift between them, so a judgment that was listed all
  along may be missed; NSW Caselaw only when something was published and
  withdrawn. At the High Court and the Federal Court a passing error on a better
  rendition makes a lesser one the text of that version for good. The text
  validator of South Australia runs after the conversion, so the next converter is
  not tried on a poor result. The page of a failed status is hashed into the
  version of NSW legislation (`nsw_legislation.rs` 147).
- Blocks: the caption of a table with cells is in no chunk, a list without items
  loses its text, the cells of a nested table come twice, a link or an id around
  block elements loses its marker, an `a` with an id within a heading with an id
  of its own is unreachable, `pre` has no markers.
- Chunks: only the first block under a heading carries it; a target that is packed
  behind another anchored block has no anchor, and the link to it is silently
  omitted; after a second cut a link leads to the first piece. A heading that
  leaves room for the first character only lets a wider one fail the whole
  document, which the comment at `chunker.rs` 955 seems to exclude. The
  fallback of `get_doc_anchors` can add nothing.
- Caches: a readiness check that failed, for a passing reason too, is remembered
  for as long as the process lives (`search.rs` 1023), and a failed load of a
  filter until it is evicted. The mutex of readiness is held during the check. A
  lexical index that is replaced between its stamp and its opening is read once,
  by the search under way.
- Ranking: sorted by date, chunks of one document come by their number, so an
  introduction may come before what was found.

## 6. Proofs

`GenerationStoreProofs` (for any keys, operators, readers and number of commands):

- `StoreTypeCorrect`: the type invariant, on either kind of journal. It
  needs in addition that the target of a command past its validation is a key.
- `ActiveAlwaysServable`, `InstalledAsNamed`, `SuccessSurvivesPowerLoss` assume
  an ordered journal. Their inductive invariant `StoreInv` is the type invariant together with
  `HeldLocks` (a command past a lock holds it, so at most one is past it),
  `Knows(a)` (what a command at step `pc[a]` has established: that its target
  is installed, sealed, not the pointer's tree when it is to be removed), and
  `Sound` of the disk as it is (`Now`), which is a survivor, and of every
  survivor. `ActiveServable` alone is not inductive: that the pointer may be switched
  depends on the validation some steps before, which only the locks keep true
  until then, and a power loss may return to any survivor.
- `StoreKeepsPromise`: the refinement of `ActiveGeneration`. Each action is a
  step of the register or a stutter, by `StoreInv`.

`CorpusServerProofs` (for any servers, threads, operators, keys and number of
commands, on an ordered journal): `AnswersAreCoherent`, `InstructionsMatch`,
`ModelIsCoherent` and `InterruptedStaysSilent`, and `StoreKeepsPromiseWithServers`,
the refinement of `ActiveGeneration` while servers watch, restart and go down with
the machine. `ServerInv` extends `StoreInv` by `Shared` (a call past its lock has it, so that
no command is in the section that `LOCK` protects), `SeenOne(t)` (what a call
has resolved at each step is the generation of its server, which the pointer
names from `ensure_corpus_generation_unchanged` on), `Bound(s)` (what the seal, the
model and the readiness of a server stand for at each phase of its startup) and
two facts that none of the properties mentions: `TouchedFirst` (a command
about to switch the pointer has touched the generation it switches to, so a seal
on that one that is still intact was made while the pointer already named it) and
`Uninterrupted` (a server sealed on its own generation, of which a call has passed
`ensure_corpus_generation_unchanged`, has not been interrupted). `ModelCoherent` rests on them: model and
tokenizer are loaded without a lock, and only the later comparison with an intact seal
says that the pointer did not go away and come back in between.

`OfficialClientProofs` (for any finite set of threads, ceiling of at least one,
delays, answers, attempts and gets). Of the controller by itself:
`ControllerTypeCorrect`, `InFlightAlwaysBounded`, `LimitAlwaysInRange`,
`NoCreditAcrossCuts` and `WaitersAreWoken`. The inductive invariant
`ControllerInv` is the conjunction of those invariants and
`active <= WorkerCeiling`: the count must be exact for a free permit to mean a
bound on requests, and the range of the limit for the admission to keep it. Of
the client: `ClientUsesController` is the refinement, `ClientSpec =>
ControllerSpec`, step by step, and `ClientKeepsController` carries the properties
of the controller over; `PermitsAlwaysFollowGets` and `NeverTooEarly` are of the
client's own. `ClientInv` adds `Placed(t)` to `ControllerInv`: by the phase of a
get, whether its thread holds a permit, waits or sleeps on the slot. A permit is
finished several steps after it was got, and on each way out of the loop;
`Placed` is why that step is one the controller allows.
`LimitAlwaysInRange` is stated of the invariant and has no run of its own.

Of the browser (for any finite sets of callers, tabs and urls, and any number of
redirects, pauses and gets): `BrowserGivesOwnDocument` (`OwnDocument`: a caller that
is given a document is given one that the redirects of its own url lead to; each
tab is in the pool or in the hands of one caller). A tab comes back with pauses of
the page before, and nothing is known of them: `BrowserInv` says that what a caller
expects, has met as a challenge or answers with lies on the way of its url
(`CallerAt`), so that a pause which is taken for its document is of such a url
whoever caused it; and it counts the tabs (`TabsKept`).

`LocalServerProofs` (for any requests, finite set of workers, channel, shims,
ports and faults): `ShutdownsAreClean`, `OutcomesAreFinal`, `AlwaysOneBackend` and
`ServerLockExcludes`. `ServiceInv` says where each request is (`Channelled`: in the
channel, once; `AtWork`: with one worker) and that a worker which has stopped was told
that the channel is closed and empty (`Drained`); the last part is what lets a drain
that one worker has left in order conclude that the channel is empty, however many
have panicked. `OneOutcome` is the converse for what was accepted: no panic of another
handler takes it out of the channel.
`BackendInv` has `LockHeld` always and `Orderly` while nothing but crashes goes
wrong: what the holder of `SERVER_LOCK` has found out since it took it
(`Finding`: no backend is alive but the one it has started), and what each
backend stands for (`Known`: `http.json` names whatever is alive). `OneBackend` follows from
`Known`; it is not inductive, since the decision to start one is made two probes
before.

The caches of searches, in the same module (for any threads, sources, filters and
size of the cache, and any number of searches, replacements and failures):
`CachesHold` (`CachesSound`: an index that was replaced is hashed before it is
used, or is read by the one search that opened it between its stamp and its
opening; a search fails for a cause that is still there; a filter is loaded once while there
is room, and a thread has the rows of its own; somebody can always go on).
`CacheInv` says what a search has found out about its index at each step
(`IndexHeld`: the stamps it has seen, in their order, and that a seal that still
fits is of the manifest's file), that the check of a source is exclusive, that a
cell is filled by one thread, which is at work (`CellsFilled`), and that an entry
of the cache leads to a cell of its filter (`EntriesOwn`, `NoneEvicted`). That a
filter is loaded once is not inductive: it needs that no entry was evicted as long
as the filters asked for fit in.

The issuer's keys, also there (for any threads, keys, claims and intervals):
`KeysStayRecent`, `WithdrawnKeysEnd` (`WithdrawnKeyEnds`: the key that a token is
accepted with was the issuer's at most `MaximumStale` ago) and
`KeysAlwaysFetched` (`KeysFetched`: at most one request in a `RetryInterval`, by
one thread at a time, and a published key is unknown for less than that unless
another thread is fetching or a fetch has failed). The inductive invariant
`KeyInv` says of every set of keys that a thread goes by that it is recent
enough: the cached one, the one a thread saw before it tried to refresh, the one
fetched and not kept yet; and that whoever fetches or stores holds the refresh
lock. The property of the cache alone is not inductive, as a thread decides by a
set that another has replaced since. `FreshInv` says the converse for the keys
that are published: every set, cached or on its way, misses only keys published
since it was fetched, and as long as no fetch has failed and nobody holds the
lock the next refresh is due a `RetryInterval` after the last set at the latest. The
lock is what that needs: between `Refresh` and `Keep` the next refresh is
already put off and the set is still the old one.

`CorpusBuildProofs` (for any sources and any number of runs, kills and
failures): `BuildAlwaysResumes`. `BuildInv` follows a run: the binding is what the
workspaces were, at most what they are; the rows of a source that this run has
ingested lie between the two, so that the second fingerprint settles that they
are the binding's; the sources that are neither to be ingested nor queued nor in
the thread's hands have vectors of their rows; and each later step adds one of
the facts that a complete output is made of.

The ingestion of a source (for any documents, contents, batch and job sizes and
any number of ingestions and failures): `IngestKeepsSound` (`IngestSound`: whatever
the worker has done when the main thread looks, no job finds the text it encoded in
the cache already; a committed source holds the snapshot and no other document,
each chunk in its place with the vector of its own text). `IngestInv` says of the
tables that their rows belong together (`RowsOwn`), of the chunks without a vector
that each waits in one place, the job that is encoded, a job behind it or the
buffer (`LineSound`), of a job what it lacks and that nobody puts that in the cache
meanwhile (`JobSound`), and how far the tables are between the committed rows and
the snapshot (`RunSound`). The vectors of a commit are complete because the drain
ends with nothing waiting; none of it follows from the properties alone, as a chunk
is written many steps before its vector.

`MaintainerSyncProofs` (for any sources and any number of runs, publications,
kills and failures): `JournalAlwaysTrue`, and from it `AlwaysSyncedTogether`,
`FullRefreshAlwaysAtomic` and `PriorSetAlwaysKept`. `SyncInv` says what the
journal stands for: `Journalled` (the script is in the phase it has written
down), `BuiltFromGoal` (what was built, and what is installed, was made from the
set the run is to end with; the pointer names the generation of before or this
one), `FullRefresh` (the run is on one of the two sides of the exchange,
`Unexchanged` or `Exchanged`, with the prior set at hand on either), `NothingNew`
and `NothingLater`. `SyncedTogether` speaks of the end of a run only; what makes
it true was journalled several phases, and perhaps several invocations, before.

`RenditionProofs` has the choice of a text and what becomes of an office file.

Register (for any finite set of renditions, page size, attempts and faults):
`RenditionIsBestListed` (`BestListed`: nothing that was listed when the acquisition
began is passed over for a lesser kind, or for one that is not authorised, unless
it was tried and given up). In `RenditionInv`, while the listing is paged through, what
is left of it comes after all that was read; a rectification during the paging is
last in the order of the listing, and a page is the first of what is left. Then
each candidate is still to be tried, was given up, or is no better than the one
that is taken. `LeastOf`, the existence of a first in a strict order on a finite
set, is proved by ranks. `RenditionKeys` assumes that two renditions differ in the
place the listing gives them: the code keeps them by these keys.

Courts and States (for each of the adapters and whatever is offered and yielded):
`AdapterTakesBestText` (`TextChosen`: a good text ends the search; OCR only after a
PDF's own text was refused; a document is missing only when nothing was converted).
`AdapterInv` says that what was converted is neither waiting nor counted as not
found, and that no good text has been had while another command is to be run; the
last is why a rendition refused by one command may still be tried with the next.

Office files, whatever they contain: `WordsAlwaysKept` (`WordsKept`, for any nesting
of any length: the HTML has the words of the file, with no space lost between two
and none within one) and `NumbersAlwaysAscend` (`NumbersAscend`, for any styles, numbering
instances and abstract numberings of three levels and any number of paragraphs: of two
numbers of a list the later is the greater). The run checks both as parts of `TextKept`.
`MarkupInv` reads the HTML and the file side by side: the same words so far, and as
far apart since the last letter, once the space that the sink holds back is
counted (`Due`); and away from an edge of a block the sink knows that it has
text, so that it will hold the next space back. What a reader has seen of a text is a
recursive function; that it goes on item by item (`ReadOn`) follows from
`LeastNumber`, with the least item at which two such functions would differ.
`NumberingInv` says of each number shown so far that the counters of its list go on
from it, or are ahead of it at the first level at which they differ
(`Behind`); a level that restarts unsets only what is below the one that counts,
so that this outlasts it. `NumbersAscend` compares the numbers with one another and says
nothing of the counters that the next is made from.

`AcquisitionProofs` has the three kinds of workspace.

Court and State adapters (for any documents, assets, invocations, runs and any
number of kills and failures): `EntriesAlwaysSound`, `CommitsAlwaysWhole` and
`BuildsReadSnapshot`, from `WorkspaceAlwaysSound`. In `WorkspaceInv`, `Locked`
says that who is past the lock holds it and no build reads then, `PlansBehind`
that no plan names what upstream has not published, and `PlanFollowed` how far
the thread of each document has come: which of its files are complete, and that
the entry it will stage carries the label of the plan. An entry is staged several
steps after its files were stored, so that `EntriesLoad` alone is not inductive.

ATO (for any documents, folders, workers, runs, payloads and faults):
`IndexAlwaysKept`, which has both parts, that a verified payload is kept and that
a reported run is whole. `AtoInv` says that what the index vouches for is on disk
and no later than what is published; while the workers run, `OneEach` (no two
have one document), `Keeps` (memory and the record in each worker's hands lose
nothing that the file vouches for) and `Accounted` (each link of the plan is
queued, with one worker, settled, or counted as an error). A line that a
kill cut short, and one that the next run glues to it, take nothing from the lines
before them; that a record of this run may be lost there costs its payload nothing,
since `Rewrite` writes it again from memory.

Federal Register (for any titles, page size, overlap no shorter than the lag,
runs and kills): `InventoryMissesNothing`, `TextsAlwaysAsNamed` and
`PlansAlwaysReconcile`. In `FrlInv`, `Lasting` holds between the steps of a scan: a
version that the inventory or a plan that is not stale stands for is `Covered` on the
day of the cursor, that is, current, late, or registered so recently that the
next scan reads it again. `Underway` says how this comes about: while pages are
read (`Paging`), each current version was seen, is too old to be read, or lies
after the last cursor or within the overlap, whatever the register does between
two pages; when no page is left (`Resolving`) the alternative of lying ahead is
gone; and each title is settled from what was seen, looked up or kept
(`PlannedVersion`). `NothingMissed` speaks of the next scan only; it takes all of
this to carry it across one. A page is the first rows of a finite order and the
cursor it leaves the greatest: the lemmas `GreatestExists` and `FirstAreAll` prove
that those exist, by ranks, since induction over the rows is not to be had.
`FrlInv` was checked by TLC on the instance of `Acquisition` before it was proved.

The constants' assumptions are those that the modules name (`StoreConstants`,
`ServerConstants`, `ControllerConstants`, `ClientConstants`, `ServiceConstants`,
`BackendConstants`, `CacheConstants`, `KeyConstants`, `BuildConstants`,
`IngestConstants`, `SyncConstants`, `WorkspaceConstants`, `FrlConstants`,
`AtoConstants`, `BrowserConstants`, `RenditionConstants`, `RenditionKeys`,
`AdapterConstants`, `MarkupConstants`, `NumberingConstants`), and TLC evaluates them in
each run. They bound nothing: what they ask is that a workspace, a pool, a
channel, a cache, a page or a batch has a place at all, that a document's chunks
are a sequence, that a delay exists, that the lag of the register is
within the overlap the code reads again, and that values standing for "none" are
apart from the others. `NoneApart`, `NothingApart`, `Apart`, `AbsentApart` and
`NowhereApart` say the last where types are needed to state it; `Apart` also
that an asset is not the text of a document and that there is at least one version.

Only model-checked:

- all liveness (`CommandsReturn`, `CommandsCompleteOrStrand`, `GetsReturn`,
  `ServiceGoesOn`, `ShimsSettle`): no proof rule for fairness is used here;
- `CallsProceed`, which is about `ENABLED`;
- `TextKept` as to blocks and chunks, and `ListsComplete` (inventories of courts,
  pages of a document, scans of vectors, rankings). Their definitions fold over
  their data, or recurse over it in operators, which the provers cannot do induction over.

## 7. Not modelled

- One invocation of `source-update` over several sources only runs independent
  copies of `SourceWorkspace`; its shared controllers are those of `OfficialClient`.
- The requests of `main.rs` between the service and a tool call: validation of
  arguments, sessions, formatting. Its tools other than search and `get_chunks`:
  definitions, citations, title hits and fetches are single queries.
- Power loss in a workspace, a build's output and the ATO store: the code relies
  on the order of the journal there, as in the lifecycle.
- The ingestion throttles its queue once per batch and not once per document
  (`pipeline.rs` 392); the memory this takes has no bound in the model either.
  An ingestion that replaces some documents of a source leaves holes in the
  chunk ids that the vector index refuses (`ann.rs` 711); a build ingests each
  source into an empty one, or finds it unchanged.
- Cleaning of pages, extraction of definitions, currency and titles,
  tokenisation, the kernels of embedding and scoring and the index formats:
  functions of large data without an order of events; tests with samples serve
  them better. Parsing of listings and files is a choice among outcomes.
- `crates/legal-model` and `crates/legal-source-sdk`: types with validating
  constructors, no state.
- The hosting shell: its state lies in the container runtime and systemd, which
  would have to be modelled from outside; planned last.
- Continuous integration and release scripts: configuration.
