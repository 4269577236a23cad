# unstash: a TLA+ model of the backend

unstash stores an organisation's documents, makes their text searchable, and
groups them into clusters. This directory holds TLA+ modules written from the
source under `src/backend/src/unstash`, the migrations and the deploy workflow,
the TLC configurations that check them on small instances, and proofs that
TLAPS checks for every value of the constants. Paths below are relative to
`src/backend/src/unstash` unless they start with `docs/`, `alembic/` (in
`src/backend`) or `src/`.

## 1. The system

| Part | State it keeps | Operations | Module |
|---|---|---|---|
| upload API (`documents/router.py`, `storage.py`) | the transaction of one request; files on disk | `upload_document`, reading | `Ingestion` |
| task queue (`tasks/broker.py`) | a Redis list of messages | `kiq` (push), pop | `Ingestion`, `Clustering` |
| ingestion worker (`tasks/ingest.py`, `tasks/context.py`) | the transaction of each running task | `ingest_document`, `embed_document` | `Ingestion` |
| parsing (`documents/parser.py`, `conversion.py`, `ocr.py`, `strategy.py`) | none | bytes to chunks, through external services | `Pipeline` |
| metadata (`documents/metadata.py`, `ner.py`, `inference/hf_ner.py`) | `document_metadata` | dates, entities | `Metadata`, `Pipeline` |
| inference clients (`inference/jina.py`, `hf_ner.py`) | none | HTTP calls with retries | `Pipeline` |
| clustering (`clustering/service.py`, `router.py`, `tasks/cluster.py`) | `clustering_runs`, `clusters`, `documents.cluster_id` | trigger, run, manual request | `Clustering` |
| labels (`clustering/labeler.py`, `llm/calls.py`) | labels of clusters, `llm_calls` | one LLM call per cluster | `Clustering` |
| search (`search/service.py`, `search/router.py`) | `search_logs`: what was shown, what was clicked | two legs, fusion, reranking, explanation; `report_click` | `Search`, `Publication`; the date filter in `Metadata` |
| authentication and tenancy (`auth/`, `orgs/`, `db/session.py`, `db/engine.py`) | sessions, tokens, memberships; the settings of pooled connections | login, tokens, organisation and user context | `Access` |
| admin API (`admin/router.py`) | users, memberships, tokens | single-transaction writes | `Access` |
| login rate limit (`ratelimit.py`, `main.py`) | a counter in Redis | INCR, EXPIRE | `RateLimit` |
| migrations (`alembic/versions`, `src/docker/init-db.sh`) | the schema | 18 scripts, up and down | `Schema` |
| deployment (`src/.github/workflows/deploy.yaml`, `src/compose*.yaml`), startup checks | which code runs on which schema | deploy, migrate by hand, restart | `Deployment` |
| connectors | a table nobody writes yet | none | not modelled |
| frontend, evaluation scripts, logging | none of the above | | not modelled |

What is hard about it, and what makes each part correct:

* **Upload.** One request spans a database transaction, a file and a message,
  and only the first of the three is rolled back. The message is sent *before*
  the commit, so a task may look for rows that are not there yet or never will
  be. Correct: every committed document has its file; a turned-away request
  leaves neither file nor message; a document is never worked on by two tasks.
* **Ingestion.** Two chained tasks read rows without a lock and write them a
  parse later. Each has a try block that covers only part of it. Correct: what
  search may return is whole; the job a client polls agrees with the document;
  everything accepted settles.
* **The file's way.** A file passes up to four external services, each of which
  may fail in several ways, and is parsed once or twice. Correct: no scan is
  indexed as an empty document; the provenance names who saw the file; a
  failing tagger costs the metadata and never the document.
* **Queue.** A popped message is gone, whatever becomes of the worker.
* **Clustering.** A run is three transactions with a long computation outside
  them, then one paid call per cluster; completions decide about runs in
  transactions that do not see each other. Correct: assignments are never a
  mixture of runs; ended runs are final; every run ends; spend is on record.
* **Search.** Two statements that see different commits are merged into one
  ranking, and the BM25 leg, the reranker and the click log may each fail
  alone. Correct: fusion does not contradict the legs where they agree; a
  missing leg or reranker changes the order at most; the log says what was
  shown, and an explanation accounts for what was lost.
* **Access.** Row-level security reads settings of a connection that served
  somebody else before; what a request has read changes under it; each request
  may need two connections of one pool. Correct: who works in an organisation
  is its member; nobody sees foreign rows; nobody waits for ever.
* **Rate limit.** INCR and EXPIRE are two calls. Correct: the limit holds under
  concurrency; a refused client gets in again later.
* **Deployment.** Migrations run while the old code serves; deploys may overlap,
  fail half-way or be taken back by hand. Correct: code that runs has a schema
  it runs on; every schema isolates the organisations; every script applies.

`PROJECT.json` lists every component with its status, and every hazard at the
line where it bites.

## 2. Modules

| Module | What it is |
|---|---|
| `Ingestion` | upload handler, queue, worker, operator; the properties and the inductive invariant |
| `Publication` | abstract specification: what search may see of a document |
| `IngestionProofs` | `IInv` is inductive; the safety properties and the refinement follow; no work is done twice |
| `Clustering`, `ClusteringProofs` | trigger decision, queue, runs, labels, manual request, crashes; its invariant and proofs |
| `Search`, `SearchProofs` | one search, its degraded paths, its log row, its explanation and the clicks on it; proofs about the ranking and the log |
| `Metadata` | pure operators: the dates and entities of a text, the date filter |
| `Pipeline`, `PipelineProofs` | one file from its routing to its embeddings, with the services it calls; proofs about scans, provenance, retries, vectors, metadata, the search by date and the end of the task |
| `Access`, `AccessProofs` | requests, connections, credentials, the administrator; its invariant and proofs |
| `RateLimit`, `RateLimitProofs` | the attempts of one client; its invariant and proofs |
| `Schema` | the migrations as sequences of statements on a set of objects |
| `Deployment`, `DeploymentProofs` | deploys, alembic's transaction, containers, an operator, over `Schema`; proofs about the scripts and about every schema there is |
| `OrderTheorems` | ranking a finite set by a strict order, induction, and measures that cannot descend forever, as the proofs need them |
| `MC...` | values of the constants for TLC |

How they fit together:

* `Ingestion` contains `Promise == INSTANCE Publication WITH ...` and promises
  `Promise!Spec`.
* `Ingestion` takes a parse to be a number of chunks or a failure; `Pipeline`
  opens that step: `Route` to `CommitParsed` are one `CommitParsed` of
  `Ingestion`, `ProcessorFails`, `DoclingRaises` and the rest its `FailIngest`.
  `Pipeline` in turn leaves crashes, retries and transactions to `Ingestion`.
* `Clustering` models the last transaction of `embed_document` again, in the
  detail clustering needs (which document was flushed, what the trigger
  answered); `Ingestion` leaves the trigger's answer open (`due`).
* `Pipeline` extends `Metadata`; `Deployment` extends `Schema`.
* `PublishDocument` of `Search` is `CommitIndexed` of `Ingestion`.

### Ingestion: state and code

Committed rows are the variables `status` (`documents.status`), `job`
(`job_progress.status`), `chunks` and `embedded` (rows of `chunks`, those with
an embedding). What the operator has seen stuck and not yet set failed is
`condemned`, what has been set failed by hand `abandoned` (the row's
`parsing_error` says so until the task's own failure overwrites it). What a transaction has flushed and not committed nobody else can
see, so it is kept with its actor: in `request[u]` for an upload and in
`slot[s]` for a task. `files` is the storage directory, `queue[t][u]` the number
of messages, `clustering` the completions that queued a run.

| Action | Code |
|---|---|
| `EnforceDailyUploadLimit`, `WriteUploadedFile`, `Deduplicate`, `InsertRows`, `EnqueueIngest` | the steps of `upload_document`, in its order |
| `CommitUpload`, `UploadAborts` | the two exits of `get_org_context` |
| `StartTask` | the broker pops a message |
| `LoadMiss`, `GiveUp`, `MarkParsing` | `_load_targets` and the head of `ingest_document` |
| `CommitParsed`, `FailIngest`, `RefusedByDatabase` | the three ways the parse transaction ends |
| `EnqueueEmbed` | `embed_document.kiq` after that commit |
| `LoadPendingChunks`, `EmbedBatch`, `FailEmbed`, `MarkIndexed`, `CommitIndexed`, `EnqueueClustering` | `embed_document` |
| `TaskAborts`, `WorkerCrash` | an exception outside the try blocks; the process dies |
| `LookAtStuck`, `AbandonStuck` | the look at the stuck documents and the UPDATE in `docs/runbooks/document-ingestion.md`: two steps, and the UPDATE names the id only |

Three details of the code matter more than they look:

* `job_progress.task_id` is unique and every upload flushes the same
  placeholder, so from the flush to the end of its transaction an upload keeps
  others from flushing theirs (`HoldsPlaceholder`).
* `status = 'running'` and `status = 'parsing'` are only flushed; a reader sees
  them with the commit of the parse at the earliest. `parsing` is never
  committed (part of `RowsConsistent`).
* `_extract_metadata` swallows a database error, after which the transaction is
  unusable and the next statement raises outside the try block: the rows roll
  back and the document stays `pending` (`RefusedByDatabase`).

### Pipeline and Metadata: state and code

`upload` is the stored file (its type, and whether it is over the external
limit), `backends` the OCR and entity settings, `reading` the file the parser
is given (the original, the converted PDF or the OCR text), `native` what the
parser made of the original and `parsed` the parse whose chunks are kept.
`document` is the status and `pipeline_version`, `rows[i]` the chunk whose
vector row `i` has, `metadata` the `document_metadata` row with the text it was
read from, `call` the attempts and the time waited in the call under way,
`sent` the processors that were sent the file, `asked` the last search by date.

| Action | Code |
|---|---|
| `Route` | `select_strategy` and the head of `_run_parse` |
| `ConvertToPdf`, `OcrPdfToMarkdown`, `ProcessorFails` | `documents/conversion.py`, `documents/ocr.py` |
| `DoclingParse`, `DoclingRaises`, `OcrIfScanned` | `documents/parser.py`, `_ocr_if_scanned` |
| `PersistChunks` | `_persist_chunks` |
| `ExtractLocally`, `AskEndpoint`, `TagAgain`, `Tag`, `TaggingFails`, `TaggerUnusable` | `_extract_metadata`, the local tagger and `HfNerClient` |
| `EmbedBatch`, `EmbedAgain`, `EmbedFails`, `MarkIndexed` | `embed_document` and `JinaEmbedder` |
| `SearchByDate` | `_DATE_FILTER` in the vector leg |

`Metadata` has `ExtractDates` (four expressions in the code's order, spans
claimed by earlier matches, dates that repeat), `EntitiesFromTagged`, and
`DateFilter`, which is a set of answers, since `EXISTS` reads the dates in an
order of the planner's choice and the cast raises at one the calendar does not have.

### Clustering: state and code

`indexed` is the set of committed indexed documents, `completion[d]` how far the
embed task of `d` has come and what `pending_trigger` answered, `runs` the rows
of `clustering_runs` in commit order with `created` for `created_at` (the start
of the transaction, hence `clock`), `worker[w]` a running
`execute_clustering` with the results of its LLM calls, `labels[r]` what is on
record of them, `assigned[d]` the run whose cluster `documents.cluster_id`
names. Actions: `FlushIndexed`, `CommitIndexed`, `EnqueueClustering`
(`embed_document`), `Recluster` (the route), `LoadCorpus`, `RecordRun`,
`FailEngine`, `PersistOutcome`, `LabelCluster`, `WriteLabels`, `LabelerRaises`
(`execute_clustering`), and the faults. The engine is `ClusterDocuments`: any
number of clusters over any part of the corpus that respects the smallest
cluster size.

### Search: state and code

`indexed` is the set of committed indexed documents among those that pass the
filters of the request, and grows while the search runs. `search` holds the
local variables of the handler: `vector` and `bm25` (the rows of the legs as
rankings of chunks), `bm25Used`, `hits`, `reranked` and `row`, the flushed log
row. `shown` is the response, `log` the committed row of `search_logs`,
`click[k]` a request to `report_click`.

| Action | Code |
|---|---|
| `EmbedQuery`, `EmbedFails` | the embed call at the head of `run_search`; 503 |
| `VectorLeg` | `_vector_sql`: as many chunks as there are, up to the pool |
| `Bm25Leg`, `Bm25LegFails` | `_bm25_sql` inside its savepoint |
| `Rerank`, `RerankFails` | fusion (`fuse_rrf`), best chunk per document (`Candidates`), the reranker and its two outcomes |
| `Provenance`, `DocumentRank` (operators) | `_build_explain`, `_document_ranks` |
| `InsertLog`, `Respond`, `CommitSearch`, `SearchAborts` | the route and the exits of `get_org_context` |
| `ReadRow`, `CommitClick` | `report_click`, split where it has read the row and not yet written it |
| `PublishDocument` | `CommitIndexed` of `Ingestion` |

Each leg is a statement with its own snapshot (READ COMMITTED), so a document
committed between them is in the second only. The response leaves before
`get_org_context` commits: a click may come before its row, and gets a 404.
Scores are exact: instead of floats they are integers in units of one over a
common multiple of the denominators (`Unit`).

### Access: state and code

`users`, `members`, `sessions` and `tokens` are the rows, `request[r]` what a
request has read so far and the one or two connections it holds, `setting[c]`
the two settings row-level security reads on connection `c`.

| Action | Code |
|---|---|
| `ArriveLogin`, `Authenticate`, `WriteSession`, `SessionEnds` | `auth/`: login and its session |
| `ResolveCookie`, `ResolveToken`, `TouchToken` | `current_user_or_token` in `auth/dependencies.py`, `last_used_at` included |
| `OpenOrgContext`, `CheckMembership`, `OpenUserContext`, `Finish` | `orgs/dependencies.py` |
| `PoolTimeout` | `db/engine.py`: no connection in time |
| `CreateUser`, `DeleteUser`, `AddMembership`, `RemoveMembership`, `CreateApiToken`, `RevokeApiToken` | `admin/router.py` |

The query that checks a membership names the user only; which organisation it
is about is decided by the policies, that is by `setting` (`VisibleMembers`).

### RateLimit: state and code

`hits` and `expiring` are the Redis key and whether it has an expiry,
`attempt[a]` a login under way, `passed` counts what was let through since the
key was made. `Incr` and `Expire` are two steps; `RedisFails` fails either,
with or without its effect, `Crash` ends all attempts, `WindowEnds` drops the key.

### Schema and Deployment: state and code

A schema is a set of objects (tables, later columns, references, indexes,
policies, grants, roles); a script is a sequence of statements that `Run`
executes or refuses. `database` is the committed schema and revision,
`runner[r]` a deploy or the operator's shell with its open transaction, `api`
and `worker` the code of the containers, `downgraded` whether somebody took the
schema back.

| Action | Code |
|---|---|
| `StartDeploy`, `Up` | `deploy.yaml` |
| `StartByHand`, `CreateAdminRole` | `docs/runbooks/manual-database-migration.md`, `init-db.sh` |
| `Begin`, `RunScript`, `Commit`, `Abort` | alembic as `alembic/env.py` runs it: one transaction around all scripts |
| `StartServing`, `Restart` | `main.py`, `startup_checks.py`, the restart policy |

## 3. Runs

Twelve runs. The first eight must pass; in the others TLC finds what is
described in section 5.

| Run | Instance | Question |
|---|---|---|
| `ingestion_core` | 4 uploads (a report twice, a file whose rows are refused, an oversized one), limit 2, 2 slots, 1 fault, an operator who may take two of the uploads to be stuck | do the safety properties, `IInv` and the refinement hold in every interleaving? |
| `ingestion_live` | 3 uploads, 2 slots, no fault, commits within the retry window | does everything accepted settle, and is nothing stranded? |
| `clustering_core` | 2 documents, 2 tasks, 1 manual request, up to 2 clusters and 1 call, 1 fault | are assignments from one run, ended runs final, calls on record, and does every run end? |
| `search_core` | 4 documents, 5 chunks (one document has two), pool of 2, 2 clicks | for every pair of rankings, whatever fails: do ranking, degradation, explanation and log keep their promises? |
| `documents_core` | every type of file and setting, 3 chunks, 2 pages, the configured 3 and 15 retries | whatever the services answer: are scans read, metadata right, vectors paired, and does every file settle? |
| `access_core` | 2 users, 2 organisations, 1 token, 2 requests on 2 connections, 2 changes of memberships | who gets to work where, on what connection, and is anybody stuck? |
| `login_limit` | 3 attempts, limit 2, 1 fault | does the limit hold, and end? |
| `deployment_core` | 2 deploys of versions 14 and 18, an operator, a new and a legacy database | does running code have its schema, through every order of steps? |

What the properties say:

* `OneTaskPerDocument`: counting messages and tasks, a document never has two,
  through retries, rollbacks, crashes and the operator. The tasks read a row
  with a plain `session.get` and write it much later, so everything else rests
  on this.
* `SearchableIsComplete`, `EmbedReadsAllChunks`: an indexed document has all
  chunks of its content, each embedded, although parse and embed are two tasks
  and a failed embed commits the batches before it.
* `JobAgrees`: succeeded exactly when indexed, unless the operator has set the
  indexed document failed; failed only when the document failed and no task
  will touch it.
* `FilesMatchRows`: a committed document has its file, a turned-away request
  leaves nothing. (An *aborted* request may leave a file and a message; that is
  how the code is, and the message finds no rows.)
* `IInv`: the inductive invariant of section 7; part of it is
  `ClusteringSeesDocument`: clustering is queued only for committed completions,
  which stay indexed unless the operator takes them back.
* `ImplementsPublication`: documents become searchable in one step, whole, at
  most once, and their searchable text never changes; only an operator who
  doubted one before it was searchable, and acts on it later, takes it back.
* `UnfinishedHasWork`, `AcceptedSettles`: without faults, whatever is not
  terminal has a message or a task; every accepted upload reaches a terminal
  state, and so does its job.
* `AssignmentsFromOneRun`: however runs overlap, the assignments a reader sees
  come from one succeeded run and name indexed documents only.
* `RunsAreFinal`: an ended run never changes, nor does the count and creation
  time of any run (the reference point of the next doubling).
* `RunningHasWorker`, `RunsEnd`: without faults no error path leaves a run
  `running`, and the queue of runs is always drained again. Both are about the
  behaviours, or the part of a behaviour, before the first fault; with one, see
  `crashed_run_blocks`.
* `CallsAudited`: calls are capped; a cluster has an LLM label exactly when an
  `llm_calls` row says so, and a task that ended without a fault left a row for
  every call it sent, the failed ones included.
* `FusionRespectsLegs`: a chunk that is ahead of another in every leg that
  returned the other never ends up behind it, also after the reduction to one
  chunk per document.
* `DegradesToVectorOrder`: without the BM25 leg the documents come in the order
  in which the vector leg first met them, which says that summing, sorting and
  reducing do not disturb a single ranking.
* `RerankNeverGates`: with or without a reranker as many documents are answered,
  each once and by its best chunk; without it in fused order.
* `ExplainAccounts`: an explanation loses nobody: what is in no leg's pool is
  what is missing from the candidates, and only the reranker moves a hit.
* `LogMatchesResponse`: the committed row is what was shown, in that order, and
  each click in it has the position its document was shown at, whatever the
  order in which response, commit and clicks happen.
* `ScansAreRead`: a scan was read by OCR or failed, and no other PDF was sent.
* `ProvenanceIsComplete`: an accepted document was sent to exactly the processor
  its `pipeline_version` names; no file over the limit left the house.
* `MetadataListsOnce`: a date is listed once, and a bare month only if the text
  has one.
* `FoundByItsDates`: a search by date that answers finds a document exactly if a
  reader finds a date of the range in its text. The reader's dates (`TextDates`)
  are defined without the expressions, spans and repetitions of the code.
* `VectorsMatchChunks`: each chunk has the vector of its own text.
* `GivesUpLast`: a failing tagger never fails the document, and a transient
  answer alone makes nobody give up before the pauses the comments promise are
  over.
* `Settles`: every file ends indexed or failed.
* `EntersAsMember`, `ReadsOwnRowsOnly`, `ScopeHolds`: who gets to work in an
  organisation is its member at that moment; it sees that organisation's rows
  only; a scoped token opens no other.
* `RevocationSticks`: a late write of `last_used_at` revives no token.
* `NobodyIsStuck`: with as many requests as connections, all of them waiting
  for a second one, each can still go on, because the pool's timeout fails one.
* `WithinLimit`, `LoginReopens`: the limit holds per window under concurrency;
  without a fault a refused client gets in again.
* `TenantsIsolated`, `RolesReachTables`: every schema a migration commits has
  row-level security on every tenant table, and grants on every table.
* `HistoryIndependent`: whatever mix of upgrades, downgrades and
  aborts led there, a revision has one schema, and its scripts apply to it.
* `RunningCodeHasSchema`: until somebody takes the schema back, the API that
  serves and the worker run on a schema that has what they name.

`TypeOK` is checked where a proof rests on it or where it says something about
two pieces of state: `Ingestion`, `Clustering` and `Access`; `RateLimit`'s is
proved only.

Every property has a mutant in `PROJECT.json`: an operator next to the action it
changes (its comment begins with "Mutant:"), under which TLC finds the property violated.

## 4. Bounds, and why they suffice

* `MaxFaults` counts crashes and aborted tasks. One fault at any point of two
  concurrent tasks is every single-failure schedule; after a fault a task is
  simply gone, so a second fault finds states that uploads with one fault and a
  rolled-back request already produce. The proofs have no such bound.
* `Suspects` are the uploads the operator may take to be stuck: in
  `ingestion_core` one of the two reports and the file whose rows are refused
  (the one that really is stuck), and none in the other two runs, where nobody intervenes. Each is looked
  at and abandoned any number of times. The proofs have no such bound.
* `TargetReads` is 2 instead of 7: one miss followed by a hit, and a miss on the
  last look, are the two cases of the loop.
* `BatchSize` 2 with three chunks: a full batch, a short last batch, and a
  failure between the two, in `Ingestion` and in `Pipeline`, where every order
  of the provider's answer is tried. Content without chunks is covered by the
  image in `ingestion_live` and by any type in `documents_core`.
* Two slots and two uploads of one file: the smallest instance where tasks and
  duplicates race. The other two uploads add the failing paths without adding
  orders among themselves.
* Clustering: minimums of 1 instead of the configured values make threshold and
  doubling reachable with two documents: a run over one, then a completion that
  doubles. `MaxRequests` is 1: a manual request next to the automatic runs; the
  two tasks may then overlap in every way, labelling included. Two clusters with
  one call allowed is a run over its cap. Documents without chunks
  (`Chunkless`) only change numbers and are left to the proofs.
* Search: five chunks in four documents with a pool of 2 per leg give every
  overlap of the legs; up to four candidates, of which three are reranked and
  two answered, so that both cuts happen. `K` and `VectorWeight` are the
  configured 20 and 3. Two clicks are what it takes to lose one. Searches share
  no row, so one search is enough. The other limits are named constants.
* `documents_core`: the texts make dates repeat, overlap (a bare month at the
  end of a full date) and be invalid; the ranges end on a date, lie between two,
  and hold the first of a month only. Retry counts are the configured ones.
* Access: with two requests on two connections each can hold one and want a
  second; a connection is reused by the other user. One scoped token; an
  unscoped one takes the path of a cookie after its resolution.
* RateLimit: three attempts against a limit of two: one opens the window, one
  passes, one is over.
* Deployment: versions 14 and 18 lie before and after the scripts that change
  tables older code uses (0015 to 0017); an operator goes back to 0 and to 10,
  that is through every downgrade. Two deploys overlap.
* Slots, workers, deploys, requests and connections are interchangeable and no
  action names one, so the runs without liveness use symmetry over them.

Deadlock checking is off where the system rests: when every request is answered
and the queue is empty, or the file is settled. It is on for `access_core`,
`deployment_core` and `login_limit`.

## 5. Where the code and its own words disagree

Each of these has a run in which TLC must find the violation.

| Run | Said | Done |
|---|---|---|
| `crash_loses_task` | the runbook: tasks are at-least-once, an interrupted parse re-runs | a popped message is lost with its worker (`tasks/broker.py:37`) |
| `crashed_run_blocks` | `clustering/service.py:9`: a later run supersedes a crashed one | a run orphaned by a crash refuses every later one |
| `login_lockout` | `ratelimit.py:8`: a Redis outage must not lock users out of login | a failure between INCR and EXPIRE leaves a counter that never expires |
| `unreal_dates` | `search/service.py:163`: the date filter matches documents with a date in the range | a stored date like 31 February makes the cast raise, and every search by date that reads it fails |

Seen while modelling. The actions are in the modules and TLC reaches each of
these, but they have no run of their own:

* Ingestion: a database error while chunks are written leaves the document
  `pending` for good (`tasks/ingest.py:543`), though `tasks/ingest.py:16` says
  an uncaught exception moves it to failed; two concurrent uploads of a file are
  both ingested (`documents/router.py:83` says they are not); concurrent uploads
  exceed the daily limit together (`documents/router.py:54` counts committed
  rows); at the limit a duplicate is answered 429, while the runbook lists the
  duplicate check first; a failed job goes from `queued` to `failed` without
  `running` ever having been committed. The runbook calls indexed and failed
  terminal, but its own UPDATE for stuck documents names the id only
  (`docs/runbooks/document-ingestion.md:73`): when the task commits between the
  operator's look and the UPDATE, or holds the row while the UPDATE waits, an
  indexed document becomes failed, leaves the search results, and its job stays
  succeeded (`Retract` in `Publication`; with `AND status <> 'indexed'` it would
  not); and a document set failed by hand is revived when its task goes on.
* Clustering: the older of two overlapping runs may persist last, though
  `db/models/document.py:116` speaks of the latest run; `clustering/router.py:39`
  then lists the clusters of the run created last, and no document is in them; two completions at the
  threshold each miss the other's document (`config.py:185`); tasks queued
  before the first run is recorded all record theirs, although
  `clustering/service.py:102` says runs do not stack; documents without chunks
  count for the doubling (`:118`) and not for its reference point (`:230`); an
  answer of the provider without choices is an `IndexError` and not a
  `LabelError`, which loses the labels and audit rows of the whole run
  (`LabelerRaises`), although `clustering/service.py:343` says a failed call
  still gets its row.
* Search: two clicks that read the row before either writes it leave one
  (`search/router.py:172` says clicks accumulate), and after A, concurrently B,
  and A again `clicked_document_id` may name a document that is not in the list;
  a click that is faster than the commit of its search is answered 404
  (`search/router.py:136`); `HitProvenance` speaks of the document's best chunk,
  the ranks are those of its first chunk per leg.
* Pipeline: a failing entity endpoint also loses the dates and amounts that were
  found, because the row is not written; `tasks/ingest.py:517` mentions a
  backfill, and no such task exists; OCR text, converted PDFs and text files are
  not measured for text, so Markdown with images only is indexed empty; the
  retries of the entity endpoint (about 331 s) hold the parse transaction open.
* Access: when the write of `last_used_at` fails, because the token has been
  deleted meanwhile or the commit does not succeed, the exception is suppressed
  so that it "must not break the request" (`auth/dependencies.py:91`); but the
  rollback has expired the loaded user, whose next use raises, and the request
  ends with 500 (`TouchToken`). A cookie request keeps its authentication's connection while it waits
  for its context's; under load only `pool_timeout` (30 s) breaks the wait.
* RateLimit: the docstring at `ratelimit.py:40` says the window slides forward
  only when traffic stops; it is fixed from the first hit.
* Deployment: the runbook has each migration in a transaction of its own
  (`docs/runbooks/manual-database-migration.md:110`), alembic has one around all
  of them; re-running the workflow with an older tag is no rollback once a
  migration has run (`docs/adr/0002`, line 64), because the older scripts do not
  know the revision; the older of two overlapping deploys may bring up code that
  then refuses to start.

## 6. Fairness

`Ingestion!Fairness` is weak fairness of each upload's handler once it is
admitted and of each slot of the worker: uvicorn and taskiq run event loops that
resume whatever can go on. Nothing makes a request arrive, an upload abort, a
fault happen or an operator act. `CommitWithinRetries` states the assumption the
code's retry window (7 looks, about three seconds) relies on; it is TRUE only in
`ingestion_live`, where it is what keeps an accepted upload from being stranded.
`Clustering!Fairness` is the same for completions that have flushed and for
clustering tasks. `EagerSpec` adds that somebody asks for a recluster whenever
the API would accept it; it strengthens the claim of `crashed_run_blocks`: even
then nothing supersedes the orphan.
`Pipeline` has weak fairness of the task's own steps: each is the worker's, or
an answer that the client's timeout forces. No service has to succeed.
`RateLimit!Fairness` lets arrived attempts go on and Redis drop keys whose time
is up; nobody has to arrive.
`Search`, `Access` and `Deployment` have safety properties only and no fairness.

## 7. Proofs

Every theorem is about all values of the constants, from the named assumptions
on them, which TLC evaluates in every run. Where a theorem needs more it says so
in its `ASSUME`.

| Module | Proved |
|---|---|
| `IngestionProofs` | `TypeOK`, `OneTaskPerDocument`, `SearchableIsComplete`, `EmbedReadsAllChunks`, `JobAgrees`, `FilesMatchRows`, `ClusteringSeesDocument`, `UnfinishedHasWork`, `Refinement`: `Spec => Promise!Spec`, and `NothingGoesBack` |
| `ClusteringProofs` | `TypeOK`, `AssignmentsFromOneRun`, `RunningHasWorker`, `CallsAudited`, `RunsAreFinal`, `OneRunEach`, `TasksEnd` |
| `AccessProofs` | `TypeOK`, `ReadsOwnRowsOnly`, `ScopeHolds`, `EntersAsMember`, `RevocationSticks`, `RequestsEnd` |
| `RateLimitProofs` | `TypeOK`, `WithinLimit`, `CounterExpires`, `LimitIsUsed` |
| `PipelineProofs` | `ScansAreRead`, `ProvenanceIsComplete`, `GivesUpLast`, `VectorsMatchChunks`, `MetadataListsOnce`, `FoundByItsDates`, `TaskEnds`, `TaskSettles` |
| `SearchProofs` | `LogMatchesResponse`, `FusionRespectsLegs`, `DegradesToVectorOrder`, `RerankNeverGates`, `ExplainAccounts` |
| `DeploymentProofs` | `TenantsIsolated`, `RolesReachTables`, `HistoryIndependent`, `RunningCodeHasSchema` |
| `OrderTheorems` | a finite set has exactly one ranking by a strict order; induction over a set of numbers; `NoEndlessDescent` |

**Ingestion.** The safety properties are not inductive, because what a task will
write depends on what the rows were when its message was sent. `IInv` adds that
connection. `OneTaskPerDocument` gives a task its document to itself;
`RequestsConsistent` says in which order file, message and rows appear, so that
no message exists before its request has sent one; `TasksConsistent` says what
the rows look like while an ingest task (`Unparsed`) or an embed task (`Parsed`)
is due or running, so that `CommitParsed` writes chunks where there were none and
`CommitIndexed` finds exactly those; `RowsConsistent` says what the rows say once
no task is left. There is one lemma per action (`Keeps...`), and in it one step
per conjunct; `RunningTask` (a running task is alone with its document) and
`Undisturbed` (other tasks keep their part) carry most of them.
For the refinement, every action of the program but `CommitUpload` and `CommitIndexed` is a
stutter of `Publication`. `FailEmbed` needs the invariant: it changes `embedded`
of a document that is not indexed. The operator's two steps are
steps of `Publication` too: `LookAtStuck` is `Doubt`; `AbandonStuck` is `Abandon`
while the document is not searchable and `Retract` when it is, and that a job that
has succeeded never has a task again (`RowsConsistent`) is why what was retracted stays so.
`WorkRemains` says what can end the work on an unfinished document: a fault, a
content the database refuses, or a commit later than the retries of the worker.
`UnfinishedIsWorkedOn` states `UnfinishedHasWork` for the instances without these
three, which are those `ingestion_live` checks.
`NothingGoesBack` measures what is left for a document: the steps its request, its
message or its task still has (`TaskSteps`), the looks for its rows or the batches
left in one of them (`Repeats`), and a transaction that may stay open beside its
task (`Open`). No step raises the measure of any document, faults and the operator
included, and every step but the operator's two lowers one. This is at-most-once
delivery put positively: no work is ever done twice, which is also why a lost task
is lost for good (section 5).

**Clustering.** Three properties speak of a run and its task, so `IInv` ties them
together: a run has at most one task (`OneTaskPerRun`; a new run's index is one
no task has), a task's corpus is indexed and stays so, a computing task's run is
running and a labelling task's is not (`TaskConsistent`), and nothing is on
record of a run's calls while it has a task (`NothingWritten`), so that the
results written last are the calls that were sent. `PersistOutcome` replaces all
assignments at once, which is why overlapping runs never mix.
`EndedRunsStay` follows because only the one task of a run writes its row.
`OneRunEach` keeps an account (`Accounted`): runs recorded, tasks about to record
one and queued messages are together no more than completions that are over and
requests that were accepted. So duplicate runs are limited to one per completion
even though completions that overlap may each queue one, and the runs
`OrphanSuperseded` ranges over are all there can be. `TasksEnd` counts the steps and
calls a task has before it: each of its steps lowers the number, another
task's leaves it alone, because a run has one task and only that task sets how many
calls it has.

**Access.** `IInv` says that a connection's settings are `Unset` unless a
request's transaction works on it, and then are those of that request's context;
that no connection is two requests' (`PoolConsistent`); and that a token's scope
is in the request from `touch` on (`Consistent`). `AnswerIInv` and `ProceedIInv`
cover what a step of a request may do to the pool, so that the other requests
are dealt with once (`OthersConsistent`). `EntersAsMember` then follows from the
one action that can enter: the row it counts is of its user by the query and of
its organisation by the policy, because the second policy, of the caller's own
rows, is for a setting that is NULL there. `RequestsEnd` is what `NobodyIsStuck` leaves
open: a request is moved by nobody else and needs at most five steps.

**RateLimit.** An attempt that opened a window holds a place in it. While one is
opening, the key has no expiry, so no second window and no second opener can be.
Without a failed call, a key that has a count has its expiry or somebody about to set
it (`CounterExpires`, all that `LoginReopens` needs besides fairness), and every count
stands for an attempt that got through (`LimitIsUsed`): the limit refuses nobody early.

**Pipeline.** `IInv` says at each step which file was read and who was sent it
(`ReadAsNeeded`); an untouched document is what routing and measuring start from.
`GaveUpLast` is proved for the retry counts of the code (`NerRetries` 15,
`EmbedRetries` 3), since the time waited is a sum over the attempts; `InOrder`
says how far a call's attempts are. `VectorsMatched` is about any number of
chunks and any batch size: the answer may list the vectors in any order, and
what puts them right is that the code sorts by their index.
`MetadataListed` and `FoundByDates` hold for any texts and any answers of the
tagger: `PipelineAssumption` says of a phrase only what its pattern gives, two digits
for day and month and a name for a month in words, and of a range that it is made of
dates. `Progress` says what has been claimed and found when an expression is part
of the way through the text: the phrases that were matched, and of each what its first
match says (`Reads`). `ScanStep` carries it over one phrase and `ScanProgress` over
all, so that `DatesOfText` says what `ExtractDates` returns. A phrase taken for
a real day is always read (`RealDaysAreRead`), and what is read of it is that
day (`ReadsTheDay`), so the filter and the reader compare the same dates; a day no
calendar has makes the filter raise, which the property excludes (section 5).
`TaskEnds` measures the task: its phases after the present one (`StepsAfter`), the
chunks that still lack an embedding (`NotEmbedded`) and the attempts left in a call
(`AttemptsLeft`); a batch embeds at least one chunk, and that only a call in progress
counts attempts is the invariant `AInv`. `TaskSettles` says what the end is.

**Search.** A click's copy of the row may be old but is never wrong: the results
are those shown and its events have the positions shown, so that writing it back
can lose clicks and cannot invent one. The ranking properties rest on `RInv`: the
legs are rankings without repetitions, the candidates their fusion, the hits a
cut of the reranked candidates. A fused order is `Sorted` by a strict order
(score, then identity), so `OrderTheorems` gives it length, injectivity and
order without unfolding the sort; a chunk that is ahead in both legs has the larger
sum because each of its terms is at least as large.

**Deployment.** `TenantsIsolated` and `RolesReachTables` are not inductive: what a
script leaves depends on what it found. `IsAt(S, r)` therefore says exactly which
objects a schema of revision r has (`ObjectsAt`: all that the scripts up to r
create, less the two things 0011 and 0014 drop), which grants go with them, and
that no chunk lacks its embedding before 0011. The central lemmas are
`UpgradeLeads` and `DowngradeLeads`: from any schema that `IsAt` a revision, the
next script in either direction runs through and leaves one that `IsAt` the
next, or is refused because the admin role is missing (0008 only). For the
fifteen scripts that only create, and whose downgrades only drop, this is argued once
(`UpgradeCreates`, `DowngradeDrops`) from four facts read off each script: what
it creates is new and comes after the tables it needs, and what the downgrade
drops is exactly that, once each, references before tables. 0008, 0011 and 0014 have
proofs of their own. `SchemasInv` then says that every schema there is, committed or
in a transaction, is one of its revision; three of the theorems
are consequences of `IsAt`. `RunningCodeHasItsSchema` also needs `RunnersInv`: one
transaction at a time, and until somebody takes the schema back every commit
raises the revision to at least that of the code whose containers follow.
It is stated for versions from 0008 on: `SchemaAt[c]` is the schema of a new
database, which before 0008 has grants that a database without the admin
role lacks, so that "the code's own schema" would not be one for both.

Induction has no form the provers can use with an operator for its hypothesis;
`SetInduction` takes the set of numbers that satisfy it instead, and so the chain of
scripts, a script's statements, a text's phrases and a ranking can be proved about at
any length. A fold of the library has an operator for a parameter, so what
is folded here is a recursive function (`Scan`, `EntitiesFromTagged`, `Run`).

Only model-checked: what is about fairness or ENABLED, which are out of their reach.
What these five properties rest on besides is proved: that work can be measured and no
step raises the measure, so that by `NoEndlessDescent` nothing can go on forever.
What is left to TLC is that something can always go on and, being fair, does.

| Property | Proved | Left to TLC |
|---|---|---|
| `Ingestion!AcceptedSettles` | `UnfinishedIsWorkedOn`: an unfinished document has its task; `NothingGoesBack`: there are finitely many steps | the handler or the task is enabled until then |
| `Pipeline!Settles` | `TaskEnds`, `TaskSettles` | some step of the task is enabled until `done` |
| `Clustering!RunsEnd` | `RunsAttended`: a running run has its task; `TasksEnd`; `OneRunEach`: finitely many runs | a task that is not idle can go on |
| `RateLimit!LoginReopens` | `CounterExpires` | the opener and the end of the window are enabled |
| `Access!NobodyIsStuck` | `RequestsEnd`: five steps are enough | the property itself: there is always a next one |

## 8. Abstractions

* One day: `CreatedToday` counts all documents, the model does not cross
  midnight.
* The queue is a bag. The Redis list is FIFO, but tasks run concurrently and
  take arbitrary time, so the order of starts promises nothing the code uses.
* A document that was abandoned while its task is queued is revived by the task;
  this is the code, not an abstraction (section 5).
* Row locks: `AbandonStuck` waits for a transaction that has updated the row
  (`RowLocked`) and then overwrites whatever that has committed. It
  commits at once, so no task waits for it.
* The operator takes no document to be stuck that is indexed or failed when
  looked at. `Clustering` and `Search` leave out the retraction of an indexed
  document.
* In `Ingestion` the answer of a request is sent before its transaction commits; nobody in the
  model reads the answer, so only the commit is a step.
* `pending_trigger` makes three queries; they are one step in `Clustering`.
* `Clustering` is about one organisation: no row is shared between two.
* `Search`: a leg is any ranking of searchable chunks, since distances and BM25
  scores are the database's. Filters only restrict the documents of an instance.
  Snippets, titles, category labels and timings are left
  out, and a document is never deleted or unpublished under a search.
* `Pipeline`: one file, in one worker that stays up. A chunk is the unit of
  text, so that the OCR minimum is counted in chunks; dated phrases do not
  overlap each other; amounts are left out; time is in half seconds. Database
  errors and crashes are in `Ingestion`. The date filter is modelled over one
  document; the BM25 leg swallows the error the vector leg does not, and runs after it.
* `Access`: credentials are valid or not; the expiry of a token is a revocation;
  user ids are never reused; an admin route is atomic, its constraints hold at
  its commit, and it has a pool of its own. A request that is under way when its
  credential is revoked finishes.
* `RateLimit`: one client address; counts beyond the limit are alike.
* `Deployment`: a script is a step. Column types, check constraints and cascades
  are left out; of the rows only chunks without an embedding, which are in the
  way of a downgrade. A container that cannot start stays `starting`; the
  workflow's health check only reports. The first statement of a migration
  keeps others out until it ends.

## 9. Not modelled, and what is left

Not modelled: numeric code (UMAP, HDBSCAN, distances, BM25), whose results are
arbitrary within their bounds; the text handling of Docling and of snippets; the
frontend, which renders what the API answers; the evaluation scripts, which run
offline over a fixed corpus; connectors, a table that no code uses yet; logging;
building images and CI. Of the startup checks only those that read the database
are actions; the others fail whatever the schema is and stand for "the API does
not start". Values of `config.py` are constants of the modules that use them.

Left, in order of what it would add:

1. `Search`: category labels, which a clustering run may change between the
   two legs and the response.
2. `Ingestion` and `Clustering` over one worker, so that a crash hits both.
3. What redelivery would need: `Ingestion` with a queue that acknowledges late,
   and which of the invariants survive it.
