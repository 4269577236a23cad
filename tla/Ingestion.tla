----------------------------- MODULE Ingestion -----------------------------
(***************************************************************************)
(* Ingestion of uploaded documents: the upload handler of the API          *)
(* (documents/router.py), the Redis list that carries tasks, and the two   *)
(* chained worker tasks ingest_document and embed_document                 *)
(* (tasks/ingest.py), with the transactions they run in.                   *)
(*                                                                         *)
(* The committed state of PostgreSQL is in the variables status, chunks,   *)
(* embedded and job.  What a transaction has written and not committed is  *)
(* visible to nobody (READ COMMITTED), so it lives in the state of the     *)
(* actor that runs the transaction: request[u] for an upload, slot[s] for  *)
(* a task.                                                                 *)
(***************************************************************************)
EXTENDS Naturals, FiniteSets

CONSTANTS
    Uploads,        \* upload requests; one stands also for its fresh document and job ids
    Orgs,           \* organisations
    Contents,       \* file contents, what the SHA-256 tells apart
    Slots,          \* tasks the worker process runs at the same time
    NoUpload,       \* not an upload: what an idle slot works on
    NoLimit,        \* not a number: the daily limit of an org without one
    OrgOf,          \* OrgOf[u]: the organisation u uploads to
    ContentOf,      \* ContentOf[u]: the content of the file of u
    Strategy,       \* Strategy[c]: what select_strategy answers for c
    ChunkCount,     \* ChunkCount[c]: the chunks a parse of c yields
    Unstorable,     \* contents whose rows PostgreSQL refuses (a NUL in the text)
    Oversized,      \* contents above max_upload_bytes
    DailyLimit,     \* DailyLimit[o]: documents o may create in a day
    TargetReads,    \* times a task looks for its rows before it gives up
    BatchSize,      \* chunks embedded by one call
    MaxFaults,      \* bound: crashes and failed steps in a behaviour
    Suspects,       \* uploads whose documents the operator may take to be stuck
    CommitWithinRetries     \* does an upload commit before its task gives up?

ASSUME IdsAssumption ==
    /\ NoUpload \notin Uploads
    /\ NoLimit \notin Nat
    /\ IsFiniteSet(Uploads)

ASSUME InputsAssumption ==
    /\ OrgOf \in [Uploads -> Orgs]
    /\ ContentOf \in [Uploads -> Contents]
    /\ Strategy \in [Contents -> {"extract", "convert", "metadata_only", "skip"}]
    /\ ChunkCount \in [Contents -> Nat]
    /\ Unstorable \subseteq Contents
    /\ Oversized \subseteq Contents
    /\ DailyLimit \in [Orgs -> Nat \cup {NoLimit}]

ASSUME BoundsAssumption ==
    /\ TargetReads \in Nat \ {0}
    /\ BatchSize \in Nat \ {0}
    /\ MaxFaults \in Nat
    /\ Suspects \subseteq Uploads
    /\ CommitWithinRetries \in BOOLEAN

VARIABLES
    request,        \* request[u]: how far the upload handler of u has come
    files,          \* the uploads whose file is on disk
    status,         \* status[u]: committed documents.status, "absent" without a row
    chunks,         \* chunks[u]: committed chunk rows of the document
    embedded,       \* embedded[u]: those of them with an embedding
    job,            \* job[u]: committed job_progress.status
    queue,          \* queue[t][u]: messages of task t for u in the Redis list
    slot,           \* slot[s]: the task the worker runs in s
    clustering,     \* documents whose completion queued a clustering run
    condemned,      \* documents the operator has seen stuck and decided to abandon
    abandoned,      \* documents whose parsing_error is the operator's
    faults          \* crashes and failed steps so far

dbVars   == <<status, chunks, embedded, job>>
workVars == <<slot, clustering>>
operatorVars == <<condemned, abandoned>>
vars     == <<request, files, status, chunks, embedded, job, queue, slot, clustering,
              condemned, abandoned, faults>>

Tasks == {"ingest", "embed"}

RequestStates ==
    {"new", "admitted", "stored", "unique", "flushed", "queued", "accepted",
     "limited", "too_large", "duplicate", "aborted"}

\* The states in which the request's transaction is open.
InFlight == {"admitted", "stored", "unique", "flushed", "queued"}

\* The states in which it holds the placeholder of the unique task_id.
HoldsPlaceholder == {"flushed", "queued"}

DocumentStates == {"absent", "pending", "parsing", "parsed", "indexed", "failed"}
JobStates == {"absent", "queued", "running", "succeeded", "failed"}
Terminal == {"indexed", "failed"}

\* Where a task is: before its rows are found (_load), inside its
\* transaction (parsing, embedding, indexing), and between its commit and
\* the task it queues next (parsed, trigger).
IngestPcs == {"ingest_load", "parsing"}
EmbedPcs  == {"embed_load", "embedding", "indexing"}
Pcs == {"idle", "parsed", "trigger"} \cup IngestPcs \cup EmbedPcs

IdleSlot == [pc |-> "idle", on |-> NoUpload, reads |-> 0, done |-> 0, todo |-> 0,
             due |-> FALSE]

\* A task that starts: nothing read yet.
Starting(t, u) == [IdleSlot EXCEPT !.pc = IF t = "ingest" THEN "ingest_load" ELSE "embed_load",
                                   !.on = u]

Init ==
    /\ request = [u \in Uploads |-> "new"]
    /\ files = {}
    /\ status = [u \in Uploads |-> "absent"]
    /\ chunks = [u \in Uploads |-> 0]
    /\ embedded = [u \in Uploads |-> 0]
    /\ job = [u \in Uploads |-> "absent"]
    /\ queue = [t \in Tasks |-> [u \in Uploads |-> 0]]
    /\ slot = [s \in Slots |-> IdleSlot]
    /\ clustering = {}
    /\ condemned = {}
    /\ abandoned = {}
    /\ faults = 0

Send(t, u) == queue' = [queue EXCEPT ![t][u] = @ + 1]

-----------------------------------------------------------------------------
(* The upload handler: upload_document. *)

\* The documents an org has committed today; the model is of one day.
CreatedToday(o) == {u \in Uploads : OrgOf[u] = o /\ status[u] # "absent"}

\* _enforce_daily_upload_limit passes.
LimitReached(u) ==
    /\ DailyLimit[OrgOf[u]] # NoLimit
    /\ Cardinality(CreatedToday(OrgOf[u])) >= DailyLimit[OrgOf[u]]

\* The request arrives; _enforce_daily_upload_limit is its first step.
EnforceDailyUploadLimit(u) ==
    /\ request[u] = "new"
    /\ request' = [request EXCEPT ![u] = IF LimitReached(u) THEN "limited" ELSE "admitted"]
    /\ UNCHANGED <<files, dbVars, queue, workVars, operatorVars, faults>>

\* write_uploaded_file; the partial file of an oversized upload is unlinked.
WriteUploadedFile(u) ==
    /\ request[u] = "admitted"
    /\ IF ContentOf[u] \in Oversized
       THEN /\ request' = [request EXCEPT ![u] = "too_large"]
            /\ UNCHANGED files
       ELSE /\ request' = [request EXCEPT ![u] = "stored"]
            /\ files' = files \cup {u}
    /\ UNCHANGED <<dbVars, queue, workVars, operatorVars, faults>>

\* v is a committed document that the deduplication query of u finds.
SameDocument(u, v) ==
    /\ OrgOf[v] = OrgOf[u]
    /\ ContentOf[v] = ContentOf[u]
    /\ status[v] \notin {"absent", "failed"}

\* Mutant: a duplicate leaves its file behind.
DeduplicateKeepingFile(u) ==
    /\ request[u] = "stored"
    /\ request' = [request EXCEPT ![u] = IF \E v \in Uploads : SameDocument(u, v)
                                         THEN "duplicate" ELSE "unique"]
    /\ UNCHANGED <<files, dbVars, queue, workVars, operatorVars, faults>>

\* The deduplication query; a duplicate removes its own stored file.
Deduplicate(u) ==
    /\ request[u] = "stored"
    /\ IF \E v \in Uploads : SameDocument(u, v)
       THEN /\ request' = [request EXCEPT ![u] = "duplicate"]
            /\ files' = files \ {u}
       ELSE /\ request' = [request EXCEPT ![u] = "unique"]
            /\ UNCHANGED files
    /\ UNCHANGED <<dbVars, queue, workVars, operatorVars, faults>>

\* Insert the document and the job and flush.  job_progress.task_id is
\* unique and every upload flushes the same placeholder, so the insert
\* waits while another upload holds it.
InsertRows(u) ==
    /\ request[u] = "unique"
    /\ \A v \in Uploads : request[v] \notin HoldsPlaceholder
    /\ request' = [request EXCEPT ![u] = "flushed"]
    /\ UNCHANGED <<files, dbVars, queue, workVars, operatorVars, faults>>

\* ingest_document.kiq, inside the transaction.
EnqueueIngest(u) ==
    /\ request[u] = "flushed"
    /\ request' = [request EXCEPT ![u] = "queued"]
    /\ Send("ingest", u)
    /\ UNCHANGED <<files, dbVars, workVars, operatorVars, faults>>

\* The exit of get_org_context: the rows become visible.
CommitUpload(u) ==
    /\ request[u] = "queued"
    /\ request' = [request EXCEPT ![u] = "accepted"]
    /\ status' = [status EXCEPT ![u] = "pending"]
    /\ job' = [job EXCEPT ![u] = "queued"]
    /\ UNCHANGED <<files, chunks, embedded, queue, workVars, operatorVars, faults>>

\* The request fails or its client goes away: the transaction rolls back,
\* a stored file and a queued message stay.
UploadAborts(u) ==
    /\ request[u] \in InFlight
    /\ request' = [request EXCEPT ![u] = "aborted"]
    /\ UNCHANGED <<files, dbVars, queue, workVars, operatorVars, faults>>

-----------------------------------------------------------------------------
(* The worker: one task per slot. *)

\* The broker pops a message and the worker starts its task.  A popped
\* message is gone whatever becomes of the task.
StartTask(s) ==
    \E t \in Tasks, u \in Uploads :
        /\ slot[s].pc = "idle"
        /\ queue[t][u] > 0
        /\ queue' = [queue EXCEPT ![t][u] = @ - 1]
        /\ slot' = [slot EXCEPT ![s] = Starting(t, u)]
        /\ UNCHANGED <<request, files, dbVars, clustering, operatorVars, faults>>

Loading(s) == slot[s].pc \in {"ingest_load", "embed_load"}
TargetsMissing(s) == status[slot[s].on] = "absent"

\* Mutant: a task that finds no rows returns at once.
LoadMissWithoutRetry(s) ==
    /\ Loading(s) /\ TargetsMissing(s)
    /\ slot' = [slot EXCEPT ![s] = IdleSlot]
    /\ UNCHANGED <<request, files, dbVars, queue, clustering, operatorVars, faults>>

\* _load_targets finds no rows, sleeps and looks again.
LoadMiss(s) ==
    /\ Loading(s) /\ TargetsMissing(s)
    /\ slot[s].reads + 1 < TargetReads
    /\ slot' = [slot EXCEPT ![s].reads = @ + 1]
    /\ UNCHANGED <<request, files, dbVars, queue, clustering, operatorVars, faults>>

\* The last look of _load_targets fails too: the task returns.
GiveUp(s) ==
    /\ Loading(s) /\ TargetsMissing(s)
    /\ slot[s].reads + 1 = TargetReads
    /\ CommitWithinRetries => request[slot[s].on] # "queued"
    /\ slot' = [slot EXCEPT ![s] = IdleSlot]
    /\ UNCHANGED <<request, files, dbVars, queue, clustering, operatorVars, faults>>

\* Mutant: the embed task is queued inside the parse transaction.
MarkParsingAndEnqueue(s) ==
    /\ slot[s].pc = "ingest_load" /\ ~TargetsMissing(s)
    /\ slot' = [slot EXCEPT ![s].pc = "parsing"]
    /\ Send("embed", slot[s].on)
    /\ UNCHANGED <<request, files, dbVars, clustering, operatorVars, faults>>

\* ingest_document finds its rows and flushes status='parsing' and
\* status='running': both stay inside the transaction.
MarkParsing(s) ==
    /\ slot[s].pc = "ingest_load" /\ ~TargetsMissing(s)
    /\ slot' = [slot EXCEPT ![s].pc = "parsing"]
    /\ UNCHANGED <<request, files, dbVars, queue, clustering, operatorVars, faults>>

\* The chunks a parse of the document of u writes.
Produced(u) == IF Strategy[ContentOf[u]] \in {"extract", "convert"}
               THEN ChunkCount[ContentOf[u]]
               ELSE 0

\* PostgreSQL refuses the chunk rows: their text, or the unique
\* (document_id, chunk_index) when the document has chunks already.
Refused(u) ==
    /\ Produced(u) > 0
    /\ ContentOf[u] \in Unstorable \/ chunks[u] > 0

\* _run_parse returns and the transaction commits the chunks, without
\* embeddings, together with status='parsed' and the job's 'running', which
\* nobody could see until now.
CommitParsed(s) ==
    LET d == slot[s].on IN
    /\ slot[s].pc = "parsing"
    /\ Strategy[ContentOf[d]] # "skip" /\ ~Refused(d)
    /\ status' = [status EXCEPT ![d] = "parsed"]
    /\ chunks' = [chunks EXCEPT ![d] = @ + Produced(d)]
    /\ job' = [job EXCEPT ![d] = "running"]
    /\ slot' = [slot EXCEPT ![s].pc = "parsed"]
    /\ UNCHANGED <<request, files, embedded, queue, clustering, operatorVars, faults>>

\* Mutant: the failure is written to the document and not to its job.
FailIngestKeepingJob(s) ==
    /\ slot[s].pc = "parsing"
    /\ status' = [status EXCEPT ![slot[s].on] = "failed"]
    /\ slot' = [slot EXCEPT ![s] = IdleSlot]
    /\ UNCHANGED <<request, files, chunks, embedded, job, queue, clustering, operatorVars, faults>>

\* _run_parse raises (skipped type, parser, conversion, OCR): _fail_job.
FailIngest(s) ==
    LET d == slot[s].on IN
    /\ slot[s].pc = "parsing"
    /\ status' = [status EXCEPT ![d] = "failed"]
    /\ job' = [job EXCEPT ![d] = "failed"]
    /\ abandoned' = abandoned \ {d}
    /\ slot' = [slot EXCEPT ![s] = IdleSlot]
    /\ UNCHANGED <<request, files, chunks, embedded, queue, clustering, condemned, faults>>

\* PostgreSQL refuses the rows.  _extract_metadata swallows the error, the
\* next statement raises outside the try, and the transaction rolls back.
RefusedByDatabase(s) ==
    /\ slot[s].pc = "parsing" /\ Refused(slot[s].on)
    /\ slot' = [slot EXCEPT ![s] = IdleSlot]
    /\ UNCHANGED <<request, files, dbVars, queue, clustering, operatorVars, faults>>

\* Mutant: the kiq is retried although it went through.
EnqueueEmbedAgain(s) ==
    /\ slot[s].pc = "parsed"
    /\ Send("embed", slot[s].on)
    /\ UNCHANGED <<request, files, dbVars, workVars, operatorVars, faults>>

\* embed_document.kiq, after the commit.
EnqueueEmbed(s) ==
    /\ slot[s].pc = "parsed"
    /\ Send("embed", slot[s].on)
    /\ slot' = [slot EXCEPT ![s] = IdleSlot]
    /\ UNCHANGED <<request, files, dbVars, clustering, operatorVars, faults>>

Smaller(m, n) == IF m <= n THEN m ELSE n

\* Mutant: the query for chunks returns one batch only.
LoadOneBatch(s) ==
    LET d == slot[s].on IN
    /\ slot[s].pc = "embed_load" /\ ~TargetsMissing(s)
    /\ slot' = [slot EXCEPT ![s].pc = "embedding",
                            ![s].done = embedded[d],
                            ![s].todo = Smaller(BatchSize, chunks[d] - embedded[d])]
    /\ UNCHANGED <<request, files, dbVars, queue, clustering, operatorVars, faults>>

\* embed_document finds its rows and reads the chunks without embedding.
LoadPendingChunks(s) ==
    LET d == slot[s].on IN
    /\ slot[s].pc = "embed_load" /\ ~TargetsMissing(s)
    /\ slot' = [slot EXCEPT ![s].pc = "embedding",
                            ![s].done = embedded[d],
                            ![s].todo = chunks[d] - embedded[d]]
    /\ UNCHANGED <<request, files, dbVars, queue, clustering, operatorVars, faults>>

\* Mutant: the last batch is not cut at the end of the list.
EmbedFullBatch(s) ==
    /\ slot[s].pc = "embedding" /\ slot[s].todo > 0
    /\ slot' = [slot EXCEPT ![s].done = @ + BatchSize, ![s].todo = @ - BatchSize]
    /\ UNCHANGED <<request, files, dbVars, queue, clustering, operatorVars, faults>>

\* One call of the embedder, for the next batch.
EmbedBatch(s) ==
    LET n == Smaller(BatchSize, slot[s].todo) IN
    /\ slot[s].pc = "embedding" /\ slot[s].todo > 0
    /\ slot' = [slot EXCEPT ![s].done = @ + n, ![s].todo = @ - n]
    /\ UNCHANGED <<request, files, dbVars, queue, clustering, operatorVars, faults>>

\* Mutant: the failure is written to the job and not to the document.
FailEmbedKeepingDocument(s) ==
    LET d == slot[s].on IN
    /\ slot[s].pc = "embedding" /\ slot[s].todo > 0
    /\ job' = [job EXCEPT ![d] = "failed"]
    /\ embedded' = [embedded EXCEPT ![d] = slot[s].done]
    /\ slot' = [slot EXCEPT ![s] = IdleSlot]
    /\ UNCHANGED <<request, files, status, chunks, queue, clustering, operatorVars, faults>>

\* The embedder raises: _fail_job commits, with the batches that were done.
FailEmbed(s) ==
    LET d == slot[s].on IN
    /\ slot[s].pc = "embedding" /\ slot[s].todo > 0
    /\ status' = [status EXCEPT ![d] = "failed"]
    /\ job' = [job EXCEPT ![d] = "failed"]
    /\ embedded' = [embedded EXCEPT ![d] = slot[s].done]
    /\ abandoned' = abandoned \ {d}
    /\ slot' = [slot EXCEPT ![s] = IdleSlot]
    /\ UNCHANGED <<request, files, chunks, queue, clustering, condemned, faults>>

\* Mutant: a failed batch does not stop the task.
MarkIndexedRegardless(s) ==
    /\ slot[s].pc = "embedding"
    /\ slot' = [slot EXCEPT ![s].pc = "indexing", ![s].due = TRUE]
    /\ UNCHANGED <<request, files, dbVars, queue, clustering, operatorVars, faults>>

\* status='indexed' is flushed and pending_trigger evaluated, all inside the
\* transaction; the trigger's answer belongs to the clustering service.
MarkIndexed(s) ==
    /\ slot[s].pc = "embedding" /\ slot[s].todo = 0
    /\ \E due \in BOOLEAN :
          slot' = [slot EXCEPT ![s].pc = "indexing", ![s].due = due]
    /\ UNCHANGED <<request, files, dbVars, queue, clustering, operatorVars, faults>>

\* The embed transaction commits.
CommitIndexed(s) ==
    LET d == slot[s].on IN
    /\ slot[s].pc = "indexing"
    /\ status' = [status EXCEPT ![d] = "indexed"]
    /\ job' = [job EXCEPT ![d] = "succeeded"]
    /\ embedded' = [embedded EXCEPT ![d] = slot[s].done]
    /\ slot' = [slot EXCEPT ![s] = IF slot[s].due THEN [@ EXCEPT !.pc = "trigger"]
                                                  ELSE IdleSlot]
    /\ UNCHANGED <<request, files, chunks, queue, clustering, operatorVars, faults>>

\* cluster_org_documents.kiq, after the commit.
EnqueueClustering(s) ==
    /\ slot[s].pc = "trigger"
    /\ clustering' = clustering \cup {slot[s].on}
    /\ slot' = [slot EXCEPT ![s] = IdleSlot]
    /\ UNCHANGED <<request, files, dbVars, queue, operatorVars, faults>>

-----------------------------------------------------------------------------
(* Faults, and the operator. *)

\* A task raises outside its try blocks (the database or Redis goes away):
\* org_context rolls back, and what came after the commit never happens.
TaskAborts(s) ==
    /\ slot[s].pc # "idle"
    /\ faults < MaxFaults
    /\ faults' = faults + 1
    /\ slot' = [slot EXCEPT ![s] = IdleSlot]
    /\ UNCHANGED <<request, files, dbVars, queue, clustering, operatorVars>>

\* The worker process dies (out of memory in a parse) and is restarted.
WorkerCrash ==
    /\ \E s \in Slots : slot[s].pc # "idle"
    /\ faults < MaxFaults
    /\ faults' = faults + 1
    /\ slot' = [s \in Slots |-> IdleSlot]
    /\ UNCHANGED <<request, files, dbVars, queue, clustering, operatorVars>>

\* A task whose transaction has updated the row of d and not ended.
RowLocked(d) == \E s \in Slots : slot[s].on = d /\ slot[s].pc \in {"parsing", "indexing"}

\* The operator looks at a document, takes it to be stuck and decides to
\* abandon it.  Nothing holds the row from here on.
LookAtStuck(d) ==
    /\ d \in Suspects \ condemned
    /\ status[d] \in {"pending", "parsing", "parsed"}
    /\ condemned' = condemned \cup {d}
    /\ UNCHANGED <<request, files, dbVars, queue, workVars, abandoned, faults>>

\* The runbook's UPDATE ... WHERE id = ...: it waits for a transaction that
\* has updated the row and then overwrites whatever that has committed.  The
\* job and the tasks of the document are left alone.
AbandonStuck(d) ==
    /\ d \in condemned /\ ~RowLocked(d)
    /\ status' = [status EXCEPT ![d] = "failed"]
    /\ abandoned' = abandoned \cup {d}
    /\ condemned' = condemned \ {d}
    /\ UNCHANGED <<request, files, chunks, embedded, job, queue, workVars, faults>>

-----------------------------------------------------------------------------
\* The steps of the upload handler once the request is in.
Handle(u) ==
    \/ WriteUploadedFile(u)
    \/ Deduplicate(u)
    \/ InsertRows(u)
    \/ EnqueueIngest(u)
    \/ CommitUpload(u)

\* The steps of the worker in one slot.
Work(s) ==
    \/ StartTask(s)
    \/ LoadMiss(s)
    \/ GiveUp(s)
    \/ MarkParsing(s)
    \/ CommitParsed(s)
    \/ FailIngest(s)
    \/ RefusedByDatabase(s)
    \/ EnqueueEmbed(s)
    \/ LoadPendingChunks(s)
    \/ EmbedBatch(s)
    \/ FailEmbed(s)
    \/ MarkIndexed(s)
    \/ CommitIndexed(s)
    \/ EnqueueClustering(s)

Next ==
    \/ \E u \in Uploads : EnforceDailyUploadLimit(u) \/ Handle(u) \/ UploadAborts(u)
    \/ \E s \in Slots : Work(s) \/ TaskAborts(s)
    \/ WorkerCrash
    \/ \E d \in Uploads : LookAtStuck(d) \/ AbandonStuck(d)

Spec == Init /\ [][Next]_vars

\* The event loops of the API and of the worker go on with whatever can go
\* on.  Nothing makes a request arrive, and nothing makes a fault happen.
Fairness ==
    /\ \A u \in Uploads : WF_vars(Handle(u))
    /\ \A s \in Slots : WF_vars(Work(s))

LiveSpec == Spec /\ Fairness

-----------------------------------------------------------------------------
(* Properties. *)

SlotType == [pc : Pcs, on : Uploads \cup {NoUpload}, reads : Nat, done : Nat,
             todo : Nat, due : BOOLEAN]

\* Every variable has its type; a task's counters never go below zero.
TypeOK ==
    /\ request \in [Uploads -> RequestStates]
    /\ files \subseteq Uploads
    /\ status \in [Uploads -> DocumentStates]
    /\ chunks \in [Uploads -> Nat]
    /\ embedded \in [Uploads -> Nat]
    /\ job \in [Uploads -> JobStates]
    /\ queue \in [Tasks -> [Uploads -> Nat]]
    /\ slot \in [Slots -> SlotType]
    /\ clustering \subseteq Uploads
    /\ condemned \subseteq Uploads
    /\ abandoned \subseteq Uploads
    /\ faults \in Nat

Queued(u) == \E t \in Tasks : queue[t][u] > 0
RunsIn(u, s) == slot[s].on = u
HasWork(u) == Queued(u) \/ \E s \in Slots : RunsIn(u, s) /\ slot[s].pc # "trigger"

\* Whatever aborts, crashes or is abandoned, a document never has two tasks
\* at once: what lets the tasks read a row and write it later without a lock
\* (ingest.py reads the targets with a plain session.get).
OneTaskPerDocument ==
    \A u \in Uploads :
        /\ queue["ingest"][u] + queue["embed"][u] <= 1
        /\ Queued(u) => \A s \in Slots : ~RunsIn(u, s)
        /\ \A s, t \in Slots : RunsIn(u, s) /\ RunsIn(u, t) => s = t

\* A document that search may return has every chunk its content has, each
\* with its embedding, even when the parse and the embed ran in two tasks
\* with faults between them.
SearchableIsComplete ==
    \A u \in Uploads :
        status[u] = "indexed" => chunks[u] = Produced(u) /\ embedded[u] = Produced(u)

\* "The embed task never races ahead of the chunks it reads": the embed
\* task that is embedding has all the chunks of the document in hand.
EmbedReadsAllChunks ==
    \A s \in Slots :
        slot[s].pc \in {"embedding", "indexing"} =>
            slot[s].done + slot[s].todo = Produced(slot[s].on)

\* The job a client polls agrees with the document: a searchable document's
\* job succeeded, a job that succeeded has a searchable document or a failed
\* one that bears the mark of the operator's UPDATE, and a failed job means a
\* document that failed and that no task will touch again.
JobAgrees ==
    \A u \in Uploads :
        /\ status[u] = "indexed" => job[u] = "succeeded"
        /\ job[u] = "succeeded" =>
               status[u] = "indexed" \/ (status[u] = "failed" /\ u \in abandoned)
        /\ job[u] = "failed" => status[u] = "failed" /\ ~HasWork(u)

\* A document's file is there when its task opens it, and a request that
\* was turned away leaves neither a file nor a message.
FilesMatchRows ==
    \A u \in Uploads :
        /\ status[u] # "absent" => u \in files
        /\ request[u] \in {"limited", "too_large", "duplicate"} =>
               u \notin files /\ status[u] = "absent" /\ ~HasWork(u)

\* A clustering run is queued only for a completion that is committed, so
\* that the run counts the document ("enqueued after the transaction commits")
\* unless the operator has abandoned it.
ClusteringSeesDocument ==
    \A u \in clustering : job[u] = "succeeded" /\ (status[u] = "indexed" \/ u \in abandoned)

\* A committed document that is neither indexed nor failed is being worked
\* on or is going to be: "everything else is transient".
UnfinishedHasWork ==
    \A u \in Uploads : status[u] \in {"pending", "parsing", "parsed"} => HasWork(u)

\* An accepted upload settles: its document and its job both reach a
\* terminal state.
AcceptedSettles ==
    \A u \in Uploads :
        (request[u] = "accepted") ~> (status[u] \in Terminal /\ job[u] \in {"succeeded", "failed"})

\* What search sees of this system is module Publication: a document is
\* retracted when its task had succeeded and the operator's UPDATE came after.
Promise == INSTANCE Publication WITH
    Documents <- Uploads,
    Size      <- [u \in Uploads |-> Produced(u)],
    accepted  <- {u \in Uploads : status[u] # "absent"},
    doubted   <- condemned,
    published <- {u \in Uploads : status[u] = "indexed"},
    retracted <- {u \in Uploads : job[u] = "succeeded" /\ status[u] # "indexed"},
    visible   <- [u \in Uploads |-> IF status[u] = "indexed" THEN embedded[u] ELSE 0]

\* Documents become searchable whole, in one step and once, and stay as they
\* are; only the operator can take one back, by a decision made before it was
\* searchable, and for good.
ImplementsPublication == Promise!Spec

-----------------------------------------------------------------------------
(* The inductive invariant behind the safety properties. *)

NoTask(u) == ~Queued(u) /\ \A s \in Slots : ~RunsIn(u, s)

\* A slot is idle exactly when it works on nothing.
SlotsConsistent == \A s \in Slots : slot[s].on = NoUpload <=> slot[s].pc = "idle"

\* The request, its file, its rows and its tasks appear in this order.
RequestsConsistent ==
    \A u \in Uploads :
        /\ status[u] # "absent" <=> request[u] = "accepted"
        /\ status[u] = "absent" <=> job[u] = "absent"
        /\ request[u] \notin {"queued", "accepted", "aborted"} => NoTask(u)
        /\ request[u] \in {"stored", "unique", "flushed", "queued", "accepted"} => u \in files
        /\ request[u] \in {"new", "admitted", "limited", "too_large", "duplicate"} => u \notin files

\* What holds of a document while its ingest task is queued or running.
Unparsed(u) ==
    /\ status[u] \in {"absent", "pending", "failed"}
    /\ job[u] \in {"absent", "queued"}
    /\ chunks[u] = 0 /\ embedded[u] = 0

\* What holds of a document while its embed task is due, queued or running.
Parsed(u) ==
    /\ status[u] \in {"parsed", "failed"}
    /\ job[u] = "running"
    /\ chunks[u] = Produced(u) /\ embedded[u] = 0

MessageConsistent(u) ==
    /\ queue["ingest"][u] > 0 => Unparsed(u)
    /\ queue["embed"][u] > 0 => Parsed(u)

TaskConsistent(s) ==
    /\ slot[s].pc \in IngestPcs => Unparsed(slot[s].on)
    /\ slot[s].pc = "parsing" => status[slot[s].on] # "absent"
    /\ slot[s].pc \in {"parsed"} \cup EmbedPcs => Parsed(slot[s].on)
    /\ slot[s].pc \in {"embedding", "indexing"} =>
          slot[s].done + slot[s].todo = Produced(slot[s].on)
    /\ slot[s].pc = "indexing" => slot[s].todo = 0
    /\ slot[s].pc = "trigger" => job[slot[s].on] = "succeeded"

TasksConsistent ==
    /\ \A u \in Uploads : MessageConsistent(u)
    /\ \A s \in Slots : TaskConsistent(s)

\* What the committed rows say when no task is looked at.
RowsConsistent ==
    \A u \in Uploads :
        /\ status[u] # "parsing"
        /\ status[u] \in {"absent", "pending"} => chunks[u] = 0 /\ embedded[u] = 0
        /\ status[u] = "pending" => job[u] = "queued"
        /\ status[u] = "parsed" => Parsed(u)
        /\ status[u] = "indexed" => chunks[u] = Produced(u) /\ embedded[u] = Produced(u)
        /\ status[u] = "indexed" => job[u] = "succeeded"
        /\ job[u] = "succeeded" =>
               status[u] = "indexed" \/ (status[u] = "failed" /\ u \in abandoned)
        /\ job[u] = "failed" => status[u] = "failed" /\ NoTask(u)
        /\ u \in condemned => status[u] # "absent"

\* Together: inductive, and stronger than each safety property above.
IInv ==
    /\ TypeOK
    /\ SlotsConsistent
    /\ OneTaskPerDocument
    /\ RequestsConsistent
    /\ TasksConsistent
    /\ RowsConsistent
    /\ ClusteringSeesDocument

-----------------------------------------------------------------------------
(* What docs, comments and docstrings say and the code does not do. *)

\* The runbook: after a restart of the worker "tasks are at-least-once; an
\* interrupted parse re-runs, an interrupted embed resumes".
RestartRedelivers ==
    [][WorkerCrash =>
         \A u \in Uploads : status[u] \in {"pending", "parsed"} /\ HasWork(u) => HasWork(u)']_vars

=============================================================================
