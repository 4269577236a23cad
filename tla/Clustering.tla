---------------------------- MODULE Clustering -----------------------------
(***************************************************************************)
(* Clustering of one organisation's documents (clustering/service.py,      *)
(* clustering/router.py, tasks/cluster.py) and the part of embed_document  *)
(* that decides whether a run is due (tasks/ingest.py).                    *)
(*                                                                         *)
(* A run spans transactions: record the run, compute with no transaction   *)
(* open, persist the outcome.  In between, documents become indexed, other *)
(* runs start and the worker may die.  Organisations share no row here, so *)
(* one is enough.                                                          *)
(***************************************************************************)
EXTENDS Integers, FiniteSets, Sequences

CONSTANTS
    Documents,          \* documents whose embedding may complete
    Chunkless,          \* those without chunks (metadata only): indexed, never pooled
    Workers,            \* clustering tasks the worker process runs at the same time
    TriggerMinimum,     \* clustering_min_documents
    EngineMinimum,      \* MIN_DOCUMENTS of the engine
    MaxRequests,        \* bound: recluster requests that are accepted
    ClusterFloor,       \* _MIN_CLUSTER_FLOOR: documents in the smallest cluster
    MaxLabelCalls,      \* labeler_max_calls_per_run; 0 stands for no labeler
    MaxClusters,        \* bound: clusters of a run
    MaxFaults           \* bound: crashes and failed steps in a behaviour

ASSUME ClusteringAssumption ==
    /\ IsFiniteSet(Documents) /\ Chunkless \subseteq Documents
    /\ TriggerMinimum \in Nat \ {0}
    /\ EngineMinimum \in Nat \ {0}
    /\ ClusterFloor \in Nat \ {0}
    /\ MaxLabelCalls \in Nat /\ MaxClusters \in Nat
    /\ MaxRequests \in Nat /\ MaxFaults \in Nat

VARIABLES
    indexed,        \* documents with committed status 'indexed'
    completion,     \* completion[d]: the embed task of d and the trigger it decided on
    queue,          \* queue[t]: messages for a clustering task triggered by t
    runs,           \* the clustering_runs rows, in the order of their commits
    worker,         \* worker[w]: the clustering task in w
    labels,         \* labels[r]: what is known of the labels of run r's clusters
    assigned,       \* assigned[d]: the run whose cluster documents.cluster_id names, or 0
    clock,          \* transactions that recorded a run so far: orders created_at
    requests,       \* recluster requests accepted so far
    faults          \* crashes and failed steps so far

embedVars == <<indexed, completion>>
vars == <<indexed, completion, queue, runs, worker, labels, assigned, clock, requests, faults>>

Triggers == {"threshold", "doubling", "manual"}
RunStates == {"running", "succeeded", "failed"}
Run == [status : RunStates, trigger : Triggers, count : Nat, created : Nat]

\* Of the clusters 1 .. clusters: how many calls the provider was sent, which
\* clusters have an LLM label, and the outcomes of the llm_calls rows.
Unlabelled(n) == [clusters |-> n, sent |-> 0, llm |-> {}, audit |-> <<>>]

Waiting == [pc |-> "waiting", due |-> "none"]
IdleWorker == [pc |-> "idle", trigger |-> "none", corpus |-> {}, run |-> 0, created |-> 0,
               results |-> <<>>]

Init ==
    /\ indexed = {}
    /\ completion = [d \in Documents |-> Waiting]
    /\ queue = [t \in Triggers |-> 0]
    /\ runs = <<>>
    /\ worker = [w \in Workers |-> IdleWorker]
    /\ labels = <<>>
    /\ assigned = [d \in Documents |-> 0]
    /\ clock = 0
    /\ requests = 0
    /\ faults = 0

RunIds == DOMAIN runs
RunInFlight == \E r \in RunIds : runs[r].status = "running"
Succeeded == {r \in RunIds : runs[r].status = "succeeded"}

\* The runs "latest" by created_at, which is the start of the transaction.
Latest(R) == {r \in R : \A q \in R : runs[q].created <= runs[r].created}

\* load_org_corpus keeps the indexed documents with an embedded chunk.
Pooled(D) == D \ Chunkless

-----------------------------------------------------------------------------
(* Completions of embed_document. *)

\* evaluate_trigger, for a number of indexed documents.
EvaluateTrigger(count) ==
    IF count < TriggerMinimum THEN "none"
    ELSE IF Succeeded = {} THEN "threshold"
    ELSE IF \A r \in Latest(Succeeded) : count >= 2 * runs[r].count THEN "doubling"
    ELSE "none"

\* pending_trigger, as a transaction sees it that has flushed d as indexed:
\* its own row and what others have committed.  Its three queries are one
\* step here; whatever it answers, a queued run asks nothing when it starts.
PendingTrigger(d) ==
    IF RunInFlight THEN "none" ELSE EvaluateTrigger(Cardinality(indexed \cup {d}))

\* The embed transaction flushes status='indexed' and evaluates the trigger.
FlushIndexed(d) ==
    /\ completion[d].pc = "waiting"
    /\ completion' = [completion EXCEPT ![d] = [pc |-> "flushed", due |-> PendingTrigger(d)]]
    /\ UNCHANGED <<indexed, queue, runs, worker, labels, assigned, clock, requests, faults>>

\* It commits.
CommitIndexed(d) ==
    /\ completion[d].pc = "flushed"
    /\ indexed' = indexed \cup {d}
    /\ completion' = [completion EXCEPT ![d].pc = "committed"]
    /\ UNCHANGED <<queue, runs, worker, labels, assigned, clock, requests, faults>>

\* A clustering task is queued after the commit, when a run was due.
EnqueueClustering(d) ==
    /\ completion[d].pc = "committed"
    /\ completion' = [completion EXCEPT ![d].pc = "done"]
    /\ queue' = IF completion[d].due = "none" THEN queue
                ELSE [queue EXCEPT ![completion[d].due] = @ + 1]
    /\ UNCHANGED <<indexed, runs, worker, labels, assigned, clock, requests, faults>>

-----------------------------------------------------------------------------
(* The manual action. *)

\* recluster: 409 while a run is recorded as running, else a task is queued.
\* Between the check and the kiq nothing is written.
Recluster ==
    /\ requests < MaxRequests
    /\ ~RunInFlight
    /\ requests' = requests + 1
    /\ queue' = [queue EXCEPT !["manual"] = @ + 1]
    /\ UNCHANGED <<embedVars, runs, worker, labels, assigned, clock, faults>>

-----------------------------------------------------------------------------
(* The clustering task: execute_clustering. *)

\* The first transaction begins and loads the corpus; it returns at once
\* when the corpus is too small.  Nobody looks for a run that is under way.
LoadCorpus(w) ==
    \E t \in Triggers :
        LET corpus == Pooled(indexed) IN
        /\ worker[w].pc = "idle"
        /\ queue[t] > 0
        /\ queue' = [queue EXCEPT ![t] = @ - 1]
        /\ IF Cardinality(corpus) < EngineMinimum
           THEN UNCHANGED <<worker, clock>>
           ELSE /\ clock' = clock + 1
                /\ worker' = [worker EXCEPT ![w] =
                       [pc |-> "recording", trigger |-> t, corpus |-> corpus, run |-> 0,
                        created |-> clock + 1, results |-> <<>>]]
        /\ UNCHANGED <<embedVars, runs, labels, assigned, requests, faults>>

\* Mutant: the row of the run is never added to the session.
RecordNothing(w) ==
    /\ worker[w].pc = "recording"
    /\ worker' = [worker EXCEPT ![w].pc = "computing", ![w].run = Len(runs) + 1]
    /\ UNCHANGED <<embedVars, queue, runs, labels, assigned, clock, requests, faults>>

\* It commits the row of the run, with the size of the corpus.
RecordRun(w) ==
    /\ worker[w].pc = "recording"
    /\ runs' = Append(runs, [status |-> "running", trigger |-> worker[w].trigger,
                             count |-> Cardinality(worker[w].corpus),
                             created |-> worker[w].created])
    /\ labels' = Append(labels, Unlabelled(0))
    /\ worker' = [worker EXCEPT ![w].pc = "computing", ![w].run = Len(runs) + 1]
    /\ UNCHANGED <<embedVars, queue, assigned, clock, requests, faults>>

\* Mutant: the task returns without closing the run it recorded.
AbandonRun(w) ==
    /\ worker[w].pc = "computing"
    /\ worker' = [worker EXCEPT ![w] = IdleWorker]
    /\ UNCHANGED <<embedVars, queue, runs, labels, assigned, clock, requests, faults>>

\* Mutant: the run is closed and the task goes on to the persist step.
FailEngineAndGoOn(w) ==
    /\ worker[w].pc = "computing"
    /\ runs' = [runs EXCEPT ![worker[w].run].status = "failed"]
    /\ UNCHANGED <<embedVars, queue, worker, labels, assigned, clock, requests, faults>>

\* The engine raises: a transaction of its own closes the run as failed.
FailEngine(w) ==
    /\ worker[w].pc = "computing"
    /\ runs' = [runs EXCEPT ![worker[w].run].status = "failed"]
    /\ worker' = [worker EXCEPT ![w] = IdleWorker]
    /\ UNCHANGED <<embedVars, queue, labels, assigned, clock, requests, faults>>

\* cluster_documents: UMAP, HDBSCAN and c-TF-IDF make any number of clusters,
\* none included, out of the documents they do not call noise.
ClusterDocuments(corpus) ==
    {output \in [members : SUBSET corpus, clusters : 0 .. MaxClusters] :
        /\ output.clusters = 0 <=> output.members = {}
        /\ ClusterFloor * output.clusters <= Cardinality(output.members)}

\* Mutant: assignments of earlier runs are not cleared.
PersistWithoutClearing(w) ==
    /\ worker[w].pc = "computing"
    /\ \E output \in ClusterDocuments(worker[w].corpus) :
          assigned' = [d \in Documents |->
                          IF d \in output.members THEN worker[w].run ELSE assigned[d]]
    /\ runs' = [runs EXCEPT ![worker[w].run].status = "succeeded"]
    /\ worker' = [worker EXCEPT ![w] = IdleWorker]
    /\ UNCHANGED labels
    /\ UNCHANGED <<embedVars, queue, clock, requests, faults>>

\* _persist_outcome, one transaction: clusters with their keyword labels,
\* assignments (whatever the engine did not call noise), the end of the run.
\* Its first UPDATE locks every document of the org, so two of them run one
\* after the other.
PersistOutcome(w) ==
    /\ worker[w].pc = "computing"
    /\ \E output \in ClusterDocuments(worker[w].corpus) :
          /\ assigned' = [d \in Documents |->
                             IF d \in output.members THEN worker[w].run ELSE 0]
          /\ labels' = [labels EXCEPT ![worker[w].run] = Unlabelled(output.clusters)]
    /\ runs' = [runs EXCEPT ![worker[w].run].status = "succeeded"]
    /\ worker' = [worker EXCEPT ![w].pc = "labelling"]
    /\ UNCHANGED <<embedVars, queue, clock, requests, faults>>

-----------------------------------------------------------------------------
(* _apply_llm_labels, on top of a run that has succeeded. *)

\* What LiteLlmLabeler.label makes of one answer of the provider: a usable
\* label, or a LabelError (the call failed, no JSON object, no label, too long).
Answers == {"label", "LabelError"}

\* The outcome record_llm_call writes in the llm_calls row.
RecordedOutcome(answer) == IF answer = "label" THEN "ok" ELSE "error"

Calls(r) ==
    IF labels[r].clusters < MaxLabelCalls THEN labels[r].clusters ELSE MaxLabelCalls

CallsLeft(w) ==
    worker[w].pc = "labelling" /\ Len(worker[w].results) < Calls(worker[w].run)

\* One call per cluster, up to the cap, outside any transaction; a LabelError
\* is kept for the audit row.
LabelCluster(w) ==
    /\ CallsLeft(w)
    /\ \E answer \in Answers : worker' = [worker EXCEPT ![w].results = Append(@, answer)]
    /\ labels' = [labels EXCEPT ![worker[w].run].sent = @ + 1]
    /\ UNCHANGED <<embedVars, queue, runs, assigned, clock, requests, faults>>

Labelled(w) == {i \in DOMAIN worker[w].results : worker[w].results[i] = "label"}

\* Mutant: only the calls that answered a label are recorded.
RecordAnswersOnly(w) ==
    LET answered == Labelled(w) IN
    /\ worker[w].pc = "labelling" /\ ~CallsLeft(w)
    /\ labels' = [labels EXCEPT ![worker[w].run].llm = answered,
                                ![worker[w].run].audit = [i \in 1 .. Cardinality(answered) |-> "ok"]]
    /\ worker' = [worker EXCEPT ![w] = IdleWorker]
    /\ UNCHANGED <<embedVars, queue, runs, assigned, clock, requests, faults>>

\* One transaction writes the labels and an llm_calls row for every call.
WriteLabels(w) ==
    /\ worker[w].pc = "labelling" /\ ~CallsLeft(w)
    /\ labels' = [labels EXCEPT
           ![worker[w].run].llm = Labelled(w),
           ![worker[w].run].audit =
               [i \in DOMAIN worker[w].results |-> RecordedOutcome(worker[w].results[i])]]
    /\ worker' = [worker EXCEPT ![w] = IdleWorker]
    /\ UNCHANGED <<embedVars, queue, runs, assigned, clock, requests, faults>>

\* The provider answers with something LiteLlmLabeler does not expect (no
\* choices): not a LabelError, so the results of all calls are dropped and
\* execute_clustering logs the exception.
LabelerRaises(w) ==
    /\ CallsLeft(w)
    /\ faults < MaxFaults
    /\ faults' = faults + 1
    /\ labels' = [labels EXCEPT ![worker[w].run].sent = @ + 1]
    /\ worker' = [worker EXCEPT ![w] = IdleWorker]
    /\ UNCHANGED <<embedVars, queue, runs, assigned, clock, requests>>

-----------------------------------------------------------------------------
\* The worker process dies.  Tasks under way are gone (the broker has no
\* acknowledgement): a completion that has not committed never will, one
\* that has does not queue its run, a recorded run stays recorded.
Busy == \/ \E w \in Workers : worker[w].pc # "idle"
        \/ \E d \in Documents : completion[d].pc \in {"flushed", "committed"}

WorkerCrash ==
    /\ Busy
    /\ faults < MaxFaults
    /\ faults' = faults + 1
    /\ worker' = [w \in Workers |-> IdleWorker]
    /\ completion' = [d \in Documents |->
           IF completion[d].pc \in {"flushed", "committed"}
           THEN [pc |-> "done", due |-> "none"]
           ELSE completion[d]]
    /\ UNCHANGED <<indexed, queue, runs, labels, assigned, clock, requests>>

\* The database or Redis goes away under one task: its transaction rolls
\* back and the task is over; the persist step is in no try block.
TaskAborts(w) ==
    /\ worker[w].pc # "idle"
    /\ faults < MaxFaults
    /\ faults' = faults + 1
    /\ worker' = [worker EXCEPT ![w] = IdleWorker]
    /\ UNCHANGED <<embedVars, queue, runs, labels, assigned, clock, requests>>

CompletionAborts(d) ==
    /\ completion[d].pc \in {"flushed", "committed"}
    /\ faults < MaxFaults
    /\ faults' = faults + 1
    /\ completion' = [completion EXCEPT ![d] = [pc |-> "done", due |-> "none"]]
    /\ UNCHANGED <<indexed, queue, runs, worker, labels, assigned, clock, requests>>

Complete(d) == FlushIndexed(d) \/ CommitIndexed(d) \/ EnqueueClustering(d)
Work(w) ==
    \/ LoadCorpus(w) \/ RecordRun(w) \/ FailEngine(w) \/ PersistOutcome(w)
    \/ LabelCluster(w) \/ WriteLabels(w)

Next ==
    \/ \E d \in Documents : Complete(d) \/ CompletionAborts(d)
    \/ Recluster
    \/ \E w \in Workers : Work(w) \/ LabelerRaises(w) \/ TaskAborts(w)
    \/ WorkerCrash

Spec == Init /\ [][Next]_vars

\* The worker's event loop goes on with every task it has.
Fairness ==
    /\ \A d \in Documents : WF_vars(CommitIndexed(d) \/ EnqueueClustering(d))
    /\ \A w \in Workers : WF_vars(Work(w))

LiveSpec == Spec /\ Fairness

\* And somebody asks for a recluster whenever the API would accept it.
EagerSpec == LiveSpec /\ WF_vars(Recluster)

-----------------------------------------------------------------------------
(* Properties. *)

WorkerType == [pc : {"idle", "recording", "computing", "labelling"},
               trigger : Triggers \cup {"none"}, corpus : SUBSET Documents, run : Nat,
               created : Nat, results : Seq(Answers)]

LabelType == [clusters : 0 .. MaxClusters, sent : Nat, llm : SUBSET (1 .. MaxClusters),
              audit : Seq({"ok", "error"})]

\* Every variable has its type; the run a task computes is a recorded one.
TypeOK ==
    /\ indexed \subseteq Documents
    /\ completion \in [Documents -> [pc : {"waiting", "flushed", "committed", "done"},
                                     due : Triggers \cup {"none"}]]
    /\ queue \in [Triggers -> Nat]
    /\ runs \in Seq(Run)
    /\ worker \in [Workers -> WorkerType]
    /\ labels \in Seq(LabelType) /\ Len(labels) = Len(runs)
    /\ assigned \in [Documents -> 0 .. Len(runs)]
    /\ clock \in Nat /\ requests \in Nat /\ faults \in Nat

\* Whatever runs overlap, the assignments a reader sees come from one run,
\* one that succeeded, and only indexed documents have one.
AssignmentsFromOneRun ==
    \A d \in Documents :
        assigned[d] # 0 =>
            /\ assigned[d] \in Succeeded
            /\ d \in indexed
            /\ \A e \in Documents : assigned[e] \in {0, assigned[d]}

\* A run that ended stays as it ended, with the count it was recorded with:
\* the count is the reference point of the next doubling.
RunsAreFinal ==
    [][\A r \in RunIds :
         /\ r \in DOMAIN runs'
         /\ runs'[r].count = runs[r].count /\ runs'[r].created = runs[r].created
         /\ runs[r].status # "running" => runs'[r] = runs[r]]_vars

\* Without crashes, a run recorded as running is being computed by exactly one
\* task: no error path leaves one behind.
RunningHasWorker ==
    \A r \in RunIds :
        runs[r].status = "running" /\ faults = 0 =>
            \E w \in Workers :
                /\ worker[w].pc = "computing" /\ worker[w].run = r
                /\ \A v \in Workers : worker[v].run = r => v = w

\* The spend of a run is capped and on record: a cluster has an LLM label
\* exactly when an llm_calls row says its call answered one, and once the
\* task has ended without a fault every call that was sent has its row.
CallsAudited ==
    \A r \in RunIds :
        /\ labels[r].llm = {i \in DOMAIN labels[r].audit : labels[r].audit[i] = "ok"}
        /\ labels[r].sent <= MaxLabelCalls
        /\ \/ Len(labels[r].audit) = labels[r].sent
           \/ faults > 0
           \/ \E w \in Workers : worker[w].run = r

\* Without crashes, every recorded run ends, and the runs that are queued are
\* taken up.
RunsEnd == []<>(faults = 0 => ~RunInFlight /\ \A t \in Triggers : queue[t] = 0)

-----------------------------------------------------------------------------
(* What comments and docstrings say and the code does not do. *)

Orphan(r) ==
    /\ r \in RunIds /\ runs[r].status = "running"
    /\ \A w \in Workers : worker[w].run # r

\* The module docstring: a crash leaves a running row "that a later run
\* supersedes".  The bound on requests must not be what prevents that run.
OrphanSuperseded ==
    \A r \in 1 .. Cardinality(Documents) + MaxRequests :
        (Orphan(r) /\ requests < MaxRequests) ~> (Len(runs) > r)

=============================================================================
