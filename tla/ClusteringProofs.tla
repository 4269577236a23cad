------------------------- MODULE ClusteringProofs --------------------------
(***************************************************************************)
(* The safety properties of Clustering for any documents, any number of    *)
(* tasks, clusters and calls, and any number of faults: what runs and      *)
(* tasks agree on, how many runs there can be, and that tasks end.         *)
(***************************************************************************)
EXTENDS Clustering, OrderTheorems, SequenceTheorems, TLAPS

\* What a task knows at each step of the rows it works on.
TaskConsistent(w) ==
    LET task == worker[w]
        r == task.run
    IN /\ task.corpus \subseteq indexed
       /\ task.pc \in {"idle", "recording"} => r = 0
       /\ task.pc = "recording" => task.trigger \in Triggers
       /\ task.pc \in {"recording", "computing"} => task.results = <<>>
       /\ task.pc \in {"computing", "labelling"} =>
              r \in RunIds /\ labels[r].sent = Len(task.results)
       /\ task.pc = "computing" => runs[r].status = "running"
       /\ task.pc = "labelling" => runs[r].status # "running" /\ Len(task.results) <= Calls(r)

\* While a task has a run, nothing is on record of its calls: labels and audit
\* rows are its last step.
NothingWritten ==
    \A w \in Workers :
        worker[w].run # 0 => labels[worker[w].run].llm = {} /\ labels[worker[w].run].audit = <<>>

\* A run has one task, as long as it has one.
OneTaskPerRun ==
    \A v, w \in Workers : worker[v].run = worker[w].run => worker[v].run = 0 \/ v = w

\* The properties themselves and what ties the tasks to their runs.
Consistent ==
    /\ \A w \in Workers : TaskConsistent(w)
    /\ NothingWritten
    /\ OneTaskPerRun
    /\ RunningHasWorker
    /\ AssignmentsFromOneRun
    /\ CallsAudited

IInv == TypeOK /\ Consistent

\* The types of the rows of a run, as functions of their index.
LEMMA RunTypes ==
  ASSUME TypeOK
  PROVE  /\ RunIds = 1 .. Len(runs) /\ Len(runs) \in Nat /\ DOMAIN labels = RunIds
         /\ \A r \in RunIds : runs[r] \in Run /\ labels[r] \in LabelType
  BY ElementOfSeq, LenProperties DEF TypeOK, RunIds

\* One row of clustering_runs changes.
LEMMA RunUpdated ==
  ASSUME TypeOK, NEW r \in RunIds, NEW row \in Run, runs' = [runs EXCEPT ![r] = row]
  PROVE  /\ runs' \in Seq(Run) /\ Len(runs') = Len(runs) /\ RunIds' = RunIds
         /\ \A q \in RunIds : runs'[q] = IF q = r THEN row ELSE runs[q]
  <1>1. runs \in Seq(Run) /\ r \in 1 .. Len(runs)
    BY RunTypes DEF TypeOK
  <1>2. /\ runs' \in Seq(Run) /\ Len(runs') = Len(runs)
        /\ \A q \in 1 .. Len(runs) : runs'[q] = IF q = r THEN row ELSE runs[q]
    BY <1>1, ExceptSeq
  <1> QED
    BY <1>1, <1>2, RunTypes, LenProperties DEF RunIds

\* What is known of the labels of one run changes.
LEMMA LabelsUpdated ==
  ASSUME TypeOK, NEW r \in RunIds, NEW row \in LabelType, labels' = [labels EXCEPT ![r] = row]
  PROVE  /\ labels' \in Seq(LabelType) /\ Len(labels') = Len(labels)
         /\ \A q \in RunIds : labels'[q] = IF q = r THEN row ELSE labels[q]
  <1>1. labels \in Seq(LabelType) /\ r \in 1 .. Len(labels) /\ RunIds = 1 .. Len(labels)
    BY RunTypes DEF TypeOK
  <1> QED
    BY <1>1, ExceptSeq

\* Before the first completion.
LEMMA InitIInv == Init => IInv
  <1> SUFFICES ASSUME Init PROVE IInv
    OBVIOUS
  <1>1. RunIds = {} /\ runs \in Seq(Run) /\ labels \in Seq(LabelType) /\ Len(runs) = 0 /\ Len(labels) = 0
    BY EmptySeq DEF Init, RunIds
  <1>2. \A w \in Workers : worker[w] = IdleWorker /\ IdleWorker \in WorkerType
    BY EmptySeq DEF Init, IdleWorker, WorkerType
  <1>3. TypeOK
    BY <1>1, <1>2 DEF Init, TypeOK, Waiting
  <1>4. \A w \in Workers : TaskConsistent(w)
    BY <1>2 DEF TaskConsistent, IdleWorker
  <1>5. NothingWritten /\ OneTaskPerRun
    BY <1>2 DEF NothingWritten, OneTaskPerRun, IdleWorker
  <1>6. RunningHasWorker /\ CallsAudited /\ AssignmentsFromOneRun
    BY <1>1 DEF Init, RunningHasWorker, CallsAudited, AssignmentsFromOneRun
  <1> QED
    BY <1>3, <1>4, <1>5, <1>6 DEF IInv, Consistent

\* Completions and requests do not touch runs, and no document leaves.
LEMMA Elsewhere ==
  ASSUME IInv, UNCHANGED <<runs, worker, labels, assigned, faults>>, indexed \subseteq indexed'
  PROVE  Consistent'
  <1>1. \A w \in Workers : TaskConsistent(w)'
    BY DEF IInv, Consistent, TaskConsistent, RunIds, Calls
  <1>2. NothingWritten' /\ OneTaskPerRun'
    BY DEF IInv, Consistent, NothingWritten, OneTaskPerRun
  <1>3. RunningHasWorker' /\ CallsAudited'
    BY DEF IInv, Consistent, RunningHasWorker, CallsAudited, RunIds
  <1>4. AssignmentsFromOneRun'
    BY DEF IInv, Consistent, AssignmentsFromOneRun, Succeeded, RunIds
  <1> QED
    BY <1>1, <1>2, <1>3, <1>4 DEF Consistent

\* A completion decides on a trigger, or on none.
LEMMA PendingTriggerType == \A d \in Documents : PendingTrigger(d) \in Triggers \cup {"none"}
  BY DEF PendingTrigger, EvaluateTrigger, Triggers

\* A completion adds a document and a message, and touches no run.
LEMMA CompleteIInv == ASSUME IInv, NEW d \in Documents, Complete(d) PROVE IInv'
  <1>1. TypeOK'
    <2>1. CASE FlushIndexed(d)
      BY <2>1, PendingTriggerType DEF FlushIndexed, IInv, TypeOK
    <2>2. CASE CommitIndexed(d)
      BY <2>2 DEF CommitIndexed, IInv, TypeOK
    <2>3. CASE EnqueueClustering(d)
      <3>1. queue' \in [Triggers -> Nat]
        BY <2>3 DEF EnqueueClustering, IInv, TypeOK
      <3> QED
        BY <2>3, <3>1 DEF EnqueueClustering, IInv, TypeOK
    <2> QED
      BY <2>1, <2>2, <2>3 DEF Complete
  <1>2. Consistent'
    BY Elsewhere DEF Complete, FlushIndexed, CommitIndexed, EnqueueClustering
  <1> QED
    BY <1>1, <1>2 DEF IInv, Consistent

\* A manual request adds a message.
LEMMA ReclusterIInv == ASSUME IInv, Recluster PROVE IInv'
  <1>1. TypeOK'
    <2>1. queue' \in [Triggers -> Nat]
      BY DEF Recluster, IInv, TypeOK, Triggers
    <2> QED
      BY <2>1 DEF Recluster, embedVars, IInv, TypeOK
  <1>2. Consistent'
    BY Elsewhere DEF Recluster, embedVars
  <1> QED
    BY <1>1, <1>2 DEF IInv, Consistent

\* The task of one slot changes.
LEMMA TaskUpdated ==
  ASSUME TypeOK, NEW w \in Workers, NEW task \in WorkerType, worker' = [worker EXCEPT ![w] = task]
  PROVE  /\ worker' \in [Workers -> WorkerType]
         /\ \A v \in Workers : worker'[v] = IF v = w THEN task ELSE worker[v]
  BY DEF TypeOK

\* A task that has ended is well typed.
LEMMA IdleType == IdleWorker \in WorkerType
  BY EmptySeq DEF IdleWorker, WorkerType

\* The size of a corpus is a number.
LEMMA CorpusType ==
  ASSUME NEW S \in SUBSET Documents
  PROVE  Cardinality(S) \in Nat
  BY ClusteringAssumption, FS_Subset, FS_CardinalityType DEF ClusteringAssumption

\* A task takes a message and remembers documents that are indexed.
LEMMA LoadCorpusIInv == ASSUME IInv, NEW w \in Workers, LoadCorpus(w) PROVE IInv'
  <1> PICK t \in Triggers : LoadCorpus(w)!(t)
    BY DEF LoadCorpus
  <1> DEFINE corpus == Pooled(indexed)
             task == [pc |-> "recording", trigger |-> t, corpus |-> corpus, run |-> 0,
                      created |-> clock + 1, results |-> <<>>]
  <1>0. queue' \in [Triggers -> Nat]
    BY DEF IInv, TypeOK
  <1>1. CASE Cardinality(corpus) < EngineMinimum
    <2>1. TypeOK'
      BY <1>0, <1>1 DEF embedVars, IInv, TypeOK
    <2>2. Consistent'
      BY <1>1, Elsewhere DEF embedVars
    <2> QED
      BY <2>1, <2>2 DEF IInv
  <1>2. CASE ~(Cardinality(corpus) < EngineMinimum)
    <2>1. task \in WorkerType
      BY EmptySeq DEF WorkerType, IInv, TypeOK, Pooled
    <2>2. clock' = clock + 1 /\ worker' = [worker EXCEPT ![w] = task]
      BY <1>2
    <2> HIDE DEF task
    <2>3. /\ worker' \in [Workers -> WorkerType]
          /\ \A v \in Workers : worker'[v] = IF v = w THEN task ELSE worker[v]
      BY <2>1, <2>2, TaskUpdated DEF IInv
    <2>4. worker[w].pc = "idle" /\ worker[w].run = 0
      BY DEF IInv, Consistent, TaskConsistent
    <2>5. /\ task.corpus \subseteq indexed /\ task.run = 0 /\ task.pc = "recording"
          /\ task.trigger \in Triggers /\ task.results = <<>>
      BY DEF task, Pooled
    <2>6. /\ indexed' = indexed /\ runs' = runs /\ labels' = labels /\ assigned' = assigned
          /\ faults' = faults /\ completion' = completion /\ requests' = requests
      BY DEF embedVars
    <2>7. TypeOK'
      BY <1>0, <2>2, <2>3, <2>6 DEF IInv, TypeOK
    <2>8. \A v \in Workers : TaskConsistent(v)'
      BY <2>3, <2>5, <2>6 DEF IInv, Consistent, TaskConsistent, RunIds, Calls
    <2>9. NothingWritten' /\ OneTaskPerRun'
      <3>1. NothingWritten /\ OneTaskPerRun
        BY DEF IInv, Consistent
      <3>2. \A v \in Workers : worker'[v].run = worker[v].run
        BY <2>3, <2>4, <2>5
      <3> QED
        BY <2>6, <3>1, <3>2 DEF NothingWritten, OneTaskPerRun
    <2>10. RunIds' = RunIds /\ 0 \notin RunIds
      BY <2>6, RunTypes DEF IInv, RunIds
    <2>11. RunningHasWorker' /\ CallsAudited'
      BY <2>3, <2>4, <2>5, <2>6, <2>10 DEF IInv, Consistent, RunningHasWorker, CallsAudited
    <2>12. AssignmentsFromOneRun'
      BY <2>6 DEF IInv, Consistent, AssignmentsFromOneRun, Succeeded, RunIds
    <2> QED
      BY <2>7, <2>8, <2>9, <2>11, <2>12 DEF IInv, Consistent
  <1> QED
    BY <1>1, <1>2

\* The new run has an index no task has, so its task is its only one.
LEMMA RecordRunIInv == ASSUME IInv, NEW w \in Workers, RecordRun(w) PROVE IInv'
  <1> DEFINE new == Len(runs) + 1
             row == [status |-> "running", trigger |-> worker[w].trigger,
                     count |-> Cardinality(worker[w].corpus), created |-> worker[w].created]
             task == [worker[w] EXCEPT !.pc = "computing", !.run = new]
  <1>1. worker[w] \in WorkerType /\ worker[w].pc = "recording" /\ worker[w].run = 0
    BY DEF IInv, TypeOK, Consistent, TaskConsistent, RecordRun
  <1>2. row \in Run
    BY <1>1, CorpusType DEF IInv, Consistent, TaskConsistent, Run, RunStates, WorkerType
  <1>3. Unlabelled(0) \in LabelType
    BY ClusteringAssumption, EmptySeq DEF Unlabelled, LabelType
  <1>4. task \in WorkerType /\ worker' = [worker EXCEPT ![w] = task]
    <2>1. new \in Nat
      BY RunTypes DEF IInv
    <2>2. worker' = [worker EXCEPT ![w] = task]
      BY DEF RecordRun, IInv, TypeOK
    <2> QED
      BY <1>1, <2>1, <2>2 DEF WorkerType
  <1>5. runs' = Append(runs, row) /\ labels' = Append(labels, Unlabelled(0))
    BY DEF RecordRun
  <1>6. task.pc = "computing" /\ task.run = new /\ task.results = <<>> /\ task.corpus \subseteq indexed
    BY <1>1 DEF WorkerType, IInv, Consistent, TaskConsistent
  <1>7. row.status = "running"
    OBVIOUS
  <1>8. /\ indexed' = indexed /\ assigned' = assigned /\ faults' = faults /\ clock' = clock
        /\ completion' = completion /\ requests' = requests /\ queue' = queue
    BY DEF RecordRun, embedVars
  <1> HIDE DEF row, task
  <1>9. /\ worker' \in [Workers -> WorkerType]
        /\ \A v \in Workers : worker'[v] = IF v = w THEN task ELSE worker[v]
    BY <1>4, TaskUpdated DEF IInv
  <1>10. /\ RunIds = 1 .. Len(runs) /\ Len(runs) \in Nat /\ Len(labels) = Len(runs)
         /\ runs \in Seq(Run) /\ labels \in Seq(LabelType)
    BY RunTypes DEF IInv, TypeOK
  <1>11. /\ runs' \in Seq(Run) /\ Len(runs') = new /\ RunIds' = 1 .. new
         /\ \A r \in RunIds : runs'[r] = runs[r]
         /\ runs'[new] = row
    BY <1>2, <1>5, <1>10, AppendProperties, LenProperties DEF RunIds
  <1>12. /\ labels' \in Seq(LabelType) /\ Len(labels') = new
         /\ \A r \in RunIds : labels'[r] = labels[r]
         /\ labels'[new] = Unlabelled(0)
    BY <1>3, <1>5, <1>10, AppendProperties
  <1>13. \A v \in Workers : worker[v].run \in RunIds \cup {0}
    BY DEF IInv, TypeOK, WorkerType, Consistent, TaskConsistent
  <1> HIDE DEF new
  <1>14. new \notin RunIds /\ new # 0 /\ RunIds' = RunIds \cup {new} /\ 0 \notin RunIds
    BY <1>10, <1>11 DEF new
  <1>15. TypeOK'
    <2>1. assigned' \in [Documents -> 0 .. Len(runs')]
      BY <1>8, <1>10, <1>11 DEF IInv, TypeOK, new
    <2> QED
      BY <1>8, <1>9, <1>11, <1>12, <2>1 DEF IInv, TypeOK
  <1>16. \A v \in Workers : TaskConsistent(v)'
    <2>1. TaskConsistent(w)'
      BY <1>6, <1>7, <1>8, <1>9, <1>11, <1>12, <1>14 DEF TaskConsistent, Unlabelled
    <2>2. ASSUME NEW v \in Workers, v # w PROVE TaskConsistent(v)'
      BY <2>2, <1>8, <1>9, <1>11, <1>12, <1>14 DEF IInv, Consistent, TaskConsistent, Calls
    <2> QED
      BY <2>1, <2>2
  <1>17. NothingWritten'
    <2>1. labels'[new].llm = {} /\ labels'[new].audit = <<>>
      BY <1>12 DEF Unlabelled
    <2>2. ASSUME NEW v \in Workers, v # w, worker'[v].run # 0
          PROVE  labels'[worker'[v].run].llm = {} /\ labels'[worker'[v].run].audit = <<>>
      <3>1. worker'[v] = worker[v] /\ worker[v].run \in RunIds
        BY <1>9, <1>13, <2>2
      <3>2. labels'[worker[v].run] = labels[worker[v].run]
        BY <1>12, <3>1
      <3> QED
        BY <2>2, <3>1, <3>2 DEF IInv, Consistent, NothingWritten
    <2> QED
      BY <1>6, <1>9, <2>1, <2>2 DEF NothingWritten
  <1>18. OneTaskPerRun'
    BY <1>6, <1>9, <1>13, <1>14 DEF IInv, Consistent, OneTaskPerRun
  <1>19. RunningHasWorker'
    BY <1>1, <1>6, <1>8, <1>9, <1>11, <1>13, <1>14 DEF IInv, Consistent, RunningHasWorker
  <1>20. CallsAudited'
    <2>1. ASSUME NEW r \in RunIds
          PROVE  (\E v \in Workers : worker[v].run = r) => \E v \in Workers : worker'[v].run = r
      BY <1>1, <1>9, <1>14
    <2>2. Unlabelled(0).audit = <<>> /\ Unlabelled(0).sent = 0 /\ Unlabelled(0).llm = {}
          /\ Len(<<>>) = 0 /\ DOMAIN <<>> = {}
      BY DEF Unlabelled
    <2> QED
      BY <1>8, <1>12, <1>14, <2>1, <2>2, ClusteringAssumption DEF IInv, Consistent, CallsAudited
  <1>21. AssignmentsFromOneRun'
    BY <1>8, <1>11, <1>14 DEF IInv, Consistent, AssignmentsFromOneRun, Succeeded
  <1> QED
    BY <1>15, <1>16, <1>17, <1>18, <1>19, <1>20, <1>21 DEF IInv, Consistent

\* A task changes, and of the rows only those of its run: the others go on.
LEMMA OthersUndisturbed ==
  ASSUME IInv, NEW w \in Workers, NEW task \in WorkerType, worker' = [worker EXCEPT ![w] = task],
         task.run \in {0, worker[w].run}, indexed' = indexed, RunIds' = RunIds,
         \A q \in RunIds : q # worker[w].run => runs'[q] = runs[q] /\ labels'[q] = labels[q]
  PROVE  /\ worker' \in [Workers -> WorkerType] /\ worker'[w] = task
         /\ \A v \in Workers : v # w => worker'[v] = worker[v] /\ TaskConsistent(v)'
         /\ \A v \in Workers : v # w /\ worker'[v].run # 0 =>
                /\ labels'[worker'[v].run].llm = {} /\ labels'[worker'[v].run].audit = <<>>
         /\ OneTaskPerRun'
  <1>1. /\ worker' \in [Workers -> WorkerType]
        /\ \A v \in Workers : worker'[v] = IF v = w THEN task ELSE worker[v]
    BY TaskUpdated DEF IInv
  <1>2. 0 \notin RunIds
    BY RunTypes DEF IInv
  <1>3. OneTaskPerRun'
    BY <1>1 DEF IInv, Consistent, OneTaskPerRun
  <1>4. ASSUME NEW v \in Workers, v # w
        PROVE  worker'[v] = worker[v] /\ TaskConsistent(v)'
    <2>1. worker'[v] = worker[v]
      BY <1>1, <1>4
    <2>2. worker[v].run # worker[w].run \/ worker[v].run = 0
      BY <1>4 DEF IInv, Consistent, OneTaskPerRun
    <2> QED
      BY <2>1, <2>2, <1>2 DEF IInv, Consistent, TaskConsistent, Calls
  <1>5. ASSUME NEW v \in Workers, v # w, worker'[v].run # 0
        PROVE  labels'[worker'[v].run].llm = {} /\ labels'[worker'[v].run].audit = <<>>
    <2>1. worker'[v] = worker[v] /\ worker[v].run # worker[w].run
      BY <1>1, <1>5 DEF IInv, Consistent, OneTaskPerRun
    <2>2. worker[v].run \in RunIds
      BY <1>5, <2>1 DEF IInv, TypeOK, WorkerType, Consistent, TaskConsistent
    <2> QED
      BY <1>5, <2>1, <2>2 DEF IInv, Consistent, NothingWritten
  <1> QED
    BY <1>1, <1>3, <1>4, <1>5

\* The same when the task leaves.
LEMMA TaskLeaves ==
  ASSUME IInv, NEW w \in Workers, worker' = [worker EXCEPT ![w] = IdleWorker],
         indexed' = indexed, RunIds' = RunIds,
         \A q \in RunIds : q # worker[w].run => runs'[q] = runs[q] /\ labels'[q] = labels[q]
  PROVE  /\ worker' \in [Workers -> WorkerType] /\ worker'[w] = IdleWorker
         /\ \A v \in Workers : v # w => worker'[v] = worker[v]
         /\ \A v \in Workers : TaskConsistent(v)'
         /\ NothingWritten' /\ OneTaskPerRun'
  <1>1. IdleWorker.run = 0
    BY DEF IdleWorker
  <1>2. /\ worker' \in [Workers -> WorkerType] /\ worker'[w] = IdleWorker
        /\ \A v \in Workers : v # w => worker'[v] = worker[v] /\ TaskConsistent(v)'
        /\ \A v \in Workers : v # w /\ worker'[v].run # 0 =>
               /\ labels'[worker'[v].run].llm = {} /\ labels'[worker'[v].run].audit = <<>>
        /\ OneTaskPerRun'
    BY <1>1, IdleType, OthersUndisturbed
  <1>3. TaskConsistent(w)'
    BY <1>2 DEF TaskConsistent, IdleWorker
  <1>4. NothingWritten'
    BY <1>1, <1>2 DEF NothingWritten
  <1> QED
    BY <1>2, <1>3, <1>4

\* The run of the task ends, and with it the claim that it has a task.
LEMMA FailEngineIInv == ASSUME IInv, NEW w \in Workers, FailEngine(w) PROVE IInv'
  <1> DEFINE r == worker[w].run
             row == [runs[r] EXCEPT !.status = "failed"]
  <1>1. /\ r \in RunIds /\ runs[r].status = "running" /\ runs[r] \in Run
        /\ labels[r].sent = Len(worker[w].results) /\ worker[w].results = <<>>
        /\ worker[w].pc = "computing"
    BY RunTypes DEF FailEngine, IInv, Consistent, TaskConsistent
  <1>2. row \in Run /\ runs' = [runs EXCEPT ![r] = row] /\ row.status = "failed"
    BY <1>1 DEF Run, RunStates, FailEngine
  <1> HIDE DEF row
  <1>3. /\ runs' \in Seq(Run) /\ Len(runs') = Len(runs) /\ RunIds' = RunIds
        /\ \A q \in RunIds : runs'[q] = IF q = r THEN row ELSE runs[q]
    BY <1>1, <1>2, RunUpdated DEF IInv
  <1>4. /\ indexed' = indexed /\ labels' = labels /\ assigned' = assigned /\ faults' = faults
        /\ clock' = clock /\ completion' = completion /\ requests' = requests /\ queue' = queue
        /\ worker' = [worker EXCEPT ![w] = IdleWorker]
    BY DEF FailEngine, embedVars
  <1>5. /\ worker' \in [Workers -> WorkerType] /\ worker'[w] = IdleWorker
        /\ \A v \in Workers : v # w => worker'[v] = worker[v]
        /\ \A v \in Workers : TaskConsistent(v)'
        /\ NothingWritten' /\ OneTaskPerRun'
    BY <1>3, <1>4, TaskLeaves
  <1>6. TypeOK'
    BY <1>3, <1>4, <1>5 DEF IInv, TypeOK
  <1>7. 0 \notin RunIds /\ IdleWorker.run = 0
    BY RunTypes DEF IInv, IdleWorker
  <1>8. RunningHasWorker'
    BY <1>2, <1>3, <1>4, <1>5, <1>7 DEF IInv, Consistent, RunningHasWorker
  <1>9. CallsAudited'
    <2>1. Len(labels[r].audit) = labels[r].sent
      BY <1>1, <1>7 DEF IInv, Consistent, NothingWritten
    <2> QED
      BY <1>3, <1>4, <1>5, <2>1 DEF IInv, Consistent, CallsAudited
  <1>10. AssignmentsFromOneRun'
    BY <1>1, <1>3, <1>4 DEF IInv, Consistent, AssignmentsFromOneRun, Succeeded
  <1> QED
    BY <1>5, <1>6, <1>8, <1>9, <1>10 DEF IInv, Consistent

\* All assignments are replaced in one step by those of a run that succeeds.
LEMMA PersistOutcomeIInv == ASSUME IInv, NEW w \in Workers, PersistOutcome(w) PROVE IInv'
  <1> PICK output \in ClusterDocuments(worker[w].corpus) :
              /\ assigned' = [d \in Documents |->
                                 IF d \in output.members THEN worker[w].run ELSE 0]
              /\ labels' = [labels EXCEPT ![worker[w].run] = Unlabelled(output.clusters)]
    BY DEF PersistOutcome
  <1> DEFINE r == worker[w].run
             row == [runs[r] EXCEPT !.status = "succeeded"]
             task == [worker[w] EXCEPT !.pc = "labelling"]
             label == Unlabelled(output.clusters)
  <1>1. /\ r \in RunIds /\ runs[r] \in Run /\ worker[w] \in WorkerType
        /\ worker[w].pc = "computing" /\ worker[w].results = <<>> /\ worker[w].corpus \subseteq indexed
    BY RunTypes DEF PersistOutcome, IInv, TypeOK, Consistent, TaskConsistent
  <1>2. row \in Run /\ runs' = [runs EXCEPT ![r] = row] /\ row.status = "succeeded"
    BY <1>1 DEF Run, RunStates, PersistOutcome
  <1>3. /\ label \in LabelType /\ label.sent = 0 /\ label.llm = {} /\ label.audit = <<>>
        /\ label.clusters \in Nat
        /\ output.members \subseteq worker[w].corpus
    BY ClusteringAssumption, EmptySeq DEF ClusterDocuments, Unlabelled, LabelType
  <1>4. /\ task \in WorkerType /\ worker' = [worker EXCEPT ![w] = task]
        /\ task.run = r /\ task.pc = "labelling" /\ task.results = <<>> /\ task.corpus \subseteq indexed
    BY <1>1 DEF WorkerType, PersistOutcome
  <1>5. /\ indexed' = indexed /\ faults' = faults /\ clock' = clock
        /\ completion' = completion /\ requests' = requests /\ queue' = queue
    BY DEF PersistOutcome, embedVars
  <1> HIDE DEF row, task, label
  <1>6. /\ runs' \in Seq(Run) /\ Len(runs') = Len(runs) /\ RunIds' = RunIds
        /\ \A q \in RunIds : runs'[q] = IF q = r THEN row ELSE runs[q]
    BY <1>1, <1>2, RunUpdated DEF IInv
  <1>7. /\ labels' \in Seq(LabelType) /\ Len(labels') = Len(labels)
        /\ \A q \in RunIds : labels'[q] = IF q = r THEN label ELSE labels[q]
    BY <1>1, <1>3, LabelsUpdated DEF IInv, label
  <1>8. /\ worker' \in [Workers -> WorkerType] /\ worker'[w] = task
        /\ \A v \in Workers : v # w => worker'[v] = worker[v] /\ TaskConsistent(v)'
        /\ \A v \in Workers : v # w /\ worker'[v].run # 0 =>
               /\ labels'[worker'[v].run].llm = {} /\ labels'[worker'[v].run].audit = <<>>
        /\ OneTaskPerRun'
    <2>1. r = worker[w].run
      OBVIOUS
    <2> HIDE DEF r
    <2>2. \A q \in RunIds : q # worker[w].run => runs'[q] = runs[q] /\ labels'[q] = labels[q]
      BY <1>6, <1>7, <2>1
    <2>3. task.run \in {0, worker[w].run}
      BY <1>4, <2>1
    <2> QED
      BY <1>4, <1>5, <1>6, <2>2, <2>3, OthersUndisturbed
  <1>9. TypeOK'
    <2>1. assigned' \in [Documents -> 0 .. Len(runs')]
      BY <1>1, <1>6, RunTypes DEF IInv
    <2> QED
      BY <1>5, <1>6, <1>7, <1>8, <2>1 DEF IInv, TypeOK
  <1>10. TaskConsistent(w)'
    <2>1. labels'[r] = label /\ runs'[r] = row /\ worker'[w].run = r
      BY <1>1, <1>4, <1>6, <1>7, <1>8
    <2>2. 0 <= IF label.clusters < MaxLabelCalls THEN label.clusters ELSE MaxLabelCalls
      BY <1>3, ClusteringAssumption DEF ClusteringAssumption
    <2>3. Len(<<>>) = 0
      OBVIOUS
    <2> QED
      BY <1>1, <1>2, <1>3, <1>4, <1>5, <1>6, <1>8, <2>1, <2>2, <2>3 DEF TaskConsistent, Calls
  <1>11. NothingWritten'
    BY <1>1, <1>3, <1>4, <1>7, <1>8 DEF NothingWritten
  <1>12. RunningHasWorker'
    BY <1>2, <1>4, <1>5, <1>6, <1>8 DEF IInv, Consistent, RunningHasWorker
  <1>13. CallsAudited'
    <2>1. Len(<<>>) = 0 /\ DOMAIN <<>> = {}
      OBVIOUS
    <2>2. \A q \in RunIds : q # r =>
             ((\E v \in Workers : worker[v].run = q) => \E v \in Workers : worker'[v].run = q)
      BY <1>8
    <2> QED
      BY <1>3, <1>5, <1>6, <1>7, <2>1, <2>2, ClusteringAssumption
      DEF IInv, Consistent, CallsAudited, ClusteringAssumption
  <1>14. AssignmentsFromOneRun'
    BY <1>1, <1>2, <1>3, <1>5, <1>6 DEF AssignmentsFromOneRun, Succeeded
  <1> QED
    BY <1>8, <1>9, <1>10, <1>11, <1>12, <1>13, <1>14 DEF IInv, Consistent

\* A call that was sent and is not over yet.
LEMMA CallSent ==
  ASSUME IInv, NEW w \in Workers, CallsLeft(w),
         labels' = [labels EXCEPT ![worker[w].run].sent = @ + 1]
  PROVE  LET r == worker[w].run IN
         /\ r \in RunIds /\ labels[r].sent = Len(worker[w].results) /\ labels[r].sent \in Nat
         /\ labels[r].sent + 1 <= Calls(r) /\ Calls(r) \in Nat
         /\ labels[r].sent + 1 <= MaxLabelCalls
         /\ labels' \in Seq(LabelType) /\ Len(labels') = Len(labels)
         /\ \A q \in RunIds \ {r} : labels'[q] = labels[q]
         /\ labels'[r].sent = labels[r].sent + 1
         /\ labels'[r].clusters = labels[r].clusters
         /\ labels'[r].llm = labels[r].llm /\ labels'[r].audit = labels[r].audit
  <1> DEFINE r == worker[w].run
             row == [labels[r] EXCEPT !.sent = @ + 1]
  <1>1. /\ r \in RunIds /\ labels[r].sent = Len(worker[w].results) /\ labels[r] \in LabelType
        /\ Len(worker[w].results) < Calls(r)
    BY RunTypes DEF IInv, Consistent, TaskConsistent, CallsLeft
  <1>2. Calls(r) <= MaxLabelCalls /\ Calls(r) \in Nat
    BY <1>1, ClusteringAssumption DEF Calls, LabelType, ClusteringAssumption
  <1>3. /\ row \in LabelType /\ labels' = [labels EXCEPT ![r] = row]
        /\ row.sent = labels[r].sent + 1 /\ row.clusters = labels[r].clusters
        /\ row.llm = labels[r].llm /\ row.audit = labels[r].audit /\ labels[r].sent \in Nat
    BY <1>1 DEF LabelType
  <1> HIDE DEF row
  <1>4. /\ labels' \in Seq(LabelType) /\ Len(labels') = Len(labels)
        /\ \A q \in RunIds : labels'[q] = IF q = r THEN row ELSE labels[q]
    BY <1>1, <1>3, LabelsUpdated DEF IInv
  <1>5. labels[r].sent + 1 <= Calls(r) /\ labels[r].sent + 1 <= MaxLabelCalls
    BY <1>1, <1>2, <1>3, ClusteringAssumption DEF ClusteringAssumption
  <1> QED
    BY <1>1, <1>2, <1>3, <1>4, <1>5

\* One more call is sent and one more result is kept.
LEMMA LabelClusterIInv == ASSUME IInv, NEW w \in Workers, LabelCluster(w) PROVE IInv'
  <1> PICK answer \in Answers : worker' = [worker EXCEPT ![w].results = Append(@, answer)]
    BY DEF LabelCluster
  <1> DEFINE r == worker[w].run
             task == [worker[w] EXCEPT !.results = Append(@, answer)]
  <1>1. /\ r \in RunIds /\ labels[r].sent = Len(worker[w].results) /\ labels[r].sent \in Nat
        /\ labels[r].sent + 1 <= Calls(r) /\ Calls(r) \in Nat
        /\ labels[r].sent + 1 <= MaxLabelCalls
        /\ labels' \in Seq(LabelType) /\ Len(labels') = Len(labels)
        /\ \A q \in RunIds \ {r} : labels'[q] = labels[q]
        /\ labels'[r].sent = labels[r].sent + 1
        /\ labels'[r].clusters = labels[r].clusters
        /\ labels'[r].llm = labels[r].llm /\ labels'[r].audit = labels[r].audit
    BY CallSent DEF LabelCluster
  <1>2. /\ worker[w] \in WorkerType /\ worker[w].pc = "labelling" /\ worker[w].results \in Seq(Answers)
        /\ worker[w].corpus \subseteq indexed /\ runs[r].status # "running"
    BY DEF LabelCluster, CallsLeft, IInv, TypeOK, WorkerType, Consistent, TaskConsistent
  <1>3. /\ Append(worker[w].results, answer) \in Seq(Answers)
        /\ Len(Append(worker[w].results, answer)) = labels[r].sent + 1
    BY <1>1, <1>2, AppendProperties
  <1>4. /\ task \in WorkerType /\ worker' = [worker EXCEPT ![w] = task]
        /\ task.run = r /\ task.pc = "labelling" /\ task.corpus \subseteq indexed
        /\ Len(task.results) = labels[r].sent + 1
    BY <1>2, <1>3 DEF WorkerType
  <1>5. /\ indexed' = indexed /\ faults' = faults /\ clock' = clock /\ runs' = runs
        /\ completion' = completion /\ requests' = requests /\ queue' = queue /\ assigned' = assigned
    BY DEF LabelCluster, embedVars
  <1> HIDE DEF task
  <1>6. RunIds' = RunIds
    BY <1>5 DEF RunIds
  <1>7. /\ worker' \in [Workers -> WorkerType] /\ worker'[w] = task
        /\ \A v \in Workers : v # w => worker'[v] = worker[v] /\ TaskConsistent(v)'
        /\ \A v \in Workers : v # w /\ worker'[v].run # 0 =>
               /\ labels'[worker'[v].run].llm = {} /\ labels'[worker'[v].run].audit = <<>>
        /\ OneTaskPerRun'
    <2>1. \A q \in RunIds : q # worker[w].run => runs'[q] = runs[q] /\ labels'[q] = labels[q]
      BY <1>1, <1>5
    <2>2. task.run \in {0, worker[w].run}
      BY <1>4
    <2> QED
      BY <1>4, <1>5, <1>6, <2>1, <2>2, OthersUndisturbed
  <1>8. TypeOK'
    BY <1>1, <1>5, <1>7 DEF IInv, TypeOK
  <1>9. TaskConsistent(w)'
    <2>1. Len(task.results) <= IF labels'[r].clusters < MaxLabelCalls
                               THEN labels'[r].clusters ELSE MaxLabelCalls
      BY <1>1, <1>4 DEF Calls
    <2> QED
      BY <1>1, <1>2, <1>4, <1>5, <1>6, <1>7, <2>1 DEF TaskConsistent, Calls
  <1>10. NothingWritten'
    BY <1>1, <1>4, <1>7 DEF IInv, Consistent, NothingWritten
  <1>11. RunningHasWorker'
    BY <1>2, <1>4, <1>5, <1>6, <1>7 DEF IInv, Consistent, RunningHasWorker
  <1>12. CallsAudited'
    <2>1. labels'[r].sent <= MaxLabelCalls
      BY <1>1
    <2>2. \A q \in RunIds :
             (\E v \in Workers : worker[v].run = q) => \E v \in Workers : worker'[v].run = q
      BY <1>4, <1>7
    <2>3. worker'[w].run = r
      BY <1>4, <1>7
    <2> QED
      BY <1>1, <1>5, <1>6, <2>1, <2>2, <2>3 DEF IInv, Consistent, CallsAudited
  <1>13. AssignmentsFromOneRun'
    BY <1>5, <1>6 DEF IInv, Consistent, AssignmentsFromOneRun, Succeeded
  <1> QED
    BY <1>7, <1>8, <1>9, <1>10, <1>11, <1>12, <1>13 DEF IInv, Consistent

\* The results are written call by call: labels and audit rows agree.
LEMMA WriteLabelsIInv == ASSUME IInv, NEW w \in Workers, WriteLabels(w) PROVE IInv'
  <1> DEFINE r == worker[w].run
             results == worker[w].results
             audit == [i \in DOMAIN results |-> RecordedOutcome(results[i])]
             row == [labels[r] EXCEPT !.llm = Labelled(w), !.audit = audit]
  <1>1. /\ worker[w] \in WorkerType /\ worker[w].pc = "labelling" /\ results \in Seq(Answers)
        /\ r \in RunIds /\ labels[r] \in LabelType /\ runs[r].status # "running"
        /\ labels[r].sent = Len(results) /\ Len(results) <= Calls(r)
    BY RunTypes DEF WriteLabels, IInv, TypeOK, WorkerType, Consistent, TaskConsistent
  <1>2. Len(results) \in Nat /\ DOMAIN results = 1 .. Len(results) /\ Len(results) <= MaxClusters
    <2>1. Len(results) \in Nat /\ DOMAIN results = 1 .. Len(results)
      BY <1>1, LenProperties
    <2>2. Calls(r) <= MaxClusters
      BY <1>1, ClusteringAssumption DEF Calls, LabelType, ClusteringAssumption
    <2> QED
      BY <1>1, <2>1, <2>2, ClusteringAssumption DEF Calls, LabelType, ClusteringAssumption
  <1>3. /\ audit \in Seq({"ok", "error"}) /\ Len(audit) = Len(results)
        /\ DOMAIN audit = DOMAIN results
        /\ \A i \in DOMAIN results : audit[i] = "ok" <=> results[i] = "label"
    BY <1>2 DEF RecordedOutcome
  <1>4. Labelled(w) \in SUBSET (1 .. MaxClusters) /\ Labelled(w) = {i \in DOMAIN audit : audit[i] = "ok"}
    <2>1. \A i \in DOMAIN results : i \in 1 .. MaxClusters
      BY <1>2, ClusteringAssumption DEF ClusteringAssumption
    <2> HIDE DEF audit
    <2>2. Labelled(w) = {i \in DOMAIN audit : audit[i] = "ok"}
      BY <1>3 DEF Labelled
    <2> QED
      BY <2>1, <2>2 DEF Labelled
  <1>5. /\ row \in LabelType /\ labels' = [labels EXCEPT ![r] = row]
        /\ row.sent = labels[r].sent /\ row.llm = {i \in DOMAIN row.audit : row.audit[i] = "ok"}
        /\ Len(row.audit) = row.sent
    <2> HIDE DEF audit
    <2>1. labels' = [labels EXCEPT ![r] = row]
      BY DEF WriteLabels, audit, IInv, TypeOK
    <2> QED
      BY <1>1, <1>3, <1>4, <2>1 DEF LabelType
  <1> HIDE DEF row, audit
  <1>6. /\ labels' \in Seq(LabelType) /\ Len(labels') = Len(labels)
        /\ \A q \in RunIds : labels'[q] = IF q = r THEN row ELSE labels[q]
    BY <1>1, <1>5, LabelsUpdated DEF IInv
  <1>7. /\ indexed' = indexed /\ faults' = faults /\ clock' = clock /\ runs' = runs
        /\ completion' = completion /\ requests' = requests /\ queue' = queue /\ assigned' = assigned
        /\ worker' = [worker EXCEPT ![w] = IdleWorker]
    BY DEF WriteLabels, embedVars
  <1>8. RunIds' = RunIds /\ 0 \notin RunIds /\ IdleWorker.run = 0
    BY <1>7, RunTypes DEF RunIds, IdleWorker, IInv
  <1>9. /\ worker' \in [Workers -> WorkerType] /\ worker'[w] = IdleWorker
        /\ \A v \in Workers : v # w => worker'[v] = worker[v]
        /\ \A v \in Workers : TaskConsistent(v)'
        /\ NothingWritten' /\ OneTaskPerRun'
    BY <1>6, <1>7, <1>8, TaskLeaves
  <1>10. TypeOK'
    BY <1>6, <1>7, <1>9 DEF IInv, TypeOK
  <1>11. RunningHasWorker'
    BY <1>1, <1>7, <1>8, <1>9 DEF IInv, Consistent, RunningHasWorker
  <1>12. CallsAudited'
    <2>1. \A q \in RunIds : q # r =>
             ((\E v \in Workers : worker[v].run = q) => \E v \in Workers : worker'[v].run = q)
      BY <1>9
    <2> QED
      BY <1>1, <1>5, <1>6, <1>7, <1>8, <2>1 DEF IInv, Consistent, CallsAudited
  <1>13. AssignmentsFromOneRun'
    BY <1>7, <1>8 DEF IInv, Consistent, AssignmentsFromOneRun, Succeeded
  <1> QED
    BY <1>9, <1>10, <1>11, <1>12, <1>13 DEF IInv, Consistent

\* After a fault what was promised "without a fault" is no longer.
LEMMA AfterFault ==
  ASSUME IInv, faults' = faults + 1
  PROVE  faults' \in Nat /\ faults' > 0 /\ RunningHasWorker'
  <1>1. faults' \in Nat /\ faults' > 0
    BY DEF IInv, TypeOK
  <1> QED
    BY <1>1 DEF RunningHasWorker

\* The results are dropped, which is a fault.
LEMMA LabelerRaisesIInv == ASSUME IInv, NEW w \in Workers, LabelerRaises(w) PROVE IInv'
  <1> DEFINE r == worker[w].run
  <1>1. /\ r \in RunIds /\ labels' \in Seq(LabelType) /\ Len(labels') = Len(labels)
        /\ labels[r].sent + 1 <= MaxLabelCalls
        /\ \A q \in RunIds \ {r} : labels'[q] = labels[q]
        /\ labels'[r].sent = labels[r].sent + 1
        /\ labels'[r].llm = labels[r].llm /\ labels'[r].audit = labels[r].audit
    BY CallSent DEF LabelerRaises
  <1>2. /\ indexed' = indexed /\ clock' = clock /\ runs' = runs
        /\ completion' = completion /\ requests' = requests /\ queue' = queue /\ assigned' = assigned
        /\ worker' = [worker EXCEPT ![w] = IdleWorker]
    BY DEF LabelerRaises, embedVars
  <1>3. faults' \in Nat /\ faults' > 0 /\ RunningHasWorker'
    BY AfterFault DEF LabelerRaises
  <1>4. RunIds' = RunIds
    BY <1>2 DEF RunIds
  <1>5. /\ worker' \in [Workers -> WorkerType]
        /\ \A v \in Workers : TaskConsistent(v)'
        /\ NothingWritten' /\ OneTaskPerRun'
    <2>1. \A q \in RunIds : q # worker[w].run => runs'[q] = runs[q] /\ labels'[q] = labels[q]
      BY <1>1, <1>2
    <2> QED
      BY <1>2, <1>4, <2>1, TaskLeaves
  <1>6. TypeOK'
    BY <1>1, <1>2, <1>3, <1>5 DEF IInv, TypeOK
  <1>7. CallsAudited'
    BY <1>1, <1>3, <1>4 DEF IInv, Consistent, CallsAudited
  <1>8. AssignmentsFromOneRun'
    BY <1>2, <1>4 DEF IInv, Consistent, AssignmentsFromOneRun, Succeeded
  <1> QED
    BY <1>3, <1>5, <1>6, <1>7, <1>8 DEF IInv, Consistent

\* A task that is gone may leave its run running, which is a fault.
LEMMA TaskAbortsIInv == ASSUME IInv, NEW w \in Workers, TaskAborts(w) PROVE IInv'
  <1>1. /\ indexed' = indexed /\ clock' = clock /\ runs' = runs /\ labels' = labels
        /\ completion' = completion /\ requests' = requests /\ queue' = queue /\ assigned' = assigned
        /\ worker' = [worker EXCEPT ![w] = IdleWorker]
    BY DEF TaskAborts, embedVars
  <1>2. faults' \in Nat /\ faults' > 0 /\ RunningHasWorker'
    BY AfterFault DEF TaskAborts
  <1>3. RunIds' = RunIds
    BY <1>1 DEF RunIds
  <1>4. /\ worker' \in [Workers -> WorkerType]
        /\ \A v \in Workers : TaskConsistent(v)'
        /\ NothingWritten' /\ OneTaskPerRun'
    BY <1>1, <1>3, TaskLeaves
  <1>5. TypeOK'
    BY <1>1, <1>2, <1>4 DEF IInv, TypeOK
  <1>6. CallsAudited'
    BY <1>1, <1>2, <1>3 DEF IInv, Consistent, CallsAudited
  <1>7. AssignmentsFromOneRun'
    BY <1>1, <1>3 DEF IInv, Consistent, AssignmentsFromOneRun, Succeeded
  <1> QED
    BY <1>2, <1>4, <1>5, <1>6, <1>7 DEF IInv, Consistent

\* A completion or the process is lost; of the tasks all are, or none.
LEMMA LostIInv ==
  ASSUME IInv, faults' = faults + 1, worker' \in {worker, [w \in Workers |-> IdleWorker]},
         completion' \in [Documents -> [pc : {"waiting", "flushed", "committed", "done"},
                                         due : Triggers \cup {"none"}]],
         UNCHANGED <<indexed, queue, runs, labels, assigned, clock, requests>>
  PROVE  IInv'
  <1>1. faults' \in Nat /\ faults' > 0 /\ RunningHasWorker'
    BY AfterFault
  <1>2. RunIds' = RunIds
    BY DEF RunIds
  <1>3. worker' \in [Workers -> WorkerType] /\ \A w \in Workers : worker'[w] \in {worker[w], IdleWorker}
    BY IdleType DEF IInv, TypeOK
  <1>4. TypeOK'
    BY <1>1, <1>3 DEF IInv, TypeOK
  <1>5. \A w \in Workers : TaskConsistent(w)'
    <2>1. ASSUME NEW w \in Workers, worker'[w] = worker[w] PROVE TaskConsistent(w)'
      BY <1>2, <2>1 DEF IInv, Consistent, TaskConsistent, Calls
    <2>2. ASSUME NEW w \in Workers, worker'[w] = IdleWorker PROVE TaskConsistent(w)'
      BY <2>2 DEF TaskConsistent, IdleWorker
    <2> QED
      BY <1>3, <2>1, <2>2
  <1>6. NothingWritten' /\ OneTaskPerRun'
    <2>1. \A w \in Workers : worker'[w].run \in {worker[w].run, 0}
      BY <1>3 DEF IdleWorker
    <2>2. NothingWritten'
      BY <2>1 DEF IInv, Consistent, NothingWritten
    <2>3. OneTaskPerRun'
      BY <2>1 DEF IInv, Consistent, OneTaskPerRun
    <2> QED
      BY <2>2, <2>3
  <1>7. CallsAudited'
    BY <1>1, <1>2 DEF IInv, Consistent, CallsAudited
  <1>8. AssignmentsFromOneRun'
    BY <1>2 DEF IInv, Consistent, AssignmentsFromOneRun, Succeeded
  <1> QED
    BY <1>1, <1>4, <1>5, <1>6, <1>7, <1>8 DEF IInv, Consistent

\* Every step keeps the invariant.
LEMMA NextIInv == IInv /\ [Next]_vars => IInv'
  <1> SUFFICES ASSUME IInv, [Next]_vars PROVE IInv'
    OBVIOUS
  <1>1. ASSUME NEW d \in Documents, Complete(d) PROVE IInv'
    BY <1>1, CompleteIInv
  <1>2. ASSUME NEW d \in Documents, CompletionAborts(d) PROVE IInv'
    <2>1. completion' \in [Documents -> [pc : {"waiting", "flushed", "committed", "done"},
                                          due : Triggers \cup {"none"}]]
      BY <1>2 DEF CompletionAborts, IInv, TypeOK
    <2> QED
      BY <1>2, <2>1, LostIInv DEF CompletionAborts
  <1>3. CASE Recluster
    BY <1>3, ReclusterIInv
  <1>4. ASSUME NEW w \in Workers, Work(w) PROVE IInv'
    BY <1>4, LoadCorpusIInv, RecordRunIInv, FailEngineIInv, PersistOutcomeIInv,
       LabelClusterIInv, WriteLabelsIInv DEF Work
  <1>5. ASSUME NEW w \in Workers, LabelerRaises(w) \/ TaskAborts(w) PROVE IInv'
    BY <1>5, LabelerRaisesIInv, TaskAbortsIInv
  <1>6. CASE WorkerCrash
    <2>1. completion' \in [Documents -> [pc : {"waiting", "flushed", "committed", "done"},
                                          due : Triggers \cup {"none"}]]
      BY <1>6 DEF WorkerCrash, IInv, TypeOK
    <2> QED
      BY <1>6, <2>1, LostIInv DEF WorkerCrash
  <1>7. CASE UNCHANGED vars
    <2>1. TypeOK'
      BY <1>7 DEF vars, IInv, TypeOK
    <2> QED
      BY <1>7, <2>1, Elsewhere DEF vars, IInv
  <1> QED
    BY <1>1, <1>2, <1>3, <1>4, <1>5, <1>6, <1>7 DEF Next

-----------------------------------------------------------------------------
\* IInv holds in every reachable state.
THEOREM Invariance == Spec => []IInv
  BY InitIInv, NextIInv, PTL DEF Spec

\* Every variable has its type, and the run a task works on is a recorded one.
THEOREM TypeCorrect == Spec => []TypeOK
  <1>1. IInv => TypeOK
    BY DEF IInv
  <1> QED
    BY <1>1, Invariance, PTL

\* However runs overlap and fail, assignments are those of one succeeded run.
THEOREM OneRunAssigns == Spec => []AssignmentsFromOneRun
  <1>1. IInv => AssignmentsFromOneRun
    BY DEF IInv, Consistent
  <1> QED
    BY <1>1, Invariance, PTL

\* Without a fault no path of execute_clustering leaves a run behind.
THEOREM RunsAttended == Spec => []RunningHasWorker
  <1>1. IInv => RunningHasWorker
    BY DEF IInv, Consistent
  <1> QED
    BY <1>1, Invariance, PTL

\* The calls to the labeler are capped and on record.
THEOREM SpendOnRecord == Spec => []CallsAudited
  <1>1. IInv => CallsAudited
    BY DEF IInv, Consistent
  <1> QED
    BY <1>1, Invariance, PTL

\* A run that ended never changes, and no run its count and time.
THEOREM EndedRunsStay == Spec => RunsAreFinal
  <1>1. IInv /\ [Next]_vars =>
          [\A r \in RunIds :
             /\ r \in DOMAIN runs'
             /\ runs'[r].count = runs[r].count /\ runs'[r].created = runs[r].created
             /\ runs[r].status # "running" => runs'[r] = runs[r]]_vars
    <2> SUFFICES ASSUME IInv, Next, NEW r \in RunIds
                 PROVE  /\ r \in DOMAIN runs'
                        /\ runs'[r].count = runs[r].count /\ runs'[r].created = runs[r].created
                        /\ runs[r].status # "running" => runs'[r] = runs[r]
      OBVIOUS
    <2>1. CASE runs' = runs
      BY <2>1 DEF RunIds
    <2>2. ASSUME NEW w \in Workers, RecordRun(w) PROVE r \in DOMAIN runs' /\ runs'[r] = runs[r]
      <3>1. Len(runs) \in Nat /\ RunIds = 1 .. Len(runs)
        BY RunTypes DEF IInv
      <3> QED
        BY <2>2, <3>1 DEF RecordRun, IInv, TypeOK
    <2>3. ASSUME NEW w \in Workers, FailEngine(w) \/ PersistOutcome(w)
          PROVE  /\ r \in DOMAIN runs'
                 /\ runs'[r].count = runs[r].count /\ runs'[r].created = runs[r].created
                 /\ runs[r].status # "running" => runs'[r] = runs[r]
      <3>1. worker[w].run \in RunIds /\ runs[worker[w].run].status = "running"
        BY <2>3 DEF FailEngine, PersistOutcome, IInv, Consistent, TaskConsistent
      <3>2. PICK s \in {"failed", "succeeded"} : runs' = [runs EXCEPT ![worker[w].run].status = s]
        BY <2>3 DEF FailEngine, PersistOutcome
      <3> QED
        BY <3>1, <3>2, RunTypes DEF IInv, Run, RunIds
    <2>4. \/ runs' = runs
          \/ \E w \in Workers : RecordRun(w) \/ FailEngine(w) \/ PersistOutcome(w)
      BY DEF Next, Complete, FlushIndexed, CommitIndexed, EnqueueClustering, CompletionAborts, Recluster,
         Work, LoadCorpus, LabelCluster, WriteLabels, LabelerRaises, TaskAborts, WorkerCrash, embedVars
    <2> QED
      BY <2>1, <2>2, <2>3, <2>4
  <1> QED
    BY <1>1, Invariance, PTL DEF Spec, RunsAreFinal

-----------------------------------------------------------------------------
(* What a run costs: a message each, and a bounded number of steps. *)

\* Completions of embed_document that are over, and queued messages.
Over == {d \in Documents : completion[d].pc = "done"}
Queued == queue["threshold"] + queue["doubling"] + queue["manual"]

\* Tasks that have taken a message and not recorded their run yet.
Recording == {w \in Workers : worker[w].pc = "recording"}

\* Every run, begun or still queued, goes back to a completion or to an
\* accepted request, each of which asks for one run at most.
Accounted ==
    /\ IsFiniteSet(Recording)
    /\ Len(runs) + Cardinality(Recording) + Queued <= Cardinality(Over) + requests

\* The numbers of the account.
LEMMA AccountTypes ==
  ASSUME TypeOK, IsFiniteSet(Recording)
  PROVE  /\ Len(runs) \in Nat /\ Queued \in Nat /\ requests \in Nat
         /\ Cardinality(Recording) \in Nat /\ Cardinality(Over) \in Nat
         /\ IsFiniteSet(Over)
  <1>1. /\ queue["threshold"] \in Nat /\ queue["doubling"] \in Nat /\ queue["manual"] \in Nat
        /\ requests \in Nat
    BY DEF TypeOK, Triggers
  <1>2. IsFiniteSet(Over) /\ Cardinality(Over) \in Nat
    BY ClusteringAssumption, FS_Subset, FS_CardinalityType DEF ClusteringAssumption, Over
  <1>3. Cardinality(Recording) \in Nat
    BY FS_CardinalityType
  <1> QED
    BY <1>1, <1>2, <1>3, RunTypes DEF Queued

\* A message more or less on one of the three queues.
LEMMA QueuedAfter ==
  ASSUME TypeOK, NEW t \in Triggers
  PROVE  /\ queue' = [queue EXCEPT ![t] = @ + 1] => Queued' = Queued + 1
         /\ queue' = [queue EXCEPT ![t] = @ - 1] => Queued' = Queued - 1
  <1>1. /\ queue \in [Triggers -> Nat] /\ Triggers = {"threshold", "doubling", "manual"}
        /\ queue["threshold"] \in Nat /\ queue["doubling"] \in Nat /\ queue["manual"] \in Nat
    BY DEF TypeOK, Triggers
  <1>2. CASE t = "threshold"
    BY <1>1, <1>2 DEF Queued
  <1>3. CASE t = "doubling"
    BY <1>1, <1>3 DEF Queued
  <1>4. CASE t = "manual"
    BY <1>1, <1>4 DEF Queued
  <1> QED
    BY <1>1, <1>2, <1>3, <1>4

\* A completion that is over now was not before.
LEMMA OverAfter ==
  ASSUME TypeOK, NEW d \in Documents, completion[d].pc # "done",
         NEW c, c.pc = "done", completion' = [completion EXCEPT ![d] = c]
  PROVE  Cardinality(Over') = Cardinality(Over) + 1
  <1>1. Over' = Over \cup {d} /\ d \notin Over
    BY DEF TypeOK, Over
  <1>2. IsFiniteSet(Over)
    BY ClusteringAssumption, FS_Subset DEF ClusteringAssumption, Over
  <1> QED
    BY <1>1, <1>2, FS_AddElement

\* A completion asks for one run at most, with its last step; a fault takes
\* the run with it.
LEMMA CompletionAccounted ==
  ASSUME TypeOK, Accounted, NEW d \in Documents, Complete(d) \/ CompletionAborts(d)
  PROVE  Accounted'
  <1>0. /\ Len(runs) \in Nat /\ Queued \in Nat /\ requests \in Nat
        /\ Cardinality(Recording) \in Nat /\ Cardinality(Over) \in Nat
    BY AccountTypes DEF Accounted
  <1>1. runs' = runs /\ requests' = requests /\ Recording' = Recording
    BY DEF Complete, FlushIndexed, CommitIndexed, EnqueueClustering, CompletionAborts, Recording
  <1>2. CASE FlushIndexed(d) \/ CommitIndexed(d)
    <2>1. Over' = Over /\ Queued' = Queued
      BY <1>2 DEF FlushIndexed, CommitIndexed, Over, Queued, TypeOK
    <2> QED
      BY <1>0, <1>1, <2>1 DEF Accounted
  <1>3. CASE EnqueueClustering(d)
    <2>1. Queued' \in {Queued, Queued + 1}
      <3>1. CASE completion[d].due = "none"
        BY <1>3, <3>1 DEF EnqueueClustering, Queued
      <3>2. CASE completion[d].due # "none"
        <4> DEFINE t == completion[d].due
        <4>1. t \in Triggers
          BY <3>2 DEF TypeOK
        <4>2. queue' = [queue EXCEPT ![t] = @ + 1]
          BY <1>3, <3>2 DEF EnqueueClustering
        <4> HIDE DEF t
        <4> QED
          BY <4>1, <4>2, QueuedAfter
      <3> QED
        BY <3>1, <3>2
    <2>2. Cardinality(Over') = Cardinality(Over) + 1
      <3>1. completion' = [completion EXCEPT ![d] = [completion[d] EXCEPT !.pc = "done"]]
        BY <1>3 DEF EnqueueClustering, TypeOK
      <3>2. [completion[d] EXCEPT !.pc = "done"].pc = "done"
        BY DEF TypeOK
      <3> QED
        BY <1>3, <3>1, <3>2, OverAfter DEF EnqueueClustering
    <2> QED
      BY <1>0, <1>1, <2>1, <2>2 DEF Accounted
  <1>4. CASE CompletionAborts(d)
    <2>1. Cardinality(Over') = Cardinality(Over) + 1
      BY <1>4, OverAfter DEF CompletionAborts
    <2>2. Queued' = Queued
      BY <1>4 DEF CompletionAborts, Queued
    <2> QED
      BY <1>0, <1>1, <2>1, <2>2 DEF Accounted
  <1> QED
    BY <1>2, <1>3, <1>4 DEF Complete

\* A task takes a message, and then records one run for it.
LEMMA TaskAccounted ==
  ASSUME IInv, Accounted, NEW w \in Workers, Work(w) \/ LabelerRaises(w) \/ TaskAborts(w)
  PROVE  Accounted'
  <1>0. /\ TypeOK
        /\ Len(runs) \in Nat /\ Queued \in Nat /\ requests \in Nat
        /\ Cardinality(Recording) \in Nat /\ Cardinality(Over) \in Nat
    BY AccountTypes DEF IInv, Accounted
  <1>1. requests' = requests /\ Over' = Over
    BY DEF Work, LoadCorpus, RecordRun, FailEngine, PersistOutcome, LabelCluster, WriteLabels,
           LabelerRaises, TaskAborts, embedVars, Over
  <1>2. CASE LoadCorpus(w)
    <2>1. PICK t \in Triggers : LoadCorpus(w)!(t)
      BY <1>2 DEF LoadCorpus
    <2>2. runs' = runs /\ Queued' = Queued - 1
      <3>1. queue' = [queue EXCEPT ![t] = @ - 1] /\ runs' = runs
        BY <2>1
      <3> QED
        BY <1>0, <3>1, QueuedAfter
    <2>3. Recording' = Recording \/ Recording' = Recording \cup {w}
      BY <1>0, <2>1 DEF Recording, TypeOK
    <2>4. IsFiniteSet(Recording') /\ Cardinality(Recording') <= Cardinality(Recording) + 1
      <3>1. IsFiniteSet(Recording)
        BY DEF Accounted
      <3> HIDE DEF Recording
      <3>2. /\ IsFiniteSet(Recording \cup {w})
            /\ Cardinality(Recording \cup {w}) \in {Cardinality(Recording), Cardinality(Recording) + 1}
        BY <3>1, FS_AddElement
      <3>3. CASE Recording' = Recording
        BY <1>0, <3>1, <3>3
      <3>4. CASE Recording' = Recording \cup {w}
        BY <1>0, <3>2, <3>4
      <3> QED
        BY <2>3, <3>3, <3>4
    <2>5. Cardinality(Recording') \in Nat
      BY <2>4, FS_CardinalityType
    <2> QED
      BY <1>0, <1>1, <2>2, <2>4, <2>5 DEF Accounted
  <1>3. CASE RecordRun(w)
    <2>1. Len(runs') = Len(runs) + 1 /\ Queued' = Queued
      BY <1>0, <1>3 DEF RecordRun, TypeOK, Queued
    <2>2. w \in Recording /\ Recording' = Recording \ {w}
      BY <1>0, <1>3 DEF RecordRun, Recording, TypeOK
    <2>3. IsFiniteSet(Recording') /\ Cardinality(Recording') = Cardinality(Recording) - 1
      BY <2>2, FS_RemoveElement DEF Accounted
    <2> QED
      BY <1>0, <1>1, <2>1, <2>3 DEF Accounted
  <1>4. CASE ~LoadCorpus(w) /\ ~RecordRun(w)
    <2>1. Queued' = Queued
      BY <1>4 DEF Work, FailEngine, PersistOutcome, LabelCluster, WriteLabels, LabelerRaises,
                  TaskAborts, embedVars, Queued
    <2>2. Len(runs') = Len(runs)
      <3>1. CASE FailEngine(w) \/ PersistOutcome(w)
        BY <1>0, <3>1 DEF FailEngine, PersistOutcome, TypeOK
      <3>2. CASE ~(FailEngine(w) \/ PersistOutcome(w))
        BY <1>4, <3>2 DEF Work, LabelCluster, WriteLabels, LabelerRaises, TaskAborts, embedVars
      <3> QED
        BY <3>1, <3>2
    <2>3. Recording' \in SUBSET Recording
      <3>1. /\ \A v \in Workers \ {w} : worker'[v] = worker[v]
            /\ worker'[w].pc # "recording"
        <4>1. CASE FailEngine(w) \/ PersistOutcome(w)
          <5>1. \/ worker' = [worker EXCEPT ![w] = IdleWorker]
                \/ worker' = [worker EXCEPT ![w].pc = "labelling"]
            BY <4>1 DEF FailEngine, PersistOutcome
          <5> QED
            BY <1>0, <5>1 DEF IdleWorker, TypeOK, WorkerType
        <4>2. CASE LabelCluster(w)
          BY <1>0, <4>2 DEF LabelCluster, CallsLeft, TypeOK, WorkerType
        <4>3. CASE WriteLabels(w) \/ LabelerRaises(w) \/ TaskAborts(w)
          <5>1. worker' = [worker EXCEPT ![w] = IdleWorker]
            BY <4>3 DEF WriteLabels, LabelerRaises, TaskAborts
          <5> QED
            BY <1>0, <5>1 DEF IdleWorker, TypeOK
        <4> QED
          BY <1>4, <4>1, <4>2, <4>3 DEF Work
      <3> QED
        BY <3>1 DEF Recording
    <2>4. IsFiniteSet(Recording') /\ Cardinality(Recording') <= Cardinality(Recording)
      BY <2>3, FS_Subset DEF Accounted
    <2>5. Cardinality(Recording') \in Nat
      BY <2>4, FS_CardinalityType
    <2> QED
      BY <1>0, <1>1, <2>1, <2>2, <2>4, <2>5 DEF Accounted
  <1> QED
    BY <1>2, <1>3, <1>4

\* No step makes a run out of nothing.
LEMMA NextAccounted == IInv /\ Accounted /\ [Next]_vars => Accounted'
  <1> SUFFICES ASSUME IInv, Accounted, [Next]_vars PROVE Accounted'
    OBVIOUS
  <1>0. /\ TypeOK
        /\ Len(runs) \in Nat /\ Queued \in Nat /\ requests \in Nat
        /\ Cardinality(Recording) \in Nat /\ Cardinality(Over) \in Nat /\ IsFiniteSet(Over)
    BY AccountTypes DEF IInv, Accounted
  <1>1. ASSUME NEW d \in Documents, Complete(d) \/ CompletionAborts(d) PROVE Accounted'
    BY <1>0, <1>1, CompletionAccounted
  <1>2. ASSUME NEW w \in Workers, Work(w) \/ LabelerRaises(w) \/ TaskAborts(w) PROVE Accounted'
    BY <1>2, TaskAccounted
  <1>3. CASE Recluster
    <2>1. Queued' = Queued + 1
      <3>1. "manual" \in Triggers /\ queue' = [queue EXCEPT !["manual"] = @ + 1]
        BY <1>3 DEF Recluster, Triggers
      <3> QED
        BY <1>0, <3>1, QueuedAfter
    <2>2. runs' = runs /\ requests' = requests + 1 /\ Over' = Over /\ Recording' = Recording
      BY <1>3 DEF Recluster, embedVars, Over, Recording
    <2> QED
      BY <1>0, <2>1, <2>2 DEF Accounted
  <1>4. CASE WorkerCrash
    <2>1. runs' = runs /\ requests' = requests /\ Queued' = Queued /\ Recording' = {}
      BY <1>4 DEF WorkerCrash, Recording, Queued, IdleWorker
    <2>2. Over \in SUBSET Over'
      BY <1>0, <1>4 DEF WorkerCrash, Over, TypeOK
    <2>3. IsFiniteSet(Over')
      BY ClusteringAssumption, FS_Subset DEF ClusteringAssumption, Over
    <2>4. Cardinality(Over) <= Cardinality(Over') /\ Cardinality(Over') \in Nat
      BY <2>2, <2>3, FS_Subset, FS_CardinalityType
    <2>5. IsFiniteSet(Recording') /\ Cardinality(Recording') = 0
      BY <2>1, FS_EmptySet
    <2> QED
      BY <1>0, <2>1, <2>4, <2>5 DEF Accounted
  <1>5. CASE UNCHANGED vars
    BY <1>5 DEF vars, Accounted, Over, Queued, Recording
  <1> QED
    BY <1>1, <1>2, <1>3, <1>4, <1>5 DEF Next

\* No more runs are recorded than were asked for.
RunsAskedFor == Len(runs) <= Cardinality(Over) + requests

\* A completed document or an accepted request buys one run at most, whatever
\* crashes and overlaps: no path takes a message twice or queues one again.
\* Completions that see no run in flight may each queue one
\* (clustering/service.py:103), but never more than that.
THEOREM OneRunEach == Spec => []RunsAskedFor
  <1>1. Init => Accounted
    <2> SUFFICES ASSUME Init PROVE Accounted
      OBVIOUS
    <2>1. Recording = {} /\ Over = {} /\ Queued = 0 /\ Len(runs) = 0 /\ requests = 0
      BY EmptySeq DEF Init, Recording, Over, Queued, Waiting, IdleWorker, Triggers
    <2> QED
      BY <2>1, FS_EmptySet DEF Accounted
  <1>2. IInv /\ Accounted => RunsAskedFor
    BY AccountTypes DEF IInv, Accounted, RunsAskedFor
  <1> QED
    BY <1>1, <1>2, Invariance, NextAccounted, PTL DEF Spec

-----------------------------------------------------------------------------
(* Tasks that end. *)

\* What a task has before it: how many of its steps, and of its calls.
StepsLeft(w) == CASE worker[w].pc = "recording" -> 3
                  [] worker[w].pc = "computing" -> 2
                  [] worker[w].pc = "labelling" -> 1
                  [] OTHER -> 0
TaskLeft(w) ==
    <<StepsLeft(w),
      IF worker[w].pc = "labelling" THEN Calls(worker[w].run) - Len(worker[w].results) ELSE 0,
      0>>

\* The calls of a run that has its clusters are a number.
LEMMA CallsType == ASSUME TypeOK PROVE \A r \in RunIds : Calls(r) \in Nat
  <1> SUFFICES ASSUME NEW r \in RunIds PROVE Calls(r) \in Nat
    OBVIOUS
  <1>1. labels[r] \in LabelType
    BY RunTypes
  <1> QED
    BY <1>1, ClusteringAssumption DEF ClusteringAssumption, LabelType, Calls

\* No task has made more calls than its run has.
LEMMA TaskMeasured == IInv => \A w \in Workers : TaskLeft(w) \in Measures
  <1> SUFFICES ASSUME IInv, NEW w \in Workers PROVE TaskLeft(w) \in Measures
    OBVIOUS
  <1>1. StepsLeft(w) \in Nat
    BY DEF StepsLeft
  <1>2. CASE worker[w].pc = "labelling"
    <2>1. worker[w].run \in RunIds /\ Len(worker[w].results) <= Calls(worker[w].run)
      BY <1>2 DEF IInv, Consistent, TaskConsistent
    <2>2. Len(worker[w].results) \in Nat /\ Calls(worker[w].run) \in Nat
      BY <2>1, CallsType DEF IInv, TypeOK, WorkerType
    <2>3. Calls(worker[w].run) - Len(worker[w].results) \in Nat
      BY <2>1, <2>2
    <2> QED
      BY <1>1, <1>2, <2>3 DEF TaskLeft, Measures
  <1>3. CASE worker[w].pc # "labelling"
    BY <1>1, <1>3 DEF TaskLeft, Measures
  <1> QED
    BY <1>2, <1>3

\* Only the task of a run sets how many calls it has, when it persists them.
LEMMA CallsStay ==
  ASSUME IInv, NEW w \in Workers, Work(w) \/ LabelerRaises(w) \/ TaskAborts(w), NEW r \in RunIds
  PROVE  labels'[r].clusters = labels[r].clusters \/ (PersistOutcome(w) /\ r = worker[w].run)
  <1>0. /\ labels \in Seq(LabelType) /\ r \in 1 .. Len(labels) /\ Len(labels) \in Nat
        /\ r \in DOMAIN labels /\ labels[r] \in LabelType
    BY RunTypes DEF IInv, TypeOK
  <1>1. CASE LoadCorpus(w) \/ FailEngine(w) \/ TaskAborts(w)
    BY <1>1 DEF LoadCorpus, FailEngine, TaskAborts
  <1>2. CASE RecordRun(w)
    <2>1. labels'[r] = labels[r]
      BY <1>0, <1>2 DEF RecordRun
    <2> QED
      BY <2>1
  <1>3. CASE PersistOutcome(w)
    <2>1. r # worker[w].run => labels'[r] = labels[r]
      BY <1>0, <1>3 DEF PersistOutcome
    <2> QED
      BY <1>3, <2>1
  <1>4. CASE LabelCluster(w) \/ LabelerRaises(w)
    <2>1. labels' = [labels EXCEPT ![worker[w].run].sent = @ + 1]
      BY <1>4 DEF LabelCluster, LabelerRaises
    <2> QED
      BY <1>0, <2>1 DEF LabelType
  <1>5. CASE WriteLabels(w)
    <2>1. \E a, b : labels' = [labels EXCEPT ![worker[w].run].llm = a, ![worker[w].run].audit = b]
      BY <1>5 DEF WriteLabels
    <2> QED
      BY <1>0, <2>1 DEF LabelType
  <1> QED
    BY <1>1, <1>2, <1>3, <1>4, <1>5 DEF Work

\* A step of one task leaves what the others have before them as it is.
LEMMA OthersGoOn ==
  ASSUME IInv, NEW w \in Workers, Work(w) \/ LabelerRaises(w) \/ TaskAborts(w),
         NEW v \in Workers, v # w
  PROVE  TaskLeft(v)' = TaskLeft(v)
  <1>1. worker'[v] = worker[v]
    BY DEF IInv, TypeOK, Work, LoadCorpus, RecordRun, FailEngine, PersistOutcome, LabelCluster,
           WriteLabels, LabelerRaises, TaskAborts
  <1>2. CASE worker[v].pc = "labelling"
    <2> DEFINE r == worker[v].run
    <2>1. r \in RunIds /\ r # 0
      BY <1>2, RunTypes DEF IInv, Consistent, TaskConsistent
    <2>2. PersistOutcome(w) => worker[w].run # r
      BY <2>1 DEF IInv, Consistent, OneTaskPerRun
    <2>3. labels'[r].clusters = labels[r].clusters
      BY <2>1, <2>2, CallsStay
    <2>4. Calls(worker[v].run)' = Calls(worker[v].run)
      BY <1>1, <2>3 DEF Calls
    <2> QED
      BY <1>1, <2>4 DEF TaskLeft, StepsLeft
  <1>3. CASE worker[v].pc # "labelling"
    BY <1>1, <1>3 DEF TaskLeft, StepsLeft
  <1> QED
    BY <1>2, <1>3

\* A step of the task itself, or a fault, brings it nearer to its end.
LEMMA TaskGoesOn ==
  ASSUME IInv, NEW w \in Workers, Work(w) \/ LabelerRaises(w) \/ TaskAborts(w), ~LoadCorpus(w)
  PROVE  Lower(TaskLeft(w)', TaskLeft(w))
  <1>0. worker \in [Workers -> WorkerType]
    BY DEF IInv, TypeOK
  <1>1. CASE LabelCluster(w)
    <2> DEFINE r == worker[w].run
    <2>1. /\ worker[w].pc = "labelling" /\ Len(worker[w].results) < Calls(r)
          /\ r \in RunIds
      BY <1>1 DEF LabelCluster, CallsLeft, IInv, Consistent, TaskConsistent
    <2>2. PICK answer \in Answers : worker' = [worker EXCEPT ![w].results = Append(@, answer)]
      BY <1>1 DEF LabelCluster
    <2>3. worker[w].results \in Seq(Answers) /\ Calls(r) \in Nat
      BY <1>0, <2>1, CallsType DEF IInv, WorkerType
    <2>4. /\ worker'[w].pc = "labelling" /\ worker'[w].run = r
          /\ worker'[w].results = Append(worker[w].results, answer)
      BY <1>0, <2>1, <2>2 DEF WorkerType
    <2>5. Len(worker'[w].results) = Len(worker[w].results) + 1 /\ Len(worker[w].results) \in Nat
      BY <2>3, <2>4
    <2>6. labels'[r].clusters = labels[r].clusters
      <3>1. ~PersistOutcome(w)
        BY <2>1 DEF PersistOutcome
      <3> QED
        BY <2>1, <3>1, CallsStay
    <2>7. Calls(worker[w].run)' = Calls(r)
      BY <2>4, <2>6 DEF Calls
    <2>8. /\ TaskLeft(w) = <<1, Calls(r) - Len(worker[w].results), 0>>
          /\ TaskLeft(w)' = <<1, Calls(r) - Len(worker'[w].results), 0>>
      BY <2>1, <2>4, <2>7 DEF TaskLeft, StepsLeft
    <2> QED
      BY <2>1, <2>3, <2>5, <2>8 DEF Lower
  <1>2. CASE ~LabelCluster(w)
    <2>1. \/ worker[w].pc = "recording" /\ worker'[w].pc = "computing"
          \/ worker[w].pc = "computing" /\ worker'[w].pc \in {"idle", "labelling"}
          \/ worker[w].pc # "idle" /\ worker'[w].pc = "idle"
      <3>1. CASE RecordRun(w) \/ PersistOutcome(w)
        BY <1>0, <3>1 DEF RecordRun, PersistOutcome, WorkerType
      <3>2. CASE FailEngine(w) \/ WriteLabels(w) \/ LabelerRaises(w) \/ TaskAborts(w)
        <4>1. worker[w].pc # "idle" /\ worker' = [worker EXCEPT ![w] = IdleWorker]
          BY <3>2 DEF FailEngine, WriteLabels, LabelerRaises, TaskAborts, CallsLeft
        <4> QED
          BY <1>0, <4>1 DEF IdleWorker
      <3> QED
        BY <1>2, <3>1, <3>2 DEF Work
    <2>2. StepsLeft(w)' < StepsLeft(w)
      <3>1. worker[w].pc \in {"idle", "recording", "computing", "labelling"}
        BY <1>0 DEF WorkerType
      <3> QED
        BY <2>1, <3>1 DEF StepsLeft
    <2> QED
      BY <2>2 DEF TaskLeft, Lower
  <1> QED
    BY <1>1, <1>2

\* Every step of a task either takes a message or brings the task nearer to
\* its end; no other step makes work for it.
TasksGoOn ==
    [][\A w \in Workers :
         /\ Work(w) => LoadCorpus(w) \/ Lower(TaskLeft(w)', TaskLeft(w))
         /\ LoadCorpus(w) => Queued' = Queued - 1
         /\ LoadCorpus(w) \/ TaskLeft(w)' = TaskLeft(w) \/ Lower(TaskLeft(w)', TaskLeft(w))]_vars

\* No clustering task runs forever, and none keeps another from ending: what a
\* task has before it is measured, and there is no endless descent.  That is
\* the half of RunsEnd which needs no fairness (clustering/service.py:208).
THEOREM TasksEnd == Spec => /\ [](\A w \in Workers : TaskLeft(w) \in Measures)
                            /\ TasksGoOn
  <1>1. IInv /\ [Next]_vars =>
          [\A w \in Workers :
             /\ Work(w) => LoadCorpus(w) \/ Lower(TaskLeft(w)', TaskLeft(w))
             /\ LoadCorpus(w) => Queued' = Queued - 1
             /\ LoadCorpus(w) \/ TaskLeft(w)' = TaskLeft(w) \/ Lower(TaskLeft(w)', TaskLeft(w))]_vars
    <2> SUFFICES ASSUME IInv, Next, NEW w \in Workers
                 PROVE  /\ Work(w) => LoadCorpus(w) \/ Lower(TaskLeft(w)', TaskLeft(w))
                        /\ LoadCorpus(w) => Queued' = Queued - 1
                        /\ \/ LoadCorpus(w) \/ TaskLeft(w)' = TaskLeft(w)
                           \/ Lower(TaskLeft(w)', TaskLeft(w))
      OBVIOUS
    <2>1. Work(w) => LoadCorpus(w) \/ Lower(TaskLeft(w)', TaskLeft(w))
      BY TaskGoesOn
    <2>2. LoadCorpus(w) => Queued' = Queued - 1
      BY QueuedAfter DEF LoadCorpus, IInv
    <2>3. LoadCorpus(w) \/ TaskLeft(w)' = TaskLeft(w) \/ Lower(TaskLeft(w)', TaskLeft(w))
      <3>1. ASSUME NEW v \in Workers, Work(v) \/ LabelerRaises(v) \/ TaskAborts(v)
            PROVE  LoadCorpus(w) \/ TaskLeft(w)' = TaskLeft(w) \/ Lower(TaskLeft(w)', TaskLeft(w))
        BY <3>1, OthersGoOn, TaskGoesOn
      <3>2. CASE worker' = worker /\ labels' = labels
        BY <3>2 DEF TaskLeft, StepsLeft, Calls
      <3>3. CASE WorkerCrash
        <4>1. worker'[w].pc = "idle"
          BY <3>3 DEF WorkerCrash, IdleWorker
        <4>2. worker[w].pc \in {"idle", "recording", "computing", "labelling"}
          BY DEF IInv, TypeOK, WorkerType
        <4>3. worker[w].pc = "idle" => TaskLeft(w)' = TaskLeft(w)
          BY <4>1 DEF TaskLeft, StepsLeft
        <4>4. worker[w].pc # "idle" => Lower(TaskLeft(w)', TaskLeft(w))
          BY <4>1, <4>2 DEF TaskLeft, StepsLeft, Lower
        <4> QED
          BY <4>3, <4>4
      <3>4. \/ worker' = worker /\ labels' = labels
            \/ WorkerCrash
            \/ \E v \in Workers : Work(v) \/ LabelerRaises(v) \/ TaskAborts(v)
        BY DEF Next, Complete, FlushIndexed, CommitIndexed, EnqueueClustering, CompletionAborts,
               Recluster
      <3> QED
        BY <3>1, <3>2, <3>3, <3>4
    <2> QED
      BY <2>1, <2>2, <2>3
  <1> QED
    BY <1>1, Invariance, TaskMeasured, PTL DEF Spec, TasksGoOn

=============================================================================
