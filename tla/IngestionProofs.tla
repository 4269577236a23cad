-------------------------- MODULE IngestionProofs --------------------------
(***************************************************************************)
(* IInv is an inductive invariant of Ingestion, for any number of uploads, *)
(* slots and faults; the safety properties follow from it, and so does     *)
(* the refinement of Publication.  That unfinished documents have a task   *)
(* is an invariant on top of it, and so is that no work is done twice.     *)
(***************************************************************************)
EXTENDS Ingestion, OrderTheorems

\* A parse writes a number of chunks.
LEMMA ProducedNat == \A u \in Uploads : Produced(u) \in Nat
BY InputsAssumption DEF Produced

\* The invariant holds before the first request.
LEMMA InitIInv == Init => IInv
<1> SUFFICES ASSUME Init PROVE IInv
  OBVIOUS
<1> USE IdsAssumption DEF Init, IdleSlot
<1>1. TypeOK
  BY DEF TypeOK, SlotType, Pcs, RequestStates, DocumentStates, JobStates, Tasks
<1>2. SlotsConsistent
  BY DEF SlotsConsistent
<1>3. OneTaskPerDocument
  BY DEF OneTaskPerDocument, Queued, RunsIn, Tasks
<1>4. RequestsConsistent
  BY DEF RequestsConsistent, NoTask, Queued, RunsIn, Tasks
<1>5. TasksConsistent
  BY DEF TasksConsistent, MessageConsistent, TaskConsistent, Tasks, IngestPcs, EmbedPcs
<1>6. RowsConsistent
  BY DEF RowsConsistent
<1>7. ClusteringSeesDocument
  BY DEF ClusteringSeesDocument
<1> QED
  BY <1>1, <1>2, <1>3, <1>4, <1>5, <1>6, <1>7 DEF IInv

\* A task that is running has its document to itself.
LEMMA RunningTask ==
  ASSUME IInv, NEW s \in Slots, slot[s].pc # "idle"
  PROVE  /\ slot[s].on \in Uploads
         /\ \A t \in Tasks : queue[t][slot[s].on] = 0
         /\ \A t \in Slots : slot[t].on = slot[s].on => t = s
<1>1. slot[s].on \in Uploads
  BY DEF IInv, TypeOK, SlotType, SlotsConsistent
<1>2. \A t \in Tasks : queue[t][slot[s].on] = 0
  BY <1>1 DEF IInv, TypeOK, OneTaskPerDocument, Queued, RunsIn
<1> QED
  BY <1>1, <1>2 DEF IInv, OneTaskPerDocument, RunsIn

\* A task keeps its part of the invariant while its slot and the rows of its
\* document are left alone.
LEMMA Undisturbed ==
  ASSUME NEW t \in Slots, TaskConsistent(t), slot'[t] = slot[t],
         slot[t].pc # "idle" =>
             /\ status'[slot[t].on] = status[slot[t].on]
             /\ job'[slot[t].on] = job[slot[t].on]
             /\ chunks'[slot[t].on] = chunks[slot[t].on]
             /\ embedded'[slot[t].on] = embedded[slot[t].on]
  PROVE  TaskConsistent(t)'
BY DEF TaskConsistent, Unparsed, Parsed, Produced, IngestPcs, EmbedPcs

\* A request arrives.
LEMMA KeepsEnforceDailyUploadLimit ==
  ASSUME IInv, NEW u \in Uploads, EnforceDailyUploadLimit(u)
  PROVE  IInv'
<1> USE DEF EnforceDailyUploadLimit, dbVars, workVars, operatorVars
<1>1. TypeOK'
  BY DEF IInv, TypeOK, SlotType, Pcs, IngestPcs, EmbedPcs, RequestStates,
     DocumentStates, JobStates, Tasks
<1>2. SlotsConsistent'
  BY DEF IInv, TypeOK, SlotType, SlotsConsistent
<1>3. OneTaskPerDocument'
  BY DEF IInv, TypeOK, SlotType, Tasks, OneTaskPerDocument, Queued, RunsIn
<1>4. RequestsConsistent'
  BY DEF IInv, TypeOK, SlotType, Tasks, RequestsConsistent, NoTask, Queued,
     RunsIn
<1>5. TasksConsistent'
  BY DEF IInv, TypeOK, SlotType, Tasks, TasksConsistent, MessageConsistent,
     TaskConsistent, IngestPcs, EmbedPcs, Unparsed, Parsed, Produced
<1>6. RowsConsistent'
  BY DEF IInv, TypeOK, SlotType, Tasks, RowsConsistent, Parsed, Produced,
     NoTask, Queued, RunsIn
<1>7. ClusteringSeesDocument'
  BY DEF IInv, TypeOK, ClusteringSeesDocument
<1> QED
  BY <1>1, <1>2, <1>3, <1>4, <1>5, <1>6, <1>7 DEF IInv

\* The file is written, or refused for its size.
LEMMA KeepsWriteUploadedFile ==
  ASSUME IInv, NEW u \in Uploads, WriteUploadedFile(u)
  PROVE  IInv'
<1> USE DEF WriteUploadedFile, dbVars, workVars, operatorVars
<1>1. TypeOK'
  BY DEF IInv, TypeOK, SlotType, Pcs, IngestPcs, EmbedPcs, RequestStates,
     DocumentStates, JobStates, Tasks
<1>2. SlotsConsistent'
  BY DEF IInv, TypeOK, SlotType, SlotsConsistent
<1>3. OneTaskPerDocument'
  BY DEF IInv, TypeOK, SlotType, Tasks, OneTaskPerDocument, Queued, RunsIn
<1>4. RequestsConsistent'
  BY DEF IInv, TypeOK, SlotType, Tasks, RequestsConsistent, NoTask, Queued,
     RunsIn
<1>5. TasksConsistent'
  BY DEF IInv, TypeOK, SlotType, Tasks, TasksConsistent, MessageConsistent,
     TaskConsistent, IngestPcs, EmbedPcs, Unparsed, Parsed, Produced
<1>6. RowsConsistent'
  BY DEF IInv, TypeOK, SlotType, Tasks, RowsConsistent, Parsed, Produced,
     NoTask, Queued, RunsIn
<1>7. ClusteringSeesDocument'
  BY DEF IInv, TypeOK, ClusteringSeesDocument
<1> QED
  BY <1>1, <1>2, <1>3, <1>4, <1>5, <1>6, <1>7 DEF IInv

\* A duplicate removes its own file and nothing else.
LEMMA KeepsDeduplicate ==
  ASSUME IInv, NEW u \in Uploads, Deduplicate(u)
  PROVE  IInv'
<1> USE DEF Deduplicate, dbVars, workVars, operatorVars
<1>1. TypeOK'
  BY DEF IInv, TypeOK, SlotType, Pcs, IngestPcs, EmbedPcs, RequestStates,
     DocumentStates, JobStates, Tasks
<1>2. SlotsConsistent'
  BY DEF IInv, TypeOK, SlotType, SlotsConsistent
<1>3. OneTaskPerDocument'
  BY DEF IInv, TypeOK, SlotType, Tasks, OneTaskPerDocument, Queued, RunsIn
<1>4. RequestsConsistent'
  BY DEF IInv, TypeOK, SlotType, Tasks, RequestsConsistent, NoTask, Queued,
     RunsIn
<1>5. TasksConsistent'
  BY DEF IInv, TypeOK, SlotType, Tasks, TasksConsistent, MessageConsistent,
     TaskConsistent, IngestPcs, EmbedPcs, Unparsed, Parsed, Produced
<1>6. RowsConsistent'
  BY DEF IInv, TypeOK, SlotType, Tasks, RowsConsistent, Parsed, Produced,
     NoTask, Queued, RunsIn
<1>7. ClusteringSeesDocument'
  BY DEF IInv, TypeOK, ClusteringSeesDocument
<1> QED
  BY <1>1, <1>2, <1>3, <1>4, <1>5, <1>6, <1>7 DEF IInv

\* The rows are flushed; nothing is committed.
LEMMA KeepsInsertRows ==
  ASSUME IInv, NEW u \in Uploads, InsertRows(u)
  PROVE  IInv'
<1> USE DEF InsertRows, dbVars, workVars, operatorVars
<1>1. TypeOK'
  BY DEF IInv, TypeOK, SlotType, Pcs, IngestPcs, EmbedPcs, RequestStates,
     DocumentStates, JobStates, Tasks
<1>2. SlotsConsistent'
  BY DEF IInv, TypeOK, SlotType, SlotsConsistent
<1>3. OneTaskPerDocument'
  BY DEF IInv, TypeOK, SlotType, Tasks, OneTaskPerDocument, Queued, RunsIn
<1>4. RequestsConsistent'
  BY DEF IInv, TypeOK, SlotType, Tasks, RequestsConsistent, NoTask, Queued,
     RunsIn
<1>5. TasksConsistent'
  BY DEF IInv, TypeOK, SlotType, Tasks, TasksConsistent, MessageConsistent,
     TaskConsistent, IngestPcs, EmbedPcs, Unparsed, Parsed, Produced
<1>6. RowsConsistent'
  BY DEF IInv, TypeOK, SlotType, Tasks, RowsConsistent, Parsed, Produced,
     NoTask, Queued, RunsIn
<1>7. ClusteringSeesDocument'
  BY DEF IInv, TypeOK, ClusteringSeesDocument
<1> QED
  BY <1>1, <1>2, <1>3, <1>4, <1>5, <1>6, <1>7 DEF IInv

\* The first message of a document: it had none before.
LEMMA KeepsEnqueueIngest ==
  ASSUME IInv, NEW u \in Uploads, EnqueueIngest(u)
  PROVE  IInv'
<1> USE DEF EnqueueIngest, Send, dbVars, workVars, operatorVars
<1>0. status[u] = "absent" /\ NoTask(u) /\ Unparsed(u)
  BY DEF IInv, TypeOK, RequestsConsistent, RowsConsistent, Unparsed
<1>1. TypeOK'
  BY <1>0 DEF IInv, TypeOK, SlotType, Pcs, IngestPcs, EmbedPcs,
     RequestStates, DocumentStates, JobStates, Tasks, NoTask
<1>2. SlotsConsistent'
  BY <1>0 DEF IInv, TypeOK, SlotType, SlotsConsistent
<1>3. OneTaskPerDocument'
  BY <1>0 DEF IInv, TypeOK, SlotType, Tasks, OneTaskPerDocument, Queued,
     RunsIn, NoTask
<1>4. RequestsConsistent'
  BY <1>0 DEF IInv, TypeOK, SlotType, Tasks, RequestsConsistent, NoTask,
     Queued, RunsIn
<1>5. TasksConsistent'
  BY <1>0 DEF IInv, TypeOK, SlotType, Tasks, TasksConsistent,
     MessageConsistent, TaskConsistent, IngestPcs, EmbedPcs, Unparsed,
     Parsed, Produced, NoTask, Queued, RunsIn
<1>6. RowsConsistent'
  BY <1>0 DEF IInv, TypeOK, SlotType, Tasks, RowsConsistent, Parsed,
     Produced, NoTask, Queued, RunsIn, RequestsConsistent, Unparsed
<1>7. ClusteringSeesDocument'
  BY <1>0 DEF IInv, TypeOK, ClusteringSeesDocument
<1> QED
  BY <1>1, <1>2, <1>3, <1>4, <1>5, <1>6, <1>7 DEF IInv

\* The rows appear, perhaps after the task has started.
LEMMA KeepsCommitUpload ==
  ASSUME IInv, NEW u \in Uploads, CommitUpload(u)
  PROVE  IInv'
<1> USE DEF CommitUpload, workVars, operatorVars
<1>0. /\ status[u] = "absent" /\ job[u] = "absent"
      /\ chunks[u] = 0 /\ embedded[u] = 0 /\ u \in files
  BY DEF IInv, TypeOK, RequestsConsistent, RowsConsistent
<1>1. TypeOK'
  BY <1>0 DEF IInv, TypeOK, SlotType, Pcs, IngestPcs, EmbedPcs,
     RequestStates, DocumentStates, JobStates, Tasks
<1>2. SlotsConsistent'
  BY <1>0 DEF IInv, TypeOK, SlotType, SlotsConsistent
<1>3. OneTaskPerDocument'
  BY <1>0 DEF IInv, TypeOK, SlotType, Tasks, OneTaskPerDocument, Queued,
     RunsIn
<1>4. RequestsConsistent'
  BY <1>0 DEF IInv, TypeOK, SlotType, Tasks, RequestsConsistent, NoTask,
     Queued, RunsIn
<1>5. TasksConsistent'
  BY <1>0 DEF IInv, TypeOK, SlotType, Tasks, TasksConsistent,
     MessageConsistent, TaskConsistent, IngestPcs, EmbedPcs, Unparsed,
     Parsed, Produced
<1>6. RowsConsistent'
  BY <1>0 DEF IInv, TypeOK, SlotType, Tasks, RowsConsistent, Parsed,
     Produced, NoTask, Queued, RunsIn
<1>7. ClusteringSeesDocument'
  BY <1>0 DEF IInv, TypeOK, ClusteringSeesDocument
<1> QED
  BY <1>1, <1>2, <1>3, <1>4, <1>5, <1>6, <1>7 DEF IInv

\* A rollback leaves at most a file and a message.
LEMMA KeepsUploadAborts ==
  ASSUME IInv, NEW u \in Uploads, UploadAborts(u)
  PROVE  IInv'
<1> USE DEF UploadAborts, InFlight, dbVars, workVars, operatorVars
<1>1. TypeOK'
  BY DEF IInv, TypeOK, SlotType, Pcs, IngestPcs, EmbedPcs, RequestStates,
     DocumentStates, JobStates, Tasks
<1>2. SlotsConsistent'
  BY DEF IInv, TypeOK, SlotType, SlotsConsistent
<1>3. OneTaskPerDocument'
  BY DEF IInv, TypeOK, SlotType, Tasks, OneTaskPerDocument, Queued, RunsIn
<1>4. RequestsConsistent'
  BY DEF IInv, TypeOK, SlotType, Tasks, RequestsConsistent, NoTask, Queued,
     RunsIn
<1>5. TasksConsistent'
  BY DEF IInv, TypeOK, SlotType, Tasks, TasksConsistent, MessageConsistent,
     TaskConsistent, IngestPcs, EmbedPcs, Unparsed, Parsed, Produced
<1>6. RowsConsistent'
  BY DEF IInv, TypeOK, SlotType, Tasks, RowsConsistent, Parsed, Produced,
     NoTask, Queued, RunsIn
<1>7. ClusteringSeesDocument'
  BY DEF IInv, TypeOK, ClusteringSeesDocument
<1> QED
  BY <1>1, <1>2, <1>3, <1>4, <1>5, <1>6, <1>7 DEF IInv

\* A popped message becomes a running task: still one for its document.
LEMMA KeepsStartTask ==
  ASSUME IInv, NEW s \in Slots, StartTask(s)
  PROVE  IInv'
<1> USE DEF Starting, IdleSlot, dbVars, operatorVars
<1>0. PICK k \in Tasks, u \in Uploads :
        /\ slot[s].pc = "idle"
        /\ queue[k][u] > 0
        /\ queue' = [queue EXCEPT ![k][u] = @ - 1]
        /\ slot' = [slot EXCEPT ![s] = Starting(k, u)]
        /\ UNCHANGED <<request, files, status, chunks, embedded, job, clustering, condemned,
                        abandoned, faults>>
  BY DEF StartTask
<1>1. TypeOK'
  <2>1. queue' \in [Tasks -> [Uploads -> Nat]]
    BY <1>0 DEF IInv, TypeOK, Tasks
  <2>2. Starting(k, u) \in SlotType
    BY DEF SlotType, Pcs, IngestPcs, EmbedPcs
  <2>3. slot' \in [Slots -> SlotType]
    BY <1>0, <2>2 DEF IInv, TypeOK
  <2> QED
    BY <1>0, <2>1, <2>3 DEF IInv, TypeOK
<1>2. SlotsConsistent'
  BY <1>0, IdsAssumption DEF IInv, TypeOK, SlotType, SlotsConsistent
<1>3. OneTaskPerDocument'
  BY <1>0, IdsAssumption DEF IInv, TypeOK, SlotType, Tasks,
     OneTaskPerDocument, Queued, RunsIn
<1>4. RequestsConsistent'
  BY <1>0 DEF IInv, TypeOK, SlotType, Tasks, RequestsConsistent, NoTask,
     Queued, RunsIn
<1>5. TasksConsistent'
  <2>1. ASSUME NEW v \in Uploads PROVE MessageConsistent(v)'
    BY <1>0 DEF IInv, TypeOK, SlotType, Tasks, TasksConsistent,
       MessageConsistent, TaskConsistent, IngestPcs, EmbedPcs, Unparsed,
       Parsed, Produced
  <2>2. TaskConsistent(s)'
    <3>1. slot'[s] = Starting(k, u)
      BY <1>0 DEF IInv, TypeOK
    <3>2. IF k = "ingest" THEN Unparsed(u) ELSE Parsed(u)
      BY <1>0 DEF IInv, TasksConsistent, MessageConsistent, Tasks
    <3> QED
      BY <1>0, <3>1, <3>2 DEF TaskConsistent, IngestPcs, EmbedPcs, Unparsed,
         Parsed, Produced
  <2>3. ASSUME NEW t \in Slots, t # s PROVE TaskConsistent(t)'
    <3>1. TaskConsistent(t)
      BY DEF IInv, TasksConsistent
    <3>2. slot'[t] = slot[t]
      BY <1>0, <2>3 DEF IInv, TypeOK
    <3> QED
      BY <1>0, <3>1, <3>2, Undisturbed
  <2> QED
    BY <2>1, <2>2, <2>3 DEF TasksConsistent
<1>6. RowsConsistent'
  BY <1>0 DEF IInv, TypeOK, SlotType, Tasks, RowsConsistent, Parsed,
     Produced, NoTask, Queued, RunsIn, SlotsConsistent, TasksConsistent,
     MessageConsistent, Unparsed
<1>7. ClusteringSeesDocument'
  BY <1>0 DEF IInv, TypeOK, ClusteringSeesDocument
<1> QED
  BY <1>1, <1>2, <1>3, <1>4, <1>5, <1>6, <1>7 DEF IInv

\* Slots that become idle and change nothing else.
LEMMA SlotsReleased ==
  ASSUME IInv, NEW freed \in SUBSET Slots, faults' \in Nat,
         slot' = [s \in Slots |-> IF s \in freed THEN IdleSlot ELSE slot[s]],
         UNCHANGED <<request, files, status, chunks, embedded, job, queue, clustering, operatorVars>>
  PROVE  IInv'
<1> USE DEF IdleSlot, operatorVars
<1>1. TypeOK'
  BY IdsAssumption DEF IInv, TypeOK, SlotType, Pcs, IngestPcs, EmbedPcs,
     RequestStates, DocumentStates, JobStates, Tasks
<1>2. SlotsConsistent'
  BY IdsAssumption DEF IInv, TypeOK, SlotType, SlotsConsistent
<1>3. OneTaskPerDocument'
  BY IdsAssumption DEF IInv, TypeOK, SlotType, Tasks, OneTaskPerDocument,
     Queued, RunsIn
<1>4. RequestsConsistent'
  BY IdsAssumption DEF IInv, TypeOK, SlotType, Tasks, RequestsConsistent,
     NoTask, Queued, RunsIn
<1>5. TasksConsistent'
  BY IdsAssumption DEF IInv, TypeOK, SlotType, Tasks, TasksConsistent,
     MessageConsistent, TaskConsistent, IngestPcs, EmbedPcs, Unparsed,
     Parsed, Produced
<1>6. RowsConsistent'
  BY IdsAssumption DEF IInv, TypeOK, SlotType, Tasks, RowsConsistent,
     Parsed, Produced, NoTask, Queued, RunsIn
<1>7. ClusteringSeesDocument'
  BY IdsAssumption DEF IInv, TypeOK, ClusteringSeesDocument
<1> QED
  BY <1>1, <1>2, <1>3, <1>4, <1>5, <1>6, <1>7 DEF IInv

\* The same for one slot: how most tasks end.
LEMMA OneSlotReleased ==
  ASSUME IInv, NEW s \in Slots, faults' \in Nat,
         slot' = [slot EXCEPT ![s] = IdleSlot],
         UNCHANGED <<request, files, status, chunks, embedded, job, queue, clustering, operatorVars>>
  PROVE  IInv'
<1>1. slot' = [t \in Slots |-> IF t \in {s} THEN IdleSlot ELSE slot[t]]
  BY DEF IInv, TypeOK
<1> QED
  BY <1>1, SlotsReleased

\* The task that never found its rows ends.
LEMMA KeepsGiveUp ==
  ASSUME IInv, NEW s \in Slots, GiveUp(s) PROVE IInv'
BY OneSlotReleased DEF GiveUp, dbVars, operatorVars, IInv, TypeOK

\* The task whose rows PostgreSQL refused ends, and nothing was committed.
LEMMA KeepsRefusedByDatabase ==
  ASSUME IInv, NEW s \in Slots, RefusedByDatabase(s) PROVE IInv'
BY OneSlotReleased DEF RefusedByDatabase, dbVars, operatorVars, IInv, TypeOK

\* A task that raises outside its try blocks ends.
LEMMA KeepsTaskAborts ==
  ASSUME IInv, NEW s \in Slots, TaskAborts(s) PROVE IInv'
<1>1. faults' \in Nat
  BY DEF TaskAborts, IInv, TypeOK
<1>2. /\ slot' = [slot EXCEPT ![s] = IdleSlot]
      /\ UNCHANGED <<request, files, status, chunks, embedded, job, queue, clustering, operatorVars>>
  BY DEF TaskAborts, dbVars
<1> QED
  BY <1>1, <1>2, OneSlotReleased

\* Every task of the worker process ends.
LEMMA KeepsWorkerCrash ==
  ASSUME IInv, WorkerCrash PROVE IInv'
<1>1. slot' = [s \in Slots |-> IF s \in Slots THEN IdleSlot ELSE slot[s]]
  BY DEF WorkerCrash
<1>2. faults' \in Nat
  BY DEF WorkerCrash, IInv, TypeOK
<1>3. UNCHANGED <<request, files, status, chunks, embedded, job, queue, clustering, operatorVars>>
  BY DEF WorkerCrash, dbVars
<1>4. Slots \in SUBSET Slots
  OBVIOUS
<1> QED
  BY <1>1, <1>2, <1>3, <1>4, SlotsReleased

\* Only the number of looks changes.
LEMMA KeepsLoadMiss ==
  ASSUME IInv, NEW s \in Slots, LoadMiss(s)
  PROVE  IInv'
<1> USE DEF LoadMiss, Loading, dbVars, operatorVars
<1>1. TypeOK'
  BY DEF IInv, TypeOK, SlotType, Pcs, IngestPcs, EmbedPcs, RequestStates,
     DocumentStates, JobStates, Tasks
<1>2. SlotsConsistent'
  BY DEF IInv, TypeOK, SlotType, SlotsConsistent
<1>3. OneTaskPerDocument'
  BY DEF IInv, TypeOK, SlotType, Tasks, OneTaskPerDocument, Queued, RunsIn
<1>4. RequestsConsistent'
  BY DEF IInv, TypeOK, SlotType, Tasks, RequestsConsistent, NoTask, Queued,
     RunsIn
<1>5. TasksConsistent'
  <2>1. ASSUME NEW v \in Uploads PROVE MessageConsistent(v)'
    BY DEF IInv, TasksConsistent, MessageConsistent, Unparsed, Parsed, Produced
  <2>2. ASSUME NEW t \in Slots PROVE TaskConsistent(t)'
    <3>1. /\ slot'[t].pc = slot[t].pc /\ slot'[t].on = slot[t].on
          /\ slot'[t].done = slot[t].done /\ slot'[t].todo = slot[t].todo
      BY DEF IInv, TypeOK, SlotType
    <3>2. TaskConsistent(t)
      BY DEF IInv, TasksConsistent
    <3> QED
      BY <3>1, <3>2 DEF TaskConsistent, Unparsed, Parsed, Produced
  <2> QED
    BY <2>1, <2>2 DEF TasksConsistent
<1>6. RowsConsistent'
  BY DEF IInv, TypeOK, SlotType, Tasks, RowsConsistent, Parsed, Produced,
     NoTask, Queued, RunsIn
<1>7. ClusteringSeesDocument'
  BY DEF IInv, TypeOK, ClusteringSeesDocument
<1> QED
  BY <1>1, <1>2, <1>3, <1>4, <1>5, <1>6, <1>7 DEF IInv

\* The task has found its rows.
LEMMA KeepsMarkParsing ==
  ASSUME IInv, NEW s \in Slots, MarkParsing(s)
  PROVE  IInv'
<1> USE DEF MarkParsing, TargetsMissing, dbVars, operatorVars
<1>1. TypeOK'
  BY DEF IInv, TypeOK, SlotType, Pcs, IngestPcs, EmbedPcs, RequestStates,
     DocumentStates, JobStates, Tasks
<1>2. SlotsConsistent'
  BY DEF IInv, TypeOK, SlotType, SlotsConsistent
<1>3. OneTaskPerDocument'
  BY DEF IInv, TypeOK, SlotType, Tasks, OneTaskPerDocument, Queued, RunsIn
<1>4. RequestsConsistent'
  BY DEF IInv, TypeOK, SlotType, Tasks, RequestsConsistent, NoTask, Queued,
     RunsIn
<1>5. TasksConsistent'
  BY DEF IInv, TypeOK, SlotType, Tasks, TasksConsistent, MessageConsistent,
     TaskConsistent, IngestPcs, EmbedPcs, Unparsed, Parsed, Produced
<1>6. RowsConsistent'
  BY DEF IInv, TypeOK, SlotType, Tasks, RowsConsistent, Parsed, Produced,
     NoTask, Queued, RunsIn
<1>7. ClusteringSeesDocument'
  BY DEF IInv, TypeOK, ClusteringSeesDocument
<1> QED
  BY <1>1, <1>2, <1>3, <1>4, <1>5, <1>6, <1>7 DEF IInv

\* The chunks appear together with the status.
LEMMA KeepsCommitParsed ==
  ASSUME IInv, NEW s \in Slots, CommitParsed(s)
  PROVE  IInv'
<1> USE DEF CommitParsed, operatorVars
<1>0. /\ slot[s].on \in Uploads
      /\ \A t \in Tasks : queue[t][slot[s].on] = 0
      /\ \A t \in Slots : slot[t].on = slot[s].on => t = s
      /\ Unparsed(slot[s].on) /\ status[slot[s].on] # "absent"
      /\ job[slot[s].on] = "queued"
  BY RunningTask DEF RequestsConsistent, Unparsed, IInv, TypeOK, SlotType, TasksConsistent, TaskConsistent, IngestPcs
<1>1. TypeOK'
  BY <1>0, ProducedNat DEF IInv, TypeOK, SlotType, Pcs, IngestPcs, EmbedPcs,
     RequestStates, DocumentStates, JobStates, Tasks
<1>2. SlotsConsistent'
  BY <1>0 DEF IInv, TypeOK, SlotType, SlotsConsistent
<1>3. OneTaskPerDocument'
  BY <1>0 DEF IInv, TypeOK, SlotType, Tasks, OneTaskPerDocument, Queued,
     RunsIn
<1>4. RequestsConsistent'
  BY <1>0 DEF IInv, TypeOK, SlotType, Tasks, RequestsConsistent, NoTask,
     Queued, RunsIn, Unparsed
<1>5. TasksConsistent'
  <2>1. ASSUME NEW v \in Uploads PROVE MessageConsistent(v)'
    BY <1>0, ProducedNat DEF IInv, TypeOK, SlotType, Tasks, TasksConsistent,
       MessageConsistent, TaskConsistent, IngestPcs, EmbedPcs, Unparsed,
       Parsed, Produced
  <2>2. TaskConsistent(s)'
    BY <1>0, ProducedNat DEF IInv, TypeOK, SlotType, TasksConsistent,
       TaskConsistent, IngestPcs, EmbedPcs, Unparsed,
       Parsed, Produced
  <2>3. ASSUME NEW t \in Slots, t # s PROVE TaskConsistent(t)'
    <3>1. TaskConsistent(t)
      BY DEF IInv, TasksConsistent
    <3>2. slot'[t] = slot[t]
      BY <1>0, <2>3 DEF IInv, TypeOK
    <3>3. ASSUME slot[t].pc # "idle"
          PROVE  slot[t].on \in Uploads /\ slot[t].on # slot[s].on
      BY <1>0, <2>3, <3>3, RunningTask
    <3> QED
      BY <1>0, <3>1, <3>2, <3>3, Undisturbed DEF IInv, TypeOK
  <2> QED
    BY <2>1, <2>2, <2>3 DEF TasksConsistent
<1>6. RowsConsistent'
  BY <1>0, ProducedNat DEF IInv, TypeOK, SlotType, Tasks, RowsConsistent,
     Parsed, Produced, NoTask, Queued, RunsIn, Unparsed, RequestsConsistent
<1>7. ClusteringSeesDocument'
  BY <1>0 DEF IInv, TypeOK, ClusteringSeesDocument, Unparsed
<1> QED
  BY <1>1, <1>2, <1>3, <1>4, <1>5, <1>6, <1>7 DEF IInv

\* The document and its job fail together, and the task is gone.
LEMMA KeepsFailIngest ==
  ASSUME IInv, NEW s \in Slots, FailIngest(s)
  PROVE  IInv'
<1> USE DEF FailIngest, IdleSlot
<1>0. /\ slot[s].on \in Uploads
      /\ \A t \in Tasks : queue[t][slot[s].on] = 0
      /\ \A t \in Slots : slot[t].on = slot[s].on => t = s
      /\ Unparsed(slot[s].on) /\ status[slot[s].on] # "absent"
  BY RunningTask DEF IInv, TypeOK, SlotType, TasksConsistent, TaskConsistent, IngestPcs
<1>1. TypeOK'
  BY <1>0 DEF IInv, TypeOK, SlotType, Pcs, IngestPcs, EmbedPcs,
     RequestStates, DocumentStates, JobStates, Tasks
<1>2. SlotsConsistent'
  BY <1>0, IdsAssumption DEF IInv, TypeOK, SlotType, SlotsConsistent
<1>3. OneTaskPerDocument'
  BY <1>0, IdsAssumption DEF IInv, TypeOK, SlotType, Tasks,
     OneTaskPerDocument, Queued, RunsIn
<1>4. RequestsConsistent'
  BY <1>0, IdsAssumption DEF IInv, TypeOK, SlotType, Tasks,
     RequestsConsistent, NoTask, Queued, RunsIn, Unparsed
<1>5. TasksConsistent'
  <2>1. ASSUME NEW v \in Uploads PROVE MessageConsistent(v)'
    BY <1>0 DEF IInv, TypeOK, Tasks, TasksConsistent, MessageConsistent,
       Unparsed, Parsed, Produced
  <2>2. TaskConsistent(s)'
    BY DEF IInv, TypeOK, TaskConsistent, IngestPcs, EmbedPcs
  <2>3. ASSUME NEW t \in Slots, t # s PROVE TaskConsistent(t)'
    <3>1. TaskConsistent(t)
      BY DEF IInv, TasksConsistent
    <3>2. slot'[t] = slot[t]
      BY <2>3 DEF IInv, TypeOK
    <3>3. ASSUME slot[t].pc # "idle"
          PROVE  slot[t].on \in Uploads /\ slot[t].on # slot[s].on
      BY <1>0, <2>3, <3>3, RunningTask
    <3> QED
      BY <1>0, <3>1, <3>2, <3>3, Undisturbed DEF IInv, TypeOK
  <2> QED
    BY <2>1, <2>2, <2>3 DEF TasksConsistent
<1>6. RowsConsistent'
  BY <1>0, IdsAssumption DEF IInv, TypeOK, SlotType, Tasks, RowsConsistent,
     Parsed, Produced, NoTask, Queued, RunsIn, Unparsed, RequestsConsistent
<1>7. ClusteringSeesDocument'
  BY <1>0 DEF IInv, TypeOK, ClusteringSeesDocument, Unparsed
<1> QED
  BY <1>1, <1>2, <1>3, <1>4, <1>5, <1>6, <1>7 DEF IInv

\* The running task becomes a message: still one for its document.
LEMMA KeepsEnqueueEmbed ==
  ASSUME IInv, NEW s \in Slots, EnqueueEmbed(s)
  PROVE  IInv'
<1> USE DEF EnqueueEmbed, Send, IdleSlot, dbVars, operatorVars
<1>0. /\ slot[s].on \in Uploads
      /\ \A t \in Tasks : queue[t][slot[s].on] = 0
      /\ \A t \in Slots : slot[t].on = slot[s].on => t = s
      /\ Parsed(slot[s].on)
  BY RunningTask DEF IInv, TypeOK, SlotType, TasksConsistent, TaskConsistent, EmbedPcs
<1>1. TypeOK'
  BY <1>0 DEF IInv, TypeOK, SlotType, Pcs, IngestPcs, EmbedPcs,
     RequestStates, DocumentStates, JobStates, Tasks
<1>2. SlotsConsistent'
  BY <1>0, IdsAssumption DEF IInv, TypeOK, SlotType, SlotsConsistent
<1>3. OneTaskPerDocument'
  BY <1>0, IdsAssumption DEF IInv, TypeOK, SlotType, Tasks,
     OneTaskPerDocument, Queued, RunsIn
<1>4. RequestsConsistent'
  BY <1>0, IdsAssumption DEF IInv, TypeOK, SlotType, Tasks,
     RequestsConsistent, NoTask, Queued, RunsIn, Parsed
<1>5. TasksConsistent'
  <2>1. ASSUME NEW v \in Uploads PROVE MessageConsistent(v)'
    <3>1. CASE v = slot[s].on
      BY <1>0, <3>1 DEF IInv, TypeOK, Tasks, MessageConsistent, Parsed, Produced
    <3>2. CASE v # slot[s].on
      BY <1>0, <3>2 DEF IInv, TypeOK, Tasks, TasksConsistent,
         MessageConsistent, Unparsed, Parsed, Produced
    <3> QED
      BY <3>1, <3>2
  <2>2. TaskConsistent(s)'
    BY DEF IInv, TypeOK, TaskConsistent, IngestPcs, EmbedPcs
  <2>3. ASSUME NEW t \in Slots, t # s PROVE TaskConsistent(t)'
    <3>1. TaskConsistent(t)
      BY DEF IInv, TasksConsistent
    <3>2. slot'[t] = slot[t]
      BY <2>3 DEF IInv, TypeOK
    <3>3. ASSUME slot[t].pc # "idle"
          PROVE  slot[t].on \in Uploads /\ slot[t].on # slot[s].on
      BY <1>0, <2>3, <3>3, RunningTask
    <3> QED
      BY <1>0, <3>1, <3>2, <3>3, Undisturbed DEF IInv, TypeOK
  <2> QED
    BY <2>1, <2>2, <2>3 DEF TasksConsistent
<1>6. RowsConsistent'
  BY <1>0, IdsAssumption DEF IInv, TypeOK, SlotType, Tasks, RowsConsistent,
     Parsed, Produced, NoTask, Queued, RunsIn, Parsed
<1>7. ClusteringSeesDocument'
  BY <1>0 DEF IInv, TypeOK, ClusteringSeesDocument
<1> QED
  BY <1>1, <1>2, <1>3, <1>4, <1>5, <1>6, <1>7 DEF IInv

\* All the chunks of the document are there and none is embedded.
LEMMA KeepsLoadPendingChunks ==
  ASSUME IInv, NEW s \in Slots, LoadPendingChunks(s)
  PROVE  IInv'
<1> USE DEF LoadPendingChunks, dbVars, operatorVars
<1>0. /\ slot[s].on \in Uploads
      /\ \A t \in Tasks : queue[t][slot[s].on] = 0
      /\ \A t \in Slots : slot[t].on = slot[s].on => t = s
      /\ Parsed(slot[s].on)
  BY RunningTask DEF IInv, TypeOK, SlotType, TasksConsistent, TaskConsistent, EmbedPcs
<1>1. TypeOK'
  <2>1. /\ embedded[slot[s].on] = 0
        /\ chunks[slot[s].on] - embedded[slot[s].on] = Produced(slot[s].on)
        /\ Produced(slot[s].on) \in Nat
    BY <1>0, ProducedNat DEF Parsed
  <2>2. slot' = [slot EXCEPT ![s].pc = "embedding", ![s].done = 0,
                             ![s].todo = Produced(slot[s].on)]
    BY <2>1
  <2>3. slot[s] \in SlotType
    BY DEF IInv, TypeOK
  <2>4. slot'[s] = [pc |-> "embedding", on |-> slot[s].on, reads |-> slot[s].reads,
                    done |-> 0, todo |-> Produced(slot[s].on), due |-> slot[s].due]
    BY <2>2, <2>3 DEF IInv, TypeOK, SlotType
  <2>5. slot'[s] \in SlotType
    BY <2>1, <2>3, <2>4 DEF SlotType, Pcs, EmbedPcs
  <2> QED
    BY <2>2, <2>5 DEF IInv, TypeOK
<1>2. SlotsConsistent'
  BY <1>0 DEF IInv, TypeOK, SlotType, SlotsConsistent
<1>3. OneTaskPerDocument'
  BY <1>0 DEF IInv, TypeOK, SlotType, Tasks, OneTaskPerDocument, Queued,
     RunsIn
<1>4. RequestsConsistent'
  BY <1>0 DEF IInv, TypeOK, SlotType, Tasks, RequestsConsistent, NoTask,
     Queued, RunsIn
<1>5. TasksConsistent'
  <2>1. ASSUME NEW v \in Uploads PROVE MessageConsistent(v)'
    BY DEF IInv, TasksConsistent, MessageConsistent, Unparsed, Parsed, Produced
  <2>2. TaskConsistent(s)'
    <3>1. /\ slot'[s].pc = "embedding" /\ slot'[s].on = slot[s].on
          /\ slot'[s].done = embedded[slot[s].on]
          /\ slot'[s].todo = chunks[slot[s].on] - embedded[slot[s].on]
      BY DEF IInv, TypeOK, SlotType
    <3>2. embedded[slot[s].on] = 0 /\ chunks[slot[s].on] = Produced(slot[s].on)
      BY <1>0 DEF Parsed
    <3>3. slot'[s].done + slot'[s].todo = Produced(slot[s].on)
      BY <1>0, <3>1, <3>2, ProducedNat
    <3> QED
      BY <1>0, <3>1, <3>3 DEF TaskConsistent, IngestPcs, Parsed, Produced
  <2>3. ASSUME NEW t \in Slots, t # s PROVE TaskConsistent(t)'
    <3>1. TaskConsistent(t)
      BY DEF IInv, TasksConsistent
    <3>2. slot'[t] = slot[t]
      BY <2>3 DEF IInv, TypeOK
    <3> QED
      BY <3>1, <3>2, Undisturbed
  <2> QED
    BY <2>1, <2>2, <2>3 DEF TasksConsistent
<1>6. RowsConsistent'
  BY <1>0 DEF IInv, TypeOK, SlotType, Tasks, RowsConsistent, Parsed,
     Produced, NoTask, Queued, RunsIn
<1>7. ClusteringSeesDocument'
  BY <1>0 DEF IInv, TypeOK, ClusteringSeesDocument
<1> QED
  BY <1>1, <1>2, <1>3, <1>4, <1>5, <1>6, <1>7 DEF IInv

\* A batch moves chunks from todo to done.
LEMMA KeepsEmbedBatch ==
  ASSUME IInv, NEW s \in Slots, EmbedBatch(s)
  PROVE  IInv'
<1> USE DEF EmbedBatch, Smaller, dbVars, operatorVars
<1>1. TypeOK'
  BY BoundsAssumption DEF IInv, TypeOK, SlotType, Pcs, IngestPcs, EmbedPcs,
     RequestStates, DocumentStates, JobStates, Tasks
<1>2. SlotsConsistent'
  BY DEF IInv, TypeOK, SlotType, SlotsConsistent
<1>3. OneTaskPerDocument'
  BY DEF IInv, TypeOK, SlotType, Tasks, OneTaskPerDocument, Queued, RunsIn
<1>4. RequestsConsistent'
  BY DEF IInv, TypeOK, SlotType, Tasks, RequestsConsistent, NoTask, Queued,
     RunsIn
<1>5. TasksConsistent'
  <2>1. ASSUME NEW v \in Uploads PROVE MessageConsistent(v)'
    BY DEF IInv, TasksConsistent, MessageConsistent, Unparsed, Parsed, Produced
  <2>2. TaskConsistent(s)'
    <3> DEFINE n == Smaller(BatchSize, slot[s].todo)
    <3>1. /\ slot'[s].pc = slot[s].pc /\ slot'[s].on = slot[s].on
          /\ slot'[s].done = slot[s].done + n /\ slot'[s].todo = slot[s].todo - n
      BY DEF IInv, TypeOK, SlotType
    <3>2. n \in Nat /\ slot[s].done \in Nat /\ slot[s].todo \in Nat
      BY BoundsAssumption DEF IInv, TypeOK, SlotType
    <3>3. slot'[s].done + slot'[s].todo = slot[s].done + slot[s].todo
      BY <3>1, <3>2
    <3>4. TaskConsistent(s)
      BY DEF IInv, TasksConsistent
    <3> QED
      BY <3>1, <3>3, <3>4 DEF TaskConsistent, IngestPcs, EmbedPcs, Parsed, Produced
  <2>3. ASSUME NEW t \in Slots, t # s PROVE TaskConsistent(t)'
    <3>1. TaskConsistent(t)
      BY DEF IInv, TasksConsistent
    <3>2. slot'[t] = slot[t]
      BY <2>3 DEF IInv, TypeOK
    <3> QED
      BY <3>1, <3>2, Undisturbed
  <2> QED
    BY <2>1, <2>2, <2>3 DEF TasksConsistent
<1>6. RowsConsistent'
  BY DEF IInv, TypeOK, SlotType, Tasks, RowsConsistent, Parsed, Produced,
     NoTask, Queued, RunsIn
<1>7. ClusteringSeesDocument'
  BY DEF IInv, TypeOK, ClusteringSeesDocument
<1> QED
  BY <1>1, <1>2, <1>3, <1>4, <1>5, <1>6, <1>7 DEF IInv

\* Partial progress is committed with the failure.
LEMMA KeepsFailEmbed ==
  ASSUME IInv, NEW s \in Slots, FailEmbed(s)
  PROVE  IInv'
<1> USE DEF FailEmbed, IdleSlot
<1>0. /\ slot[s].on \in Uploads
      /\ \A t \in Tasks : queue[t][slot[s].on] = 0
      /\ \A t \in Slots : slot[t].on = slot[s].on => t = s
      /\ Parsed(slot[s].on)
  BY RunningTask DEF IInv, TypeOK, SlotType, TasksConsistent, TaskConsistent, EmbedPcs
<1>1. TypeOK'
  BY <1>0 DEF IInv, TypeOK, SlotType, Pcs, IngestPcs, EmbedPcs,
     RequestStates, DocumentStates, JobStates, Tasks
<1>2. SlotsConsistent'
  BY <1>0, IdsAssumption DEF IInv, TypeOK, SlotType, SlotsConsistent
<1>3. OneTaskPerDocument'
  BY <1>0, IdsAssumption DEF IInv, TypeOK, SlotType, Tasks,
     OneTaskPerDocument, Queued, RunsIn
<1>4. RequestsConsistent'
  BY <1>0, IdsAssumption DEF IInv, TypeOK, SlotType, Tasks,
     RequestsConsistent, NoTask, Queued, RunsIn, Parsed
<1>5. TasksConsistent'
  <2>1. ASSUME NEW v \in Uploads PROVE MessageConsistent(v)'
    BY <1>0 DEF IInv, TypeOK, Tasks, TasksConsistent, MessageConsistent,
       Unparsed, Parsed, Produced
  <2>2. TaskConsistent(s)'
    BY DEF IInv, TypeOK, TaskConsistent, IngestPcs, EmbedPcs
  <2>3. ASSUME NEW t \in Slots, t # s PROVE TaskConsistent(t)'
    <3>1. TaskConsistent(t)
      BY DEF IInv, TasksConsistent
    <3>2. slot'[t] = slot[t]
      BY <2>3 DEF IInv, TypeOK
    <3>3. ASSUME slot[t].pc # "idle"
          PROVE  slot[t].on \in Uploads /\ slot[t].on # slot[s].on
      BY <1>0, <2>3, <3>3, RunningTask
    <3> QED
      BY <1>0, <3>1, <3>2, <3>3, Undisturbed DEF IInv, TypeOK
  <2> QED
    BY <2>1, <2>2, <2>3 DEF TasksConsistent
<1>6. RowsConsistent'
  BY <1>0, IdsAssumption DEF IInv, TypeOK, SlotType, Tasks, RowsConsistent,
     Parsed, Produced, NoTask, Queued, RunsIn, Parsed
<1>7. ClusteringSeesDocument'
  BY <1>0 DEF IInv, TypeOK, ClusteringSeesDocument, Parsed
<1> QED
  BY <1>1, <1>2, <1>3, <1>4, <1>5, <1>6, <1>7 DEF IInv

\* Everything is embedded.
LEMMA KeepsMarkIndexed ==
  ASSUME IInv, NEW s \in Slots, MarkIndexed(s)
  PROVE  IInv'
<1> USE DEF MarkIndexed, dbVars, operatorVars
<1>1. TypeOK'
  <2>1. PICK due \in BOOLEAN :
          slot' = [slot EXCEPT ![s].pc = "indexing", ![s].due = due]
    OBVIOUS
  <2>2. slot' = [slot EXCEPT ![s] = [slot[s] EXCEPT !.pc = "indexing", !.due = due]]
    BY <2>1 DEF IInv, TypeOK, SlotType
  <2>3. slot'[s] \in SlotType
    <3>1. slot[s] \in SlotType /\ slot'[s] = [slot[s] EXCEPT !.pc = "indexing", !.due = due]
      BY <2>2 DEF IInv, TypeOK
    <3>2. "indexing" \in Pcs
      BY DEF Pcs, EmbedPcs
    <3>3. slot'[s] = [pc |-> "indexing", on |-> slot[s].on, reads |-> slot[s].reads,
                      done |-> slot[s].done, todo |-> slot[s].todo, due |-> due]
      BY <3>1 DEF SlotType
    <3> QED
      BY <2>1, <3>1, <3>2, <3>3 DEF SlotType
  <2> QED
    BY <2>2, <2>3 DEF IInv, TypeOK
<1>2. SlotsConsistent'
  BY DEF IInv, TypeOK, SlotType, SlotsConsistent
<1>3. OneTaskPerDocument'
  BY DEF IInv, TypeOK, SlotType, Tasks, OneTaskPerDocument, Queued, RunsIn
<1>4. RequestsConsistent'
  BY DEF IInv, TypeOK, SlotType, Tasks, RequestsConsistent, NoTask, Queued,
     RunsIn
<1>5. TasksConsistent'
  <2>1. ASSUME NEW v \in Uploads PROVE MessageConsistent(v)'
    BY DEF IInv, TasksConsistent, MessageConsistent, Unparsed, Parsed, Produced
  <2>2. TaskConsistent(s)'
    <3>1. /\ slot'[s].pc = "indexing" /\ slot'[s].on = slot[s].on
          /\ slot'[s].done = slot[s].done /\ slot'[s].todo = slot[s].todo
      BY DEF IInv, TypeOK, SlotType
    <3>2. TaskConsistent(s)
      BY DEF IInv, TasksConsistent
    <3> QED
      BY <3>1, <3>2 DEF TaskConsistent, IngestPcs, EmbedPcs, Unparsed, Parsed, Produced
  <2>3. ASSUME NEW t \in Slots, t # s PROVE TaskConsistent(t)'
    <3>1. TaskConsistent(t)
      BY DEF IInv, TasksConsistent
    <3>2. slot'[t] = slot[t]
      BY <2>3 DEF IInv, TypeOK
    <3> QED
      BY <3>1, <3>2 DEF TaskConsistent, Unparsed, Parsed, Produced
  <2> QED
    BY <2>1, <2>2, <2>3 DEF TasksConsistent
<1>6. RowsConsistent'
  BY DEF IInv, TypeOK, SlotType, Tasks, RowsConsistent, Parsed, Produced,
     NoTask, Queued, RunsIn
<1>7. ClusteringSeesDocument'
  BY DEF IInv, TypeOK, ClusteringSeesDocument
<1> QED
  BY <1>1, <1>2, <1>3, <1>4, <1>5, <1>6, <1>7 DEF IInv

\* The embeddings appear together with the status.
LEMMA KeepsCommitIndexed ==
  ASSUME IInv, NEW s \in Slots, CommitIndexed(s)
  PROVE  IInv'
<1> USE DEF CommitIndexed, IdleSlot, operatorVars
<1>0. /\ slot[s].on \in Uploads
      /\ \A t \in Tasks : queue[t][slot[s].on] = 0
      /\ \A t \in Slots : slot[t].on = slot[s].on => t = s
      /\ Parsed(slot[s].on) /\ slot[s].done = Produced(slot[s].on)
      /\ slot[s].due \in BOOLEAN
  BY RunningTask, ProducedNat DEF IInv, TypeOK, SlotType, TasksConsistent, TaskConsistent, EmbedPcs
<1>1. TypeOK'
  BY <1>0 DEF IInv, TypeOK, SlotType, Pcs, IngestPcs, EmbedPcs,
     RequestStates, DocumentStates, JobStates, Tasks
<1>2. SlotsConsistent'
  BY <1>0, IdsAssumption DEF IInv, TypeOK, SlotType, SlotsConsistent
<1>3. OneTaskPerDocument'
  BY <1>0, IdsAssumption DEF IInv, TypeOK, SlotType, Tasks,
     OneTaskPerDocument, Queued, RunsIn
<1>4. RequestsConsistent'
  BY <1>0, IdsAssumption DEF IInv, TypeOK, SlotType, Tasks,
     RequestsConsistent, NoTask, Queued, RunsIn, Parsed
<1>5. TasksConsistent'
  <2>1. ASSUME NEW v \in Uploads PROVE MessageConsistent(v)'
    BY <1>0 DEF IInv, TypeOK, Tasks, TasksConsistent, MessageConsistent,
       Unparsed, Parsed, Produced
  <2>2. TaskConsistent(s)'
    <3>1. /\ slot'[s].pc \in {"trigger", "idle"}
          /\ slot'[s].pc = "trigger" => slot'[s].on = slot[s].on
      BY DEF IInv, TypeOK, SlotType
    <3>2. job'[slot[s].on] = "succeeded"
      BY <1>0 DEF IInv, TypeOK
    <3> QED
      BY <3>1, <3>2 DEF TaskConsistent, IngestPcs, EmbedPcs
  <2>3. ASSUME NEW t \in Slots, t # s PROVE TaskConsistent(t)'
    <3>1. TaskConsistent(t)
      BY DEF IInv, TasksConsistent
    <3>2. slot'[t] = slot[t]
      BY <1>0, <2>3 DEF IInv, TypeOK
    <3>3. ASSUME slot[t].pc # "idle"
          PROVE  slot[t].on \in Uploads /\ slot[t].on # slot[s].on
      BY <1>0, <2>3, <3>3, RunningTask
    <3> QED
      BY <1>0, <3>1, <3>2, <3>3, Undisturbed DEF IInv, TypeOK
  <2> QED
    BY <2>1, <2>2, <2>3 DEF TasksConsistent
<1>6. RowsConsistent'
  BY <1>0, IdsAssumption DEF IInv, TypeOK, SlotType, Tasks, RowsConsistent,
     Parsed, Produced, NoTask, Queued, RunsIn, Parsed, SlotsConsistent
<1>7. ClusteringSeesDocument'
  BY <1>0 DEF IInv, TypeOK, ClusteringSeesDocument, Parsed
<1> QED
  BY <1>1, <1>2, <1>3, <1>4, <1>5, <1>6, <1>7 DEF IInv

\* The job of the trigger's document is committed as succeeded.
LEMMA KeepsEnqueueClustering ==
  ASSUME IInv, NEW s \in Slots, EnqueueClustering(s)
  PROVE  IInv'
<1> USE DEF EnqueueClustering, IdleSlot, dbVars, operatorVars
<1>0. /\ slot[s].on \in Uploads
      /\ \A t \in Tasks : queue[t][slot[s].on] = 0
      /\ \A t \in Slots : slot[t].on = slot[s].on => t = s
      /\ job[slot[s].on] = "succeeded"
      /\ status[slot[s].on] = "indexed" \/ slot[s].on \in abandoned
  BY RunningTask DEF IInv, TypeOK, SlotType, TasksConsistent, TaskConsistent, RowsConsistent
<1>1. TypeOK'
  BY <1>0 DEF IInv, TypeOK, SlotType, Pcs, IngestPcs, EmbedPcs,
     RequestStates, DocumentStates, JobStates, Tasks
<1>2. SlotsConsistent'
  BY <1>0, IdsAssumption DEF IInv, TypeOK, SlotType, SlotsConsistent
<1>3. OneTaskPerDocument'
  BY <1>0, IdsAssumption DEF IInv, TypeOK, SlotType, Tasks,
     OneTaskPerDocument, Queued, RunsIn
<1>4. RequestsConsistent'
  BY <1>0, IdsAssumption DEF IInv, TypeOK, SlotType, Tasks,
     RequestsConsistent, NoTask, Queued, RunsIn
<1>5. TasksConsistent'
  BY <1>0 DEF IInv, TypeOK, SlotType, Tasks, TasksConsistent,
     MessageConsistent, TaskConsistent, IngestPcs, EmbedPcs, Unparsed,
     Parsed, Produced
<1>6. RowsConsistent'
  BY <1>0, IdsAssumption DEF IInv, TypeOK, SlotType, Tasks, RowsConsistent,
     Parsed, Produced, NoTask, Queued, RunsIn
<1>7. ClusteringSeesDocument'
  BY <1>0 DEF IInv, TypeOK, ClusteringSeesDocument
<1> QED
  BY <1>1, <1>2, <1>3, <1>4, <1>5, <1>6, <1>7 DEF IInv

\* The operator's look changes nothing but the operator's mind.
LEMMA KeepsLookAtStuck ==
  ASSUME IInv, NEW d \in Uploads, LookAtStuck(d)
  PROVE  IInv'
<1> USE DEF LookAtStuck, dbVars, workVars
<1>1. TypeOK'
  BY DEF IInv, TypeOK
<1>2. SlotsConsistent'
  BY DEF IInv, TypeOK, SlotType, SlotsConsistent
<1>3. OneTaskPerDocument'
  BY DEF IInv, TypeOK, SlotType, Tasks, OneTaskPerDocument, Queued, RunsIn
<1>4. RequestsConsistent'
  BY DEF IInv, TypeOK, SlotType, Tasks, RequestsConsistent, RowsConsistent, NoTask, Queued,
     RunsIn
<1>5. TasksConsistent'
  BY DEF IInv, TasksConsistent, MessageConsistent, TaskConsistent, Unparsed, Parsed, Produced
<1>6. RowsConsistent'
  BY DEF IInv, TypeOK, RowsConsistent, Parsed, Produced, NoTask, Queued, RunsIn
<1>7. ClusteringSeesDocument'
  BY DEF IInv, ClusteringSeesDocument
<1> QED
  BY <1>1, <1>2, <1>3, <1>4, <1>5, <1>6, <1>7 DEF IInv

\* The operator's UPDATE fails one document, whatever its tasks have done, and
\* leaves its mark where a job has succeeded.
LEMMA KeepsAbandonStuck ==
  ASSUME IInv, NEW d \in Uploads, AbandonStuck(d)
  PROVE  IInv'
<1> USE DEF AbandonStuck, workVars
<1>0. status[d] # "absent"
  BY DEF IInv, RowsConsistent
<1>1. TypeOK'
  BY DEF IInv, TypeOK, DocumentStates
<1>2. SlotsConsistent'
  BY DEF IInv, TypeOK, SlotType, SlotsConsistent
<1>3. OneTaskPerDocument'
  BY DEF IInv, TypeOK, SlotType, Tasks, OneTaskPerDocument, Queued, RunsIn
<1>4. RequestsConsistent'
  BY <1>0 DEF IInv, TypeOK, SlotType, Tasks, RequestsConsistent, RowsConsistent, NoTask, Queued,
     RunsIn
<1>5. TasksConsistent'
  <2>1. ASSUME NEW v \in Uploads PROVE MessageConsistent(v)'
    BY DEF IInv, TypeOK, Tasks, TasksConsistent, MessageConsistent, Unparsed, Parsed, Produced
  <2>2. ASSUME NEW t \in Slots PROVE TaskConsistent(t)'
    <3>1. TaskConsistent(t) /\ (slot[t].pc # "idle" => slot[t].on \in Uploads)
      BY RunningTask DEF IInv, TasksConsistent
    <3>2. status'[slot[t].on] = IF slot[t].on = d THEN "failed" ELSE status[slot[t].on]
      BY DEF IInv, TypeOK
    <3> QED
      BY <1>0, <3>1, <3>2 DEF TaskConsistent, IngestPcs, EmbedPcs, Unparsed, Parsed, Produced
  <2> QED
    BY <2>1, <2>2 DEF TasksConsistent
<1>6. RowsConsistent'
  BY <1>0 DEF IInv, TypeOK, RowsConsistent, RequestsConsistent, Parsed, Produced, NoTask, Queued,
     RunsIn
<1>7. ClusteringSeesDocument'
  BY DEF IInv, TypeOK, ClusteringSeesDocument
<1> QED
  BY <1>1, <1>2, <1>3, <1>4, <1>5, <1>6, <1>7 DEF IInv

-----------------------------------------------------------------------------

\* The invariant is inductive: one step per action.
LEMMA NextKeepsIInv == IInv /\ [Next]_vars => IInv'
<1> SUFFICES ASSUME IInv, [Next]_vars PROVE IInv'
  OBVIOUS
<1>1. ASSUME NEW u \in Uploads, EnforceDailyUploadLimit(u) PROVE IInv'
  BY <1>1, KeepsEnforceDailyUploadLimit
<1>2. ASSUME NEW u \in Uploads, Handle(u) PROVE IInv'
  BY <1>2, KeepsWriteUploadedFile, KeepsDeduplicate, KeepsInsertRows, KeepsEnqueueIngest,
     KeepsCommitUpload DEF Handle
<1>3. ASSUME NEW u \in Uploads, UploadAborts(u) PROVE IInv'
  BY <1>3, KeepsUploadAborts
<1>4. ASSUME NEW s \in Slots, Work(s) PROVE IInv'
  BY <1>4, KeepsStartTask, KeepsLoadMiss, KeepsGiveUp, KeepsMarkParsing, KeepsCommitParsed,
     KeepsFailIngest, KeepsRefusedByDatabase, KeepsEnqueueEmbed, KeepsLoadPendingChunks,
     KeepsEmbedBatch, KeepsFailEmbed, KeepsMarkIndexed, KeepsCommitIndexed,
     KeepsEnqueueClustering DEF Work
<1>5. ASSUME NEW s \in Slots, TaskAborts(s) PROVE IInv'
  BY <1>5, KeepsTaskAborts
<1>6. ASSUME WorkerCrash PROVE IInv'
  BY <1>6, KeepsWorkerCrash
<1>7. ASSUME NEW d \in Uploads, LookAtStuck(d) \/ AbandonStuck(d) PROVE IInv'
  BY <1>7, KeepsLookAtStuck, KeepsAbandonStuck
<1>8. CASE UNCHANGED vars
  BY <1>8 DEF vars, dbVars, workVars, operatorVars, IInv, TypeOK, SlotsConsistent, OneTaskPerDocument,
     RequestsConsistent, TasksConsistent, MessageConsistent, TaskConsistent, RowsConsistent,
     ClusteringSeesDocument, Unparsed, Parsed, NoTask, Queued, RunsIn, Produced
<1> QED
  BY <1>1, <1>2, <1>3, <1>4, <1>5, <1>6, <1>7, <1>8 DEF Next

\* IInv holds in every reachable state, for all values of the constants.
THEOREM Invariance == Spec => []IInv
<1>1. Init => IInv
  BY InitIInv
<1>2. IInv /\ [Next]_vars => IInv'
  BY NextKeepsIInv
<1> QED
  BY <1>1, <1>2, PTL DEF Spec

\* Every variable keeps its type; a task's counters never go below zero.
THEOREM TypeCorrect == Spec => []TypeOK
<1>1. IInv => TypeOK
  BY DEF IInv
<1> QED
  BY <1>1, Invariance, PTL

\* A document never has two tasks, whatever aborts, crashes or is abandoned.
THEOREM OneTask == Spec => []OneTaskPerDocument
<1>1. IInv => OneTaskPerDocument
  BY DEF IInv
<1> QED
  BY <1>1, Invariance, PTL

\* A searchable document has every chunk of its content, with its embedding.
THEOREM SearchableWhole == Spec => []SearchableIsComplete
<1>1. IInv => SearchableIsComplete
  BY DEF IInv, RowsConsistent, SearchableIsComplete
<1> QED
  BY <1>1, Invariance, PTL

\* The embed task never races ahead of the chunks it reads.
THEOREM EmbedAfterParse == Spec => []EmbedReadsAllChunks
<1>1. IInv => EmbedReadsAllChunks
  BY DEF IInv, TasksConsistent, TaskConsistent, EmbedReadsAllChunks
<1> QED
  BY <1>1, Invariance, PTL

\* The job a client polls contradicts the document only under the mark of the
\* operator's UPDATE.
THEOREM JobsAgree == Spec => []JobAgrees
<1>1. IInv => JobAgrees
  BY DEF IInv, RowsConsistent, JobAgrees, HasWork, NoTask
<1> QED
  BY <1>1, Invariance, PTL

\* A committed document has its file; a rejected request leaves nothing.
THEOREM FilesMatch == Spec => []FilesMatchRows
<1>1. IInv => FilesMatchRows
  BY DEF IInv, RequestsConsistent, FilesMatchRows, HasWork, NoTask
<1> QED
  BY <1>1, Invariance, PTL

\* A clustering run is queued only for a committed completion, of a document
\* that is searchable unless the operator has abandoned it.
THEOREM ClusteringAfterCommit == Spec => []ClusteringSeesDocument
<1>1. IInv => ClusteringSeesDocument
  BY DEF IInv
<1> QED
  BY <1>1, Invariance, PTL

-----------------------------------------------------------------------------
(* Unfinished documents and their tasks. *)

\* A task is promised to the document: queued with its upload, or by its status.
WorkDue(u) == request[u] = "queued" \/ status[u] \in {"pending", "parsing", "parsed"}

\* No document is lost before the first fault, except one whose rows PostgreSQL
\* refuses.
WorkRemains ==
    faults = 0 /\ CommitWithinRetries =>
        \A u \in Uploads : ContentOf[u] \notin Unstorable /\ WorkDue(u) => HasWork(u)

\* A document whose message and tasks are left alone keeps its work.
LEMMA WorkUndisturbed ==
  ASSUME NEW u \in Uploads, HasWork(u),
         \A t \in Tasks : queue'[t][u] = queue[t][u],
         \A s \in Slots : slot[s].on = u => slot'[s] = slot[s]
  PROVE  HasWork(u)'
BY DEF HasWork, Queued, RunsIn

\* The upload handler gives a document its task before its rows.
LEMMA HandlerKeepsWork ==
  ASSUME IInv, WorkRemains, NEW u \in Uploads,
         EnforceDailyUploadLimit(u) \/ Handle(u) \/ UploadAborts(u)
  PROVE  WorkRemains'
<1> SUFFICES ASSUME faults' = 0, CommitWithinRetries,
                    NEW v \in Uploads, ContentOf[v] \notin Unstorable, WorkDue(v)'
             PROVE  HasWork(v)'
  BY DEF WorkRemains
<1> USE DEF dbVars, workVars, operatorVars
<1>1. CASE EnqueueIngest(u)
  <2>1. CASE v = u
    <3>1. queue'["ingest"][u] > 0
      BY <1>1 DEF EnqueueIngest, Send, IInv, TypeOK, Tasks
    <3> QED
      BY <2>1, <3>1 DEF HasWork, Queued, Tasks
  <2>2. CASE v # u
    <3>1. faults = 0 /\ WorkDue(v) /\ slot' = slot /\ \A t \in Tasks : queue'[t][v] = queue[t][v]
      BY <1>1, <2>2 DEF EnqueueIngest, Send, WorkDue, IInv, TypeOK, Tasks
    <3> QED
      BY <3>1, WorkUndisturbed DEF WorkRemains
  <2> QED
    BY <2>1, <2>2
<1>2. CASE ~EnqueueIngest(u)
  <2>1. faults = 0 /\ WorkDue(v) /\ UNCHANGED <<queue, slot>>
    BY <1>2 DEF EnforceDailyUploadLimit, Handle, UploadAborts, WriteUploadedFile, Deduplicate,
       InsertRows, CommitUpload, WorkDue, IInv, TypeOK
  <2> QED
    BY <2>1, WorkUndisturbed DEF WorkRemains
<1> QED
  BY <1>1, <1>2

\* What a step in slot s leaves alone: the work of every document but its own.
LEMMA OtherWork ==
  ASSUME IInv, WorkRemains, NEW s \in Slots, Work(s), faults' = 0, CommitWithinRetries,
         NEW v \in Uploads, ContentOf[v] \notin Unstorable, WorkDue(v)',
         slot[s].on # v, slot'[s].on # v
  PROVE  HasWork(v)'
<1> USE DEF dbVars, workVars, operatorVars
<1>1. /\ faults = 0 /\ request' = request
      /\ slot' = [slot EXCEPT ![s] = slot'[s]]
  BY DEF Work, StartTask, LoadMiss, GiveUp, MarkParsing, CommitParsed, FailIngest,
     RefusedByDatabase, EnqueueEmbed, LoadPendingChunks, EmbedBatch, FailEmbed, MarkIndexed,
     CommitIndexed, EnqueueClustering, IInv, TypeOK
<1>2. status'[v] = status[v]
  BY DEF Work, StartTask, LoadMiss, GiveUp, MarkParsing, CommitParsed, FailIngest,
     RefusedByDatabase, EnqueueEmbed, LoadPendingChunks, EmbedBatch, FailEmbed, MarkIndexed,
     CommitIndexed, EnqueueClustering, IInv, TypeOK
<1>3. \A t \in Tasks : queue'[t][v] = queue[t][v]
  <2>1. CASE StartTask(s)
    <3>1. PICK t \in Tasks, u \in Uploads :
            queue' = [queue EXCEPT ![t][u] = @ - 1] /\ slot' = [slot EXCEPT ![s] = Starting(t, u)]
      BY <2>1 DEF StartTask
    <3>2. slot'[s].on = u
      BY <3>1 DEF Starting, IdleSlot, IInv, TypeOK
    <3> QED
      BY <3>1, <3>2 DEF IInv, TypeOK
  <2>2. CASE ~StartTask(s)
    BY <2>2 DEF Work, LoadMiss, GiveUp, MarkParsing, CommitParsed, FailIngest,
       RefusedByDatabase, EnqueueEmbed, LoadPendingChunks, EmbedBatch, FailEmbed, MarkIndexed,
       CommitIndexed, EnqueueClustering, Send, IInv, TypeOK
  <2> QED
    BY <2>1, <2>2
<1>4. \A t \in Slots : slot[t].on = v => slot'[t] = slot[t]
  BY <1>1 DEF IInv, TypeOK
<1>5. WorkDue(v)
  BY <1>1, <1>2 DEF WorkDue
<1> QED
  BY <1>1, <1>3, <1>4, <1>5, WorkUndisturbed DEF WorkRemains

\* A task ends only when its document is done, failed, or handed on.
LEMMA WorkerKeepsWork ==
  ASSUME IInv, WorkRemains, NEW s \in Slots, Work(s)
  PROVE  WorkRemains'
<1> SUFFICES ASSUME faults' = 0, CommitWithinRetries,
                    NEW v \in Uploads, ContentOf[v] \notin Unstorable, WorkDue(v)'
             PROVE  HasWork(v)'
  BY DEF WorkRemains
<1> USE DEF dbVars, workVars, operatorVars
<1>1. CASE slot'[s].on = v /\ slot'[s].pc # "trigger"
  BY <1>1 DEF HasWork, RunsIn
<1>2. CASE slot'[s].on # v /\ slot[s].on # v
  BY <1>2, OtherWork
<1>3. CASE slot[s].on = v /\ ~(slot'[s].on = v /\ slot'[s].pc # "trigger")
  <2>1. slot[s].pc # "idle" /\ v # NoUpload
    BY <1>3, IdsAssumption DEF IInv, SlotsConsistent
  <2>2. CASE StartTask(s)
    BY <2>1, <2>2 DEF StartTask
  <2>3. CASE EnqueueEmbed(s)
    <3>1. queue'["embed"][v] > 0
      BY <1>3, <2>3 DEF EnqueueEmbed, Send, IInv, TypeOK, Tasks
    <3> QED
      BY <3>1 DEF HasWork, Queued, Tasks
  <2>4. CASE LoadMiss(s) \/ MarkParsing(s) \/ CommitParsed(s) \/ LoadPendingChunks(s)
             \/ EmbedBatch(s) \/ MarkIndexed(s)
    <3>1. slot'[s].on = v /\ slot'[s].pc # "trigger"
      BY <1>3, <2>1, <2>4 DEF LoadMiss, MarkParsing, CommitParsed, LoadPendingChunks, EmbedBatch,
         MarkIndexed, Loading, IInv, TypeOK, SlotType
    <3> QED
      BY <1>3, <3>1
  <2>5. CASE GiveUp(s)
    <3>1. status[v] = "absent" /\ request[v] # "queued" /\ UNCHANGED <<request, status>>
      BY <1>3, <2>5 DEF GiveUp, TargetsMissing
    <3> QED
      BY <3>1 DEF WorkDue
  <2>6. CASE FailIngest(s) \/ FailEmbed(s) \/ CommitIndexed(s)
    <3>1. status'[v] \in {"failed", "indexed"} /\ request' = request /\ status[v] # "absent"
      BY <1>3, <2>6 DEF FailIngest, FailEmbed, CommitIndexed, IInv, TypeOK, TasksConsistent,
         TaskConsistent, EmbedPcs, Parsed
    <3>2. request[v] = "accepted"
      BY <3>1 DEF IInv, RequestsConsistent
    <3> QED
      BY <3>1, <3>2 DEF WorkDue
  <2>7. CASE RefusedByDatabase(s)
    <3>1. Refused(v) /\ chunks[v] = 0
      BY <1>3, <2>7 DEF RefusedByDatabase, IInv, TasksConsistent, TaskConsistent, IngestPcs, Unparsed
    <3> QED
      BY <3>1 DEF Refused
  <2>8. CASE EnqueueClustering(s)
    <3>1. status[v] \in {"indexed", "failed"} /\ UNCHANGED <<request, status>>
      BY <1>3, <2>8 DEF EnqueueClustering, IInv, TasksConsistent, TaskConsistent, RowsConsistent
    <3>2. request[v] = "accepted"
      BY <3>1 DEF IInv, RequestsConsistent
    <3> QED
      BY <3>1, <3>2 DEF WorkDue
  <2> QED
    BY <2>2, <2>3, <2>4, <2>5, <2>6, <2>7, <2>8 DEF Work
<1>4. CASE slot[s].on # v /\ slot'[s].on = v /\ slot'[s].pc = "trigger"
  <2>1. slot'[s].on = slot[s].on \/ slot'[s].pc # "trigger"
    <3>1. CASE StartTask(s)
      BY <3>1 DEF StartTask, Starting, IdleSlot, IInv, TypeOK, SlotType
    <3>2. CASE GiveUp(s) \/ FailIngest(s) \/ RefusedByDatabase(s) \/ EnqueueEmbed(s)
               \/ FailEmbed(s) \/ EnqueueClustering(s)
      BY <3>2 DEF GiveUp, FailIngest, RefusedByDatabase, EnqueueEmbed, FailEmbed,
         EnqueueClustering, IdleSlot, IInv, TypeOK, SlotType
    <3>3. CASE LoadMiss(s) \/ MarkParsing(s) \/ CommitParsed(s) \/ LoadPendingChunks(s)
               \/ EmbedBatch(s) \/ MarkIndexed(s)
      BY <3>3 DEF LoadMiss, MarkParsing, CommitParsed, LoadPendingChunks, EmbedBatch,
         MarkIndexed, IInv, TypeOK, SlotType
    <3>4. CASE CommitIndexed(s)
      <4>1. slot'[s] = IF slot[s].due THEN [slot[s] EXCEPT !.pc = "trigger"] ELSE IdleSlot
        BY <3>4 DEF CommitIndexed, IInv, TypeOK
      <4> QED
        BY <4>1 DEF IdleSlot, IInv, TypeOK, SlotType
    <3> QED
      BY <3>1, <3>2, <3>3, <3>4 DEF Work
  <2> QED
    BY <1>4, <2>1
<1> QED
  BY <1>1, <1>2, <1>3, <1>4

\* Every step keeps it: a fault ends the promise, the operator fails the document.
LEMMA NextKeepsWork == IInv /\ WorkRemains /\ [Next]_vars => WorkRemains'
<1> SUFFICES ASSUME IInv, WorkRemains, [Next]_vars PROVE WorkRemains'
  OBVIOUS
<1>1. ASSUME NEW u \in Uploads, EnforceDailyUploadLimit(u) \/ Handle(u) \/ UploadAborts(u)
      PROVE  WorkRemains'
  BY <1>1, HandlerKeepsWork
<1>2. ASSUME NEW s \in Slots, Work(s) PROVE WorkRemains'
  BY <1>2, WorkerKeepsWork
<1>3. ASSUME WorkerCrash \/ \E s \in Slots : TaskAborts(s) PROVE WorkRemains'
  <2>1. faults' # 0
    BY <1>3 DEF WorkerCrash, TaskAborts, IInv, TypeOK
  <2> QED
    BY <2>1 DEF WorkRemains
<1>4. ASSUME NEW d \in Uploads, LookAtStuck(d) \/ AbandonStuck(d) PROVE WorkRemains'
  <2> SUFFICES ASSUME faults' = 0, CommitWithinRetries,
                      NEW v \in Uploads, ContentOf[v] \notin Unstorable, WorkDue(v)'
               PROVE  HasWork(v)'
    BY DEF WorkRemains
  <2>1. faults = 0 /\ WorkDue(v) /\ UNCHANGED <<queue, slot>>
    BY <1>4 DEF LookAtStuck, AbandonStuck, dbVars, workVars, WorkDue, IInv, TypeOK
  <2> QED
    BY <2>1, WorkUndisturbed DEF WorkRemains
<1>5. CASE UNCHANGED vars
  BY <1>5 DEF vars, dbVars, workVars, WorkRemains, WorkDue, HasWork, Queued, RunsIn
<1> QED
  BY <1>1, <1>2, <1>3, <1>4, <1>5 DEF Next

\* Nothing but a fault or a refused content takes the task of an unfinished
\* document, whatever is limited, abandoned or uploaded twice at the same time.
THEOREM WorkRemainsAlways == Spec => []WorkRemains
<1>1. Init => WorkRemains
  BY DEF Init, WorkRemains, WorkDue
<1> QED
  BY <1>1, NextKeepsWork, Invariance, PTL DEF Spec

NoFaultYet == faults = 0

\* With no fault allowed there is none.
LEMMA NoFaults ==
  ASSUME MaxFaults = 0
  PROVE  Spec => []NoFaultYet
<1>1. Init => NoFaultYet
  BY DEF Init, NoFaultYet
<1>2. NoFaultYet /\ [Next]_vars => NoFaultYet'
  <2> SUFFICES ASSUME faults = 0, [Next]_vars PROVE faults' = 0
    BY DEF NoFaultYet
  <2> USE DEF dbVars, workVars, operatorVars
  <2>1. ASSUME NEW u \in Uploads, EnforceDailyUploadLimit(u) \/ Handle(u) \/ UploadAborts(u)
        PROVE  faults' = 0
    BY <2>1 DEF EnforceDailyUploadLimit, Handle, UploadAborts, WriteUploadedFile, Deduplicate,
       InsertRows, EnqueueIngest, CommitUpload
  <2>2. ASSUME NEW s \in Slots, Work(s) PROVE faults' = 0
    BY <2>2 DEF Work, StartTask, LoadMiss, GiveUp, MarkParsing, CommitParsed, FailIngest,
       RefusedByDatabase, EnqueueEmbed, LoadPendingChunks, EmbedBatch, FailEmbed, MarkIndexed,
       CommitIndexed, EnqueueClustering
  <2>3. ASSUME NEW d \in Uploads, LookAtStuck(d) \/ AbandonStuck(d) PROVE faults' = 0
    BY <2>3 DEF LookAtStuck, AbandonStuck
  <2>4. ~(WorkerCrash \/ \E s \in Slots : TaskAborts(s))
    BY DEF WorkerCrash, TaskAborts
  <2> QED
    BY <2>1, <2>2, <2>3, <2>4 DEF Next, vars
<1> QED
  BY <1>1, <1>2, PTL DEF Spec

\* Without faults and refused contents, a document that is neither indexed nor
\* failed is being worked on or is going to be: all states but `indexed` and
\* `failed` are transient (docs/runbooks/document-ingestion.md:25).
THEOREM UnfinishedIsWorkedOn ==
  ASSUME MaxFaults = 0, CommitWithinRetries,
         \A u \in Uploads : ContentOf[u] \notin Unstorable
  PROVE  Spec => []UnfinishedHasWork
<1>1. NoFaultYet /\ WorkRemains => UnfinishedHasWork
  BY DEF NoFaultYet, WorkRemains, WorkDue, UnfinishedHasWork
<1>2. Spec => []NoFaultYet
  BY NoFaults
<1> QED
  BY <1>1, <1>2, WorkRemainsAlways, PTL

-----------------------------------------------------------------------------
(* Refinement of Publication. *)

\* The documents Publication calls accepted, published and retracted, and what
\* is visible.
Accepted  == {u \in Uploads : status[u] # "absent"}
Published == {u \in Uploads : status[u] = "indexed"}
Retracted == {u \in Uploads : job[u] = "succeeded" /\ status[u] # "indexed"}
Visible   == [u \in Uploads |-> IF status[u] = "indexed" THEN embedded[u] ELSE 0]

\* A step that leaves the rows alone shows nothing.
LEMMA RowsAlone ==
  ASSUME UNCHANGED <<status, embedded, job, condemned>>
  PROVE  UNCHANGED Promise!vars
BY DEF Promise!vars

\* Nor does a step of a committed document that is not and does not become
\* searchable.
LEMMA NotYetSearchable ==
  ASSUME NEW d \in Uploads, status \in [Uploads -> DocumentStates],
         embedded \in [Uploads -> Nat],
         status[d] \notin {"absent", "indexed"},
         status'[d] \notin {"absent", "indexed"},
         \A u \in Uploads : u # d => /\ status'[u] = status[u] /\ embedded'[u] = embedded[u]
                                     /\ job'[u] = job[u],
         job[d] = "succeeded" <=> job'[d] = "succeeded",
         condemned' = condemned
  PROVE  UNCHANGED Promise!vars
<1>1. Accepted' = Accepted
  BY DEF Accepted
<1>2. Published' = Published
  BY DEF Published
<1>3. Visible' = Visible
  BY DEF Visible
<1>4. Retracted' = Retracted
  BY DEF Retracted
<1> QED
  BY <1>1, <1>2, <1>3, <1>4 DEF Accepted, Published, Retracted, Visible, Promise!vars

\* The commit of an upload is the abstract Accept.
LEMMA CommitUploadAccepts ==
  ASSUME IInv, NEW u \in Uploads, CommitUpload(u)
  PROVE  Promise!Accept(u)
<1>1. status[u] = "absent"
  BY DEF CommitUpload, IInv, TypeOK, RequestsConsistent
<1>2. u \notin Accepted
  BY <1>1 DEF Accepted
<1>3. Accepted' = Accepted \cup {u}
  BY DEF CommitUpload, Accepted, IInv, TypeOK
<1>4. Published' = Published
  BY <1>1 DEF CommitUpload, Published, IInv, TypeOK
<1>5. Visible' = Visible
  BY <1>1 DEF CommitUpload, Visible, IInv, TypeOK
<1>6. Retracted' = Retracted /\ condemned' = condemned
  BY <1>1 DEF CommitUpload, operatorVars, Retracted, IInv, TypeOK, RequestsConsistent
<1> QED
  BY <1>2, <1>3, <1>4, <1>5, <1>6 DEF Accepted, Published, Retracted, Visible, Promise!Accept

\* The commit of the embed task is the abstract Publish.
LEMMA CommitIndexedPublishes ==
  ASSUME IInv, NEW s \in Slots, NEW d \in Uploads, d = slot[s].on, CommitIndexed(s)
  PROVE  Promise!Publish(d)
<1>1. status[d] \in {"parsed", "failed"} /\ job[d] = "running" /\ slot[s].done = Produced(d)
  BY ProducedNat DEF CommitIndexed, IInv, TypeOK, SlotType, TasksConsistent, TaskConsistent,
     EmbedPcs, Parsed
<1>2. d \in Accepted \ (Published \cup Retracted)
  BY <1>1 DEF Accepted, Published, Retracted
<1>3. Accepted' = Accepted
  BY <1>1 DEF CommitIndexed, Accepted, IInv, TypeOK
<1>4. Published' = Published \cup {d}
  BY <1>1 DEF CommitIndexed, Published, IInv, TypeOK
<1>5. Visible' = [Visible EXCEPT ![d] = Produced(d)]
  BY <1>1 DEF CommitIndexed, Visible, IInv, TypeOK
<1>6. Produced(d) = [u \in Uploads |-> Produced(u)][d]
  OBVIOUS
<1>7. Retracted' = Retracted /\ condemned' = condemned
  BY <1>1 DEF CommitIndexed, operatorVars, Retracted, IInv, TypeOK
<1> QED
  BY <1>2, <1>3, <1>4, <1>5, <1>6, <1>7 DEF Accepted, Published, Retracted, Visible,
     Promise!Publish

\* The operator's look is the abstract Doubt.
LEMMA LookAtStuckDoubts ==
  ASSUME IInv, NEW d \in Uploads, LookAtStuck(d)
  PROVE  Promise!Doubt(d)
<1>1. d \in Accepted \ (condemned \cup Published \cup Retracted)
  BY DEF LookAtStuck, Accepted, Published, Retracted, IInv, RowsConsistent
<1>2. condemned' = condemned \cup {d}
  BY DEF LookAtStuck
<1>3. /\ Accepted' = Accepted /\ Published' = Published /\ Retracted' = Retracted
      /\ Visible' = Visible
  BY DEF LookAtStuck, dbVars, Accepted, Published, Retracted, Visible
<1> QED
  BY <1>1, <1>2, <1>3 DEF Accepted, Published, Retracted, Visible, Promise!Doubt

\* The operator's UPDATE is the abstract Retract when the document is indexed by
\* then, and Abandon when it is not.
LEMMA AbandonStuckRetracts ==
  ASSUME IInv, NEW d \in Uploads, AbandonStuck(d)
  PROVE  Promise!Abandon(d) \/ Promise!Retract(d)
<1>1. /\ d \in condemned /\ condemned' = condemned \ {d}
      /\ status' = [status EXCEPT ![d] = "failed"]
      /\ UNCHANGED <<embedded, job>>
  BY DEF AbandonStuck
<1>2. status[d] # "absent" /\ (status[d] = "indexed" => job[d] = "succeeded")
  BY <1>1 DEF IInv, RowsConsistent
<1>3. Accepted' = Accepted
  BY <1>1, <1>2 DEF Accepted, IInv, TypeOK
<1>4. CASE status[d] = "indexed"
  <2>1. Published' = Published \ {d} /\ d \in Published
    BY <1>1, <1>4 DEF Published, IInv, TypeOK
  <2>2. Retracted' = Retracted \cup {d}
    BY <1>1, <1>2, <1>4 DEF Retracted, IInv, TypeOK
  <2>3. Visible' = [Visible EXCEPT ![d] = 0]
    BY <1>1, <1>4 DEF Visible, IInv, TypeOK
  <2> QED
    BY <1>1, <1>3, <2>1, <2>2, <2>3 DEF Accepted, Published, Retracted, Visible, Promise!Retract
<1>5. CASE status[d] # "indexed"
  <2>1. Published' = Published /\ d \notin Published
    BY <1>1, <1>5 DEF Published, IInv, TypeOK
  <2>2. Retracted' = Retracted
    BY <1>1, <1>5 DEF Retracted, IInv, TypeOK
  <2>3. Visible' = Visible
    BY <1>1, <1>5 DEF Visible, IInv, TypeOK
  <2> QED
    BY <1>1, <1>3, <2>1, <2>2, <2>3 DEF Accepted, Published, Retracted, Visible, Promise!Abandon
<1> QED
  BY <1>4, <1>5

\* Every step of the ingestion is a step or a stutter of Publication.
LEMMA StepRefines == IInv /\ [Next]_vars => [Promise!Next]_(Promise!vars)
<1> SUFFICES ASSUME IInv, [Next]_vars PROVE Promise!Next \/ UNCHANGED Promise!vars
  OBVIOUS
<1>1. ASSUME NEW u \in Uploads, EnforceDailyUploadLimit(u) \/ UploadAborts(u)
      PROVE  UNCHANGED Promise!vars
  BY <1>1, RowsAlone DEF EnforceDailyUploadLimit, UploadAborts, dbVars, operatorVars
<1>2. ASSUME NEW u \in Uploads, Handle(u)
      PROVE  Promise!Next \/ UNCHANGED Promise!vars
  <2>1. CASE CommitUpload(u)
    BY <2>1, CommitUploadAccepts DEF Promise!Next
  <2>2. CASE ~CommitUpload(u)
    BY <1>2, <2>2, RowsAlone DEF Handle, WriteUploadedFile, Deduplicate, InsertRows,
       EnqueueIngest, dbVars, operatorVars
  <2> QED
    BY <2>1, <2>2
<1>3. ASSUME NEW s \in Slots, Work(s)
      PROVE  Promise!Next \/ UNCHANGED Promise!vars
  <2>1. CASE CommitIndexed(s)
    <3>1. slot[s].on \in Uploads
      BY <2>1, RunningTask DEF CommitIndexed
    <3>2. PICK d \in Uploads : d = slot[s].on
      BY <3>1
    <3>3. Promise!Publish(d)
      BY <2>1, <3>2, CommitIndexedPublishes
    <3> QED
      BY <3>3 DEF Promise!Next
  <2>2. CASE CommitParsed(s) \/ FailIngest(s)
    <3>1. slot[s].pc = "parsing"
      BY <2>2 DEF CommitParsed, FailIngest
    <3>2. slot[s].on \in Uploads
      BY <3>1, RunningTask
    <3>3. status[slot[s].on] \in {"pending", "failed"} /\ job[slot[s].on] # "succeeded"
      BY <3>1 DEF IInv, TasksConsistent, TaskConsistent, IngestPcs, Unparsed
    <3>4. CASE CommitParsed(s)
      BY <3>4, <3>2, <3>3, NotYetSearchable DEF CommitParsed, operatorVars, IInv, TypeOK
    <3>5. CASE FailIngest(s)
      BY <3>5, <3>2, <3>3, NotYetSearchable DEF FailIngest, IInv, TypeOK
    <3> QED
      BY <2>2, <3>4, <3>5
  <2>3. CASE FailEmbed(s)
    <3>1. slot[s].on \in Uploads
      BY <2>3, RunningTask DEF FailEmbed
    <3>2. status[slot[s].on] \in {"parsed", "failed"} /\ job[slot[s].on] # "succeeded"
      BY <2>3 DEF FailEmbed, IInv, TasksConsistent, TaskConsistent, EmbedPcs, Parsed
    <3> QED
      BY <2>3, <3>1, <3>2, NotYetSearchable DEF FailEmbed, IInv, TypeOK
  <2>4. CASE ~(CommitIndexed(s) \/ CommitParsed(s) \/ FailIngest(s) \/ FailEmbed(s))
    BY <1>3, <2>4, RowsAlone DEF Work, StartTask, LoadMiss, GiveUp, MarkParsing,
       RefusedByDatabase, EnqueueEmbed, LoadPendingChunks, EmbedBatch, MarkIndexed,
       EnqueueClustering, dbVars, operatorVars
  <2> QED
    BY <2>1, <2>2, <2>3, <2>4
<1>4. ASSUME NEW s \in Slots, TaskAborts(s) PROVE UNCHANGED Promise!vars
  BY <1>4, RowsAlone DEF TaskAborts, dbVars, operatorVars
<1>5. ASSUME WorkerCrash PROVE UNCHANGED Promise!vars
  BY <1>5, RowsAlone DEF WorkerCrash, dbVars, operatorVars
<1>6. ASSUME NEW d \in Uploads, LookAtStuck(d) \/ AbandonStuck(d) PROVE Promise!Next
  BY <1>6, LookAtStuckDoubts, AbandonStuckRetracts DEF Promise!Next
<1>7. CASE UNCHANGED vars
  BY <1>7, RowsAlone DEF vars
<1> QED
  BY <1>1, <1>2, <1>3, <1>4, <1>5, <1>6, <1>7 DEF Next

\* What search sees is Publication: whole documents, in one step and at most
\* once, for good but for an operator who had doubted them before.
THEOREM Refinement == Spec => ImplementsPublication
<1>1. Init => Promise!Init
  BY DEF Init, Promise!Init
<1>2. IInv /\ [Next]_vars => [Promise!Next]_(Promise!vars)
  BY StepRefines
<1> QED
  BY <1>1, <1>2, Invariance, PTL DEF Spec, Promise!Spec, ImplementsPublication

-----------------------------------------------------------------------------
(* No document goes back: what of AcceptedSettles does not need fairness.  *)

\* The steps an upload has before its message, and a task before it ends.
RequestSteps(r) ==
    CASE r = "new" -> 14 [] r = "admitted" -> 13 [] r = "stored" -> 12
      [] r = "unique" -> 11 [] r = "flushed" -> 10 [] OTHER -> 0

TaskSteps(pc) ==
    CASE pc = "ingest_load" -> 8 [] pc = "parsing" -> 7 [] pc = "parsed" -> 6
      [] pc = "embed_load" -> 4 [] pc = "embedding" -> 3 [] pc = "indexing" -> 2
      [] pc = "trigger" -> 1 [] OTHER -> 0

\* How often a task may still stay where it is: to look for its rows, or to
\* embed a batch.
Repeats(s) ==
    CASE Loading(s) -> TargetReads - slot[s].reads
      [] slot[s].pc = "embedding" -> slot[s].todo
      [] OTHER -> 0

\* A transaction of an upload may stay open while the task runs.
Open(u) == IF request[u] = "queued" THEN 1 ELSE 0

\* All that will be done for a document: by its request, then by the message or
\* the task it has.
WorkLeft(u) ==
    CASE RequestSteps(request[u]) > 0 -> <<RequestSteps(request[u]), 0, 0>>
      [] queue["ingest"][u] > 0 -> <<9, 0, Open(u)>>
      [] queue["embed"][u] > 0 -> <<5, 0, Open(u)>>
      [] \E s \in Slots : RunsIn(u, s) ->
            LET s == CHOOSE s \in Slots : RunsIn(u, s)
            IN  <<TaskSteps(slot[s].pc), Repeats(s), Open(u)>>
      [] OTHER -> <<0, 0, Open(u)>>

\* A task that looks for its rows may look at least once more.
ReadsBounded == \A s \in Slots : slot[s].reads < TargetReads

Forward(u) == Lower(WorkLeft(u)', WorkLeft(u))

\* Where a document is tells its measure.
Measured(u) ==
    /\ RequestSteps(request[u]) > 0 =>
           WorkLeft(u) = <<RequestSteps(request[u]), 0, 0>> /\ NoTask(u)
    /\ queue["ingest"][u] > 0 => WorkLeft(u) = <<9, 0, Open(u)>>
    /\ queue["embed"][u] > 0 => WorkLeft(u) = <<5, 0, Open(u)>>
    /\ \A s \in Slots : RunsIn(u, s) =>
           WorkLeft(u) = <<TaskSteps(slot[s].pc), Repeats(s), Open(u)>>
    /\ RequestSteps(request[u]) = 0 /\ NoTask(u) => WorkLeft(u) = <<0, 0, Open(u)>>

LEMMA WorkLeftOf == IInv => \A u \in Uploads : Measured(u)
<1> SUFFICES ASSUME IInv, NEW u \in Uploads PROVE Measured(u)
  OBVIOUS
<1> USE DEF Queued, Tasks
<1>1. RequestSteps(request[u]) \in Nat
  BY DEF RequestSteps
<1>2. RequestSteps(request[u]) > 0 => NoTask(u)
  <2>1. RequestSteps(request[u]) > 0 => request[u] \notin {"queued", "accepted", "aborted"}
    BY DEF RequestSteps
  <2> QED
    BY <2>1 DEF IInv, RequestsConsistent
<1>3. /\ queue["ingest"][u] \in Nat /\ queue["embed"][u] \in Nat
      /\ queue["ingest"][u] + queue["embed"][u] <= 1
      /\ Queued(u) => \A s \in Slots : ~RunsIn(u, s)
      /\ \A s, t \in Slots : RunsIn(u, s) /\ RunsIn(u, t) => s = t
  BY DEF IInv, TypeOK, OneTaskPerDocument
<1>4. RequestSteps(request[u]) > 0 => WorkLeft(u) = <<RequestSteps(request[u]), 0, 0>>
  BY <1>2, <1>3 DEF WorkLeft, NoTask
<1>5. queue["ingest"][u] > 0 => WorkLeft(u) = <<9, 0, Open(u)>>
  BY <1>2, <1>3 DEF WorkLeft, NoTask
<1>6. queue["embed"][u] > 0 => WorkLeft(u) = <<5, 0, Open(u)>>
  BY <1>2, <1>3 DEF WorkLeft, NoTask
<1>7. ASSUME NEW s \in Slots, RunsIn(u, s)
      PROVE  WorkLeft(u) = <<TaskSteps(slot[s].pc), Repeats(s), Open(u)>>
  <2> DEFINE t == CHOOSE t \in Slots : RunsIn(u, t)
  <2>1. t = s
    BY <1>3, <1>7
  <2>2. ~(RequestSteps(request[u]) > 0) /\ ~(queue["ingest"][u] > 0) /\ ~(queue["embed"][u] > 0)
    BY <1>2, <1>3, <1>7 DEF NoTask
  <2>3. WorkLeft(u) = <<TaskSteps(slot[t].pc), Repeats(t), Open(u)>>
    BY <1>7, <2>2 DEF WorkLeft
  <2> QED
    BY <2>1, <2>3
<1>8. RequestSteps(request[u]) = 0 /\ NoTask(u) => WorkLeft(u) = <<0, 0, Open(u)>>
  BY <1>3 DEF WorkLeft, NoTask
<1> QED
  BY <1>2, <1>4, <1>5, <1>6, <1>7, <1>8 DEF Measured

\* The same after a step that keeps the invariant.
LEMMA WorkLeftAfter == IInv' => (\A u \in Uploads : Measured(u))'
BY WorkLeftOf, PTL

Stays(u) == WorkLeft(u)' = WorkLeft(u)

\* A document is not moved by a step that leaves its request, its messages and
\* the slot it runs in alone.
LEMMA NotMoved ==
  ASSUME IInv, IInv', NEW v \in Uploads, request'[v] = request[v],
         \A t \in Tasks : queue'[t][v] = queue[t][v],
         \A s \in Slots : slot'[s] = slot[s] \/ (~RunsIn(v, s) /\ ~RunsIn(v, s)')
  PROVE  Stays(v)
<1>1. Measured(v) /\ Measured(v)'
  BY WorkLeftOf, WorkLeftAfter
<1>2. Open(v)' = Open(v)
  BY DEF Open
<1>3. queue["ingest"][v] \in Nat /\ queue["embed"][v] \in Nat
  BY DEF IInv, TypeOK, Tasks
<1>4. CASE RequestSteps(request[v]) > 0
  BY <1>1, <1>4 DEF Measured, Stays
<1>5. CASE queue["ingest"][v] > 0 \/ queue["embed"][v] > 0
  BY <1>1, <1>2, <1>5 DEF Measured, Stays, Tasks
<1>6. CASE \E s \in Slots : RunsIn(v, s)
  <2>1. PICK s \in Slots : RunsIn(v, s)
    BY <1>6
  <2>2. slot'[s] = slot[s] /\ RunsIn(v, s)'
    BY <2>1 DEF RunsIn
  <2>3. Repeats(s)' = Repeats(s)
    BY <2>2 DEF Repeats, Loading
  <2> QED
    BY <1>1, <1>2, <2>1, <2>2, <2>3 DEF Measured, Stays
<1>7. CASE RequestSteps(request[v]) = 0 /\ NoTask(v)
  <2>1. NoTask(v)'
    BY <1>7 DEF NoTask, Queued, RunsIn, Tasks
  <2> QED
    BY <1>1, <1>2, <1>7, <2>1 DEF Measured, Stays
<1>8. RequestSteps(request[v]) \in Nat
  BY DEF RequestSteps
<1> QED
  BY <1>3, <1>4, <1>5, <1>6, <1>7, <1>8 DEF NoTask, Queued, Tasks

\* A step of the upload handler is one less for its document, and none for any
\* other.
LEMMA HandlerGoesForward ==
  ASSUME IInv, IInv', NEW u \in Uploads,
         EnforceDailyUploadLimit(u) \/ Handle(u) \/ UploadAborts(u)
  PROVE  Forward(u) /\ \A v \in Uploads \ {u} : Stays(v)
<1> USE DEF Measured, Forward, Lower
<1>1. Measured(u) /\ Measured(u)' /\ request \in [Uploads -> RequestStates]
  BY WorkLeftOf, WorkLeftAfter DEF IInv, TypeOK
<1>2. ASSUME NEW v \in Uploads \ {u} PROVE Stays(v)
  <2>1. request'[v] = request[v] /\ slot' = slot
    BY <1>1, <1>2 DEF EnforceDailyUploadLimit, Handle, WriteUploadedFile, Deduplicate, InsertRows,
       EnqueueIngest, CommitUpload, UploadAborts, workVars
  <2>2. \A t \in Tasks : queue'[t][v] = queue[t][v]
    BY <1>2 DEF EnforceDailyUploadLimit, Handle, WriteUploadedFile, Deduplicate, InsertRows,
       EnqueueIngest, Send, CommitUpload, UploadAborts, IInv, TypeOK, Tasks
  <2> QED
    BY <2>1, <2>2, NotMoved
<1> SUFFICES Forward(u)
  BY <1>2
<1>3. CASE EnforceDailyUploadLimit(u) \/ WriteUploadedFile(u) \/ Deduplicate(u) \/ InsertRows(u)
  <2>1. /\ RequestSteps(request[u]) > 0
        /\ RequestSteps(request'[u]) \in Nat
        /\ RequestSteps(request'[u]) < RequestSteps(request[u])
    BY <1>1, <1>3 DEF RequestSteps, EnforceDailyUploadLimit, WriteUploadedFile, Deduplicate, InsertRows
  <2>2. queue' = queue /\ slot' = slot
    BY <1>3 DEF EnforceDailyUploadLimit, WriteUploadedFile, Deduplicate, InsertRows, workVars
  <2>3. NoTask(u)'
    BY <1>1, <2>1, <2>2 DEF NoTask, Queued, RunsIn
  <2> QED
    BY <1>1, <2>1, <2>3
<1>4. CASE EnqueueIngest(u)
  <2>1. RequestSteps(request[u]) = 10
    BY <1>4 DEF EnqueueIngest, RequestSteps
  <2>2. queue'["ingest"][u] > 0
    BY <1>4 DEF EnqueueIngest, Send, IInv, TypeOK, Tasks
  <2> QED
    BY <1>1, <2>1, <2>2
<1>5. CASE UploadAborts(u) /\ request[u] # "queued"
  <2>1. RequestSteps(request[u]) > 0 /\ RequestSteps(request'[u]) = 0
    BY <1>1, <1>5 DEF UploadAborts, InFlight, RequestSteps
  <2>2. NoTask(u)'
    BY <1>1, <1>5, <2>1 DEF UploadAborts, NoTask, Queued, RunsIn, workVars
  <2> QED
    BY <1>1, <2>1, <2>2
<1>6. CASE CommitUpload(u) \/ (UploadAborts(u) /\ request[u] = "queued")
  <2>1. request[u] = "queued" /\ request'[u] \in {"accepted", "aborted"} /\ queue' = queue /\ slot' = slot
    BY <1>1, <1>6 DEF CommitUpload, UploadAborts, workVars
  <2>2. RequestSteps(request[u]) = 0 /\ RequestSteps(request'[u]) = 0 /\ Open(u) = 1 /\ Open(u)' = 0
    BY <2>1 DEF RequestSteps, Open
  <2>3. NoTask(u)' <=> NoTask(u)
    BY <2>1 DEF NoTask, Queued, RunsIn
  <2>4. CASE queue["ingest"][u] > 0 \/ queue["embed"][u] > 0
    BY <1>1, <2>1, <2>2, <2>4
  <2>5. CASE \E s \in Slots : RunsIn(u, s)
    <3>1. PICK s \in Slots : RunsIn(u, s)
      BY <2>5
    <3>2. RunsIn(u, s)' /\ Repeats(s)' = Repeats(s) /\ slot'[s] = slot[s]
      BY <2>1, <3>1 DEF RunsIn, Repeats, Loading
    <3> QED
      BY <1>1, <2>2, <3>1, <3>2
  <2>6. CASE NoTask(u)
    BY <1>1, <2>2, <2>3, <2>6
  <2>7. queue["ingest"][u] \in Nat /\ queue["embed"][u] \in Nat
    BY DEF IInv, TypeOK, Tasks
  <2> QED
    BY <2>4, <2>5, <2>6, <2>7 DEF NoTask, Queued, Tasks
<1> QED
  BY <1>3, <1>4, <1>5, <1>6 DEF Handle

\* A task that goes on, ends, or ends with its next message has one step less.
LEMMA TaskGoesForward ==
  ASSUME IInv, IInv', NEW s \in Slots, NEW d \in Uploads, slot[s].on = d, request' = request,
         \A t \in Slots \ {s} : slot'[t] = slot[t],
         \A k \in Tasks : \A v \in Uploads \ {d} : queue'[k][v] = queue[k][v],
         \/ /\ slot'[s].on = d /\ queue' = queue
            /\ \/ TaskSteps(slot'[s].pc) < TaskSteps(slot[s].pc)
               \/ slot'[s].pc = slot[s].pc /\ Repeats(s)' < Repeats(s)
         \/ slot'[s] = IdleSlot /\ queue' = queue
         \/ slot'[s] = IdleSlot /\ slot[s].pc = "parsed" /\ queue'["embed"][d] > 0
  PROVE  Forward(d) /\ \A v \in Uploads \ {d} : Stays(v)
<1>1. /\ slot[s].pc # "idle" /\ RunsIn(d, s)
      /\ \A t \in Tasks : queue[t][d] = 0
      /\ \A t \in Slots : slot[t].on = d => t = s
  BY RunningTask, IdsAssumption DEF RunsIn, IInv, SlotsConsistent
<1>2. slot'[s].on = d \/ slot'[s].on = NoUpload
  BY DEF IdleSlot
<1>3. ASSUME NEW v \in Uploads \ {d} PROVE Stays(v)
  <2>1. ~RunsIn(v, s) /\ ~RunsIn(v, s)'
    BY <1>2, <1>3, IdsAssumption DEF RunsIn
  <2>2. \A t \in Slots : slot'[t] = slot[t] \/ (~RunsIn(v, t) /\ ~RunsIn(v, t)')
    BY <2>1
  <2> QED
    BY <1>3, <2>2, NotMoved
<1> SUFFICES Forward(d)
  BY <1>1, <1>3
<1>4. Measured(d) /\ Measured(d)'
  BY <1>1, WorkLeftOf, WorkLeftAfter
<1>5. WorkLeft(d) = <<TaskSteps(slot[s].pc), Repeats(s), Open(d)>> /\ Open(d)' = Open(d)
  BY <1>1, <1>4 DEF Measured, Open
<1>6. RequestSteps(request[d]) = 0 /\ TaskSteps(slot[s].pc) > 0
  <2>1. ~NoTask(d)
    BY <1>1 DEF NoTask
  <2>2. RequestSteps(request[d]) \in Nat
    BY DEF RequestSteps
  <2>3. slot[s].pc \in Pcs \ {"idle"}
    BY <1>1 DEF IInv, TypeOK, SlotType
  <2> QED
    BY <1>4, <2>1, <2>2, <2>3 DEF Measured, TaskSteps, Pcs, IngestPcs, EmbedPcs
<1>7. CASE slot'[s].on = d
  <2>1. WorkLeft(d)' = <<TaskSteps(slot'[s].pc), Repeats(s)', Open(d)'>>
    BY <1>4, <1>7 DEF Measured, RunsIn
  <2>2. \/ TaskSteps(slot'[s].pc) < TaskSteps(slot[s].pc)
        \/ slot'[s].pc = slot[s].pc /\ Repeats(s)' < Repeats(s)
    BY <1>1, <1>7, IdsAssumption DEF IdleSlot
  <2> QED
    BY <1>5, <2>1, <2>2 DEF Forward, Lower
<1>8. CASE slot'[s] = IdleSlot /\ queue' = queue
  <2>1. NoTask(d)'
    <3>1. \A t \in Slots : ~RunsIn(d, t)'
      BY <1>1, <1>8, IdsAssumption DEF RunsIn, IdleSlot
    <3> QED
      BY <1>1, <1>8, <3>1 DEF NoTask, Queued
  <2>2. WorkLeft(d)' = <<0, 0, Open(d)'>>
    BY <1>4, <1>6, <2>1 DEF Measured
  <2> QED
    BY <1>5, <1>6, <2>2 DEF Forward, Lower
<1>9. CASE slot[s].pc = "parsed" /\ queue'["embed"][d] > 0
  <2>1. WorkLeft(d)' = <<5, 0, Open(d)'>>
    BY <1>1, <1>4, <1>9 DEF Measured
  <2>2. TaskSteps(slot[s].pc) = 6
    BY <1>9 DEF TaskSteps
  <2> QED
    BY <1>5, <2>1, <2>2 DEF Forward, Lower
<1> QED
  BY <1>7, <1>8, <1>9

\* A message that is popped has become a task, which is nearer its end.
LEMMA StartGoesForward ==
  ASSUME IInv, IInv', NEW s \in Slots, StartTask(s)
  PROVE  \E d \in Uploads : Forward(d) /\ \A v \in Uploads \ {d} : Stays(v)
<1>1. PICK k \in Tasks, d \in Uploads :
        /\ slot[s].pc = "idle"
        /\ queue[k][d] > 0
        /\ queue' = [queue EXCEPT ![k][d] = @ - 1]
        /\ slot' = [slot EXCEPT ![s] = Starting(k, d)]
        /\ request' = request
  BY DEF StartTask
<1>2. slot[s].on = NoUpload /\ slot'[s] = Starting(k, d)
      /\ \A t \in Slots \ {s} : slot'[t] = slot[t]
  BY <1>1 DEF IInv, TypeOK, SlotsConsistent
<1>3. ASSUME NEW v \in Uploads \ {d} PROVE Stays(v)
  <2>1. ~RunsIn(v, s) /\ ~RunsIn(v, s)'
    BY <1>2, <1>3, IdsAssumption DEF RunsIn, Starting, IdleSlot
  <2>2. \A t \in Slots : slot'[t] = slot[t] \/ (~RunsIn(v, t) /\ ~RunsIn(v, t)')
    BY <1>2, <2>1
  <2>3. \A t \in Tasks : queue'[t][v] = queue[t][v]
    BY <1>1, <1>3 DEF IInv, TypeOK
  <2> QED
    BY <1>1, <2>2, <2>3, NotMoved
<1>4. Measured(d) /\ Measured(d)'
  BY WorkLeftOf, WorkLeftAfter
<1>5. WorkLeft(d) = <<IF k = "ingest" THEN 9 ELSE 5, 0, Open(d)>>
  BY <1>1, <1>4 DEF Measured, Tasks
<1>6. WorkLeft(d)' = <<IF k = "ingest" THEN 8 ELSE 4, Repeats(s)', Open(d)'>>
  <2>1. RunsIn(d, s)'
    BY <1>2 DEF RunsIn, Starting, IdleSlot
  <2>2. TaskSteps(slot'[s].pc) = IF k = "ingest" THEN 8 ELSE 4
    BY <1>2 DEF TaskSteps, Starting, IdleSlot
  <2> QED
    BY <1>4, <2>1, <2>2 DEF Measured
<1>7. Forward(d)
  BY <1>5, <1>6 DEF Forward, Lower
<1> QED
  BY <1>3, <1>7

\* Every step of a slot brings one document nearer its end, and no other moves.
LEMMA WorkerGoesForward ==
  ASSUME IInv, IInv', NEW s \in Slots, Work(s) \/ TaskAborts(s)
  PROVE  \E d \in Uploads : Forward(d) /\ \A v \in Uploads \ {d} : Stays(v)
<1> USE DEF dbVars, workVars, operatorVars
<1> DEFINE Others == \A t \in Slots \ {s} : slot'[t] = slot[t]
<1>1. slot \in [Slots -> SlotType] /\ queue \in [Tasks -> [Uploads -> Nat]]
  BY DEF IInv, TypeOK
<1>2. CASE StartTask(s)
  BY <1>2, StartGoesForward
<1> SUFFICES ASSUME NEW d \in Uploads, slot[s].on = d, Work(s) \/ TaskAborts(s), ~StartTask(s)
             PROVE  Forward(d) /\ \A v \in Uploads \ {d} : Stays(v)
  <2>1. ASSUME ~StartTask(s) PROVE slot[s].on \in Uploads
    <3>1. slot[s].pc # "idle"
      BY <2>1 DEF Work, LoadMiss, GiveUp, MarkParsing, CommitParsed, FailIngest,
         RefusedByDatabase, EnqueueEmbed, LoadPendingChunks, EmbedBatch, FailEmbed, MarkIndexed,
         CommitIndexed, EnqueueClustering, TaskAborts, Loading
    <3> QED
      BY <3>1, RunningTask
  <2> QED
    BY <1>2, <2>1
<1>3. CASE LoadMiss(s) \/ MarkParsing(s) \/ CommitParsed(s) \/ LoadPendingChunks(s) \/ MarkIndexed(s)
           \/ EmbedBatch(s)
  <2>1. /\ request' = request /\ queue' = queue
        /\ Others /\ slot'[s].on = d
    BY <1>1, <1>3 DEF LoadMiss, MarkParsing, CommitParsed, LoadPendingChunks, MarkIndexed,
       EmbedBatch, Loading, SlotType
  <2>2. CASE MarkParsing(s) \/ CommitParsed(s) \/ LoadPendingChunks(s) \/ MarkIndexed(s)
    <3>1. TaskSteps(slot'[s].pc) < TaskSteps(slot[s].pc)
      BY <1>1, <2>2 DEF MarkParsing, CommitParsed, LoadPendingChunks, MarkIndexed, TaskSteps, SlotType
    <3> QED
      BY <2>1, <3>1, TaskGoesForward
  <2>3. CASE LoadMiss(s)
    <3>1. slot'[s].pc = slot[s].pc /\ slot'[s].reads = slot[s].reads + 1
          /\ slot[s].reads \in Nat /\ Loading(s)
      BY <1>1, <2>3 DEF LoadMiss, SlotType
    <3>2. Repeats(s)' < Repeats(s)
      BY <3>1, BoundsAssumption DEF Repeats, Loading
    <3> QED
      BY <2>1, <3>1, <3>2, TaskGoesForward
  <2>4. CASE EmbedBatch(s)
    <3>1. /\ slot[s].pc = "embedding" /\ slot'[s].pc = slot[s].pc
          /\ slot[s].todo \in Nat \ {0}
          /\ slot'[s].todo = slot[s].todo - Smaller(BatchSize, slot[s].todo)
      BY <1>1, <2>4 DEF EmbedBatch, SlotType
    <3>2. Repeats(s)' < Repeats(s)
      BY <3>1, BoundsAssumption DEF Repeats, Loading, Smaller
    <3> QED
      BY <2>1, <3>1, <3>2, TaskGoesForward
  <2> QED
    BY <1>3, <2>2, <2>3, <2>4
<1>4. CASE GiveUp(s) \/ FailIngest(s) \/ RefusedByDatabase(s) \/ FailEmbed(s) \/ EnqueueClustering(s)
           \/ TaskAborts(s)
  <2>1. /\ request' = request /\ queue' = queue
        /\ Others /\ slot'[s] = IdleSlot
    BY <1>1, <1>4 DEF GiveUp, FailIngest, RefusedByDatabase, FailEmbed, EnqueueClustering,
       TaskAborts, Loading
  <2> QED
    BY <2>1, TaskGoesForward
<1>5. CASE CommitIndexed(s)
  <2>1. slot[s].pc = "indexing" /\ request' = request /\ queue' = queue /\ Others
    BY <1>1, <1>5 DEF CommitIndexed
  <2>2. \/ slot'[s] = IdleSlot
        \/ slot'[s].on = d /\ slot'[s].pc = "trigger"
    BY <1>1, <1>5 DEF CommitIndexed, SlotType
  <2>3. TaskSteps("trigger") < TaskSteps("indexing")
    BY DEF TaskSteps
  <2> QED
    BY <2>1, <2>2, <2>3, TaskGoesForward
<1>6. CASE EnqueueEmbed(s)
  <2>1. slot[s].pc = "parsed" /\ request' = request /\ Others /\ slot'[s] = IdleSlot
    BY <1>1, <1>6 DEF EnqueueEmbed
  <2>2. queue' = [queue EXCEPT !["embed"][d] = @ + 1]
    BY <1>6 DEF EnqueueEmbed, Send
  <2>3. \A k \in Tasks : \A v \in Uploads \ {d} : queue'[k][v] = queue[k][v]
    BY <1>1, <2>2
  <2>4. queue'["embed"][d] > 0
    BY <1>1, <2>2 DEF Tasks
  <2> QED
    BY <2>1, <2>3, <2>4, TaskGoesForward
<1> QED
  BY <1>3, <1>4, <1>5, <1>6 DEF Work

\* A crash ends every task that runs and moves no other document.
LEMMA CrashGoesForward ==
  ASSUME IInv, IInv', WorkerCrash
  PROVE  /\ \E d \in Uploads : Forward(d)
         /\ \A u \in Uploads : Forward(u) \/ Stays(u)
<1>1. /\ request' = request /\ queue' = queue
      /\ \A t \in Slots : slot'[t] = IdleSlot
  BY DEF WorkerCrash
<1>2. ASSUME NEW s \in Slots, NEW u \in Uploads, RunsIn(u, s)
      PROVE  Forward(u)
  <2>1. slot[s].pc # "idle" /\ slot[s].on = u
    BY <1>2, IdsAssumption DEF IInv, SlotsConsistent, RunsIn
  <2>2. \A t \in Tasks : queue[t][u] = 0
    BY <2>1, RunningTask
  <2>3. NoTask(u)' /\ ~NoTask(u)
    BY <1>1, <1>2, <2>2, IdsAssumption DEF NoTask, Queued, RunsIn, IdleSlot
  <2>4. Measured(u) /\ Measured(u)'
    BY WorkLeftOf, WorkLeftAfter
  <2>5. RequestSteps(request[u]) = 0
    BY <2>3, <2>4 DEF Measured, RequestSteps
  <2>6. WorkLeft(u) = <<TaskSteps(slot[s].pc), Repeats(s), Open(u)>>
    BY <1>2, <2>4 DEF Measured
  <2>7. WorkLeft(u)' = <<0, 0, Open(u)'>>
    BY <1>1, <2>3, <2>4, <2>5 DEF Measured
  <2>8. TaskSteps(slot[s].pc) > 0
    <3>1. slot[s].pc \in Pcs \ {"idle"}
      BY <2>1 DEF IInv, TypeOK, SlotType
    <3> QED
      BY <3>1 DEF TaskSteps, Pcs, IngestPcs, EmbedPcs
  <2> QED
    BY <2>6, <2>7, <2>8 DEF Forward, Lower
<1>3. ASSUME NEW u \in Uploads, \A s \in Slots : ~RunsIn(u, s) PROVE Stays(u)
  <2>1. \A s \in Slots : ~RunsIn(u, s) /\ ~RunsIn(u, s)'
    BY <1>1, <1>3, IdsAssumption DEF RunsIn, IdleSlot
  <2> QED
    BY <1>1, <2>1, NotMoved
<1>4. PICK s \in Slots : slot[s].pc # "idle"
  BY DEF WorkerCrash
<1>5. slot[s].on \in Uploads /\ RunsIn(slot[s].on, s)
  BY <1>4, RunningTask DEF RunsIn
<1> QED
  BY <1>2, <1>3, <1>5

\* Each look for the rows is counted, and the last one ends the task.
LEMMA NextKeepsReads == IInv /\ ReadsBounded /\ [Next]_vars => ReadsBounded'
<1> SUFFICES ASSUME IInv, ReadsBounded, [Next]_vars, NEW s \in Slots
             PROVE  slot'[s].reads < TargetReads
  BY DEF ReadsBounded
<1> USE DEF dbVars, workVars, operatorVars
<1>1. slot \in [Slots -> SlotType] /\ slot[s].reads < TargetReads /\ slot[s].reads \in Nat
  BY DEF IInv, TypeOK, SlotType, ReadsBounded
<1>2. IdleSlot.reads < TargetReads /\ \A t, u : Starting(t, u).reads < TargetReads
  BY BoundsAssumption DEF IdleSlot, Starting
<1>3. ASSUME NEW u \in Uploads,
             EnforceDailyUploadLimit(u) \/ Handle(u) \/ UploadAborts(u)
             \/ LookAtStuck(u) \/ AbandonStuck(u)
      PROVE  slot' = slot
  BY <1>3 DEF EnforceDailyUploadLimit, Handle, WriteUploadedFile, Deduplicate, InsertRows,
     EnqueueIngest, CommitUpload, UploadAborts, LookAtStuck, AbandonStuck
<1>4. ASSUME NEW r \in Slots, Work(r) \/ TaskAborts(r), r # s PROVE slot'[s] = slot[s]
  BY <1>1, <1>4 DEF Work, StartTask, LoadMiss, GiveUp, MarkParsing, CommitParsed, FailIngest,
     RefusedByDatabase, EnqueueEmbed, LoadPendingChunks, EmbedBatch, FailEmbed, MarkIndexed,
     CommitIndexed, EnqueueClustering, TaskAborts
<1>5. CASE LoadMiss(s)
  BY <1>1, <1>5 DEF LoadMiss, SlotType
<1>6. CASE StartTask(s)
  BY <1>1, <1>2, <1>6 DEF StartTask
<1>7. CASE GiveUp(s) \/ FailIngest(s) \/ RefusedByDatabase(s) \/ EnqueueEmbed(s) \/ FailEmbed(s)
           \/ EnqueueClustering(s) \/ TaskAborts(s) \/ WorkerCrash
  BY <1>1, <1>2, <1>7 DEF GiveUp, FailIngest, RefusedByDatabase, EnqueueEmbed, FailEmbed,
     EnqueueClustering, TaskAborts, WorkerCrash
<1>8. CASE MarkParsing(s) \/ CommitParsed(s) \/ LoadPendingChunks(s) \/ EmbedBatch(s) \/ MarkIndexed(s)
  BY <1>1, <1>8 DEF MarkParsing, CommitParsed, LoadPendingChunks, EmbedBatch, MarkIndexed, SlotType
<1>9. CASE CommitIndexed(s)
  BY <1>1, <1>2, <1>9 DEF CommitIndexed, SlotType
<1>10. CASE UNCHANGED vars
  BY <1>1, <1>10 DEF vars
<1>11. ASSUME NEW r \in Slots, Work(r) \/ TaskAborts(r) PROVE slot'[s].reads < TargetReads
  BY <1>1, <1>4, <1>5, <1>6, <1>7, <1>8, <1>9, <1>11 DEF Work
<1> QED
  BY <1>1, <1>3, <1>7, <1>10, <1>11 DEF Next

\* What is left of a document is counted in natural numbers.
WorkIsMeasured == \A u \in Uploads : WorkLeft(u) \in Measures

LEMMA WorkMeasured == IInv /\ ReadsBounded => WorkIsMeasured
<1> SUFFICES ASSUME IInv, ReadsBounded, NEW u \in Uploads PROVE WorkLeft(u) \in Measures
  BY DEF WorkIsMeasured
<1> USE DEF Measures
<1>1. Measured(u) /\ Open(u) \in Nat /\ RequestSteps(request[u]) \in Nat
  BY WorkLeftOf DEF Open, RequestSteps
<1>2. queue["ingest"][u] \in Nat /\ queue["embed"][u] \in Nat
  BY DEF IInv, TypeOK, Tasks
<1>3. ASSUME NEW s \in Slots, RunsIn(u, s) PROVE WorkLeft(u) \in Measures
  <2>1. slot[s].reads \in Nat /\ slot[s].todo \in Nat /\ slot[s].reads < TargetReads
    BY DEF IInv, TypeOK, SlotType, ReadsBounded
  <2>2. Repeats(s) \in Nat
    BY <2>1, BoundsAssumption DEF Repeats
  <2>3. TaskSteps(slot[s].pc) \in Nat
    BY DEF TaskSteps
  <2> QED
    BY <1>1, <1>3, <2>2, <2>3 DEF Measured
<1>4. CASE NoTask(u) \/ Queued(u)
  BY <1>1, <1>2, <1>4 DEF Measured, Queued, Tasks
<1> QED
  BY <1>3, <1>4 DEF NoTask

\* No step takes a document back, a crash, a rollback, an error and the
\* operator's update included: its work is never done twice, whoever runs it.
\* And every step but the operator's two brings some document forward, so with
\* NoEndlessDescent a document that no fault stops is worked on to its end,
\* and one that a fault stops is not taken up again.
THEOREM NothingGoesBack ==
  Spec => /\ []WorkIsMeasured
          /\ [][/\ \A u \in Uploads : Forward(u) \/ Stays(u)
                /\ \E u \in Uploads : Forward(u) \/ LookAtStuck(u) \/ AbandonStuck(u)]_vars
<1> DEFINE OneWay == /\ \A u \in Uploads : Forward(u) \/ Stays(u)
                     /\ \E u \in Uploads : Forward(u) \/ LookAtStuck(u) \/ AbandonStuck(u)
<1>1. ASSUME IInv, IInv', [Next]_vars PROVE [OneWay]_vars
  <2>1. ASSUME NEW u \in Uploads, EnforceDailyUploadLimit(u) \/ Handle(u) \/ UploadAborts(u)
        PROVE  OneWay
    BY <1>1, <2>1, HandlerGoesForward
  <2>2. ASSUME NEW s \in Slots, Work(s) \/ TaskAborts(s) PROVE OneWay
    BY <1>1, <2>2, WorkerGoesForward
  <2>3. ASSUME WorkerCrash PROVE OneWay
    BY <1>1, <2>3, CrashGoesForward
  <2>4. ASSUME NEW d \in Uploads, LookAtStuck(d) \/ AbandonStuck(d) PROVE OneWay
    <3>1. request' = request /\ queue' = queue /\ slot' = slot
      BY <2>4 DEF LookAtStuck, AbandonStuck, workVars
    <3>2. \A u \in Uploads : Stays(u)
      BY <1>1, <3>1, NotMoved
    <3> QED
      BY <2>4, <3>2
  <2> QED
    BY <1>1, <2>1, <2>2, <2>3, <2>4 DEF Next
<1>2. Init => ReadsBounded
  BY BoundsAssumption DEF Init, IdleSlot, ReadsBounded
<1>3. Spec => []ReadsBounded
  BY <1>2, NextKeepsReads, Invariance, PTL DEF Spec
<1>4. IInv /\ [Next]_vars => [OneWay]_vars
  BY <1>1, NextKeepsIInv
<1> QED
  BY <1>3, <1>4, WorkMeasured, Invariance, PTL DEF Spec
=============================================================================
