--------------------------- MODULE PipelineProofs ---------------------------
(***************************************************************************)
(* Whatever the parser, the services and the settings do, and for any      *)
(* bounds: scans are read or fail, provenance names who saw the file,      *)
(* vectors belong to their chunks, dates and entities are listed once, and *)
(* a search by date finds what the text says; the task ends, and settles   *)
(* its document.  With the retry counts of the code, who gives up does so  *)
(* last.                                                                   *)
(***************************************************************************)
EXTENDS Pipeline, OrderTheorems

\* The file the parser is given was made by the processor its version names,
\* and a PDF was read by OCR exactly if the original has too little text.
ReadAsNeeded ==
    /\ sent = {Version(reading)} \cap Processors
    /\ upload.mime = "pdf" => (reading = "ocr.md" <=> NeedsOcr(native))

\* Nothing has been done with the file yet, except parsing it.
Untouched == reading = "original" /\ sent = {} /\ document.status = "parsing"

IInv ==
    /\ upload.large => sent = {}
    /\ pc \in {"routing", "converting", "measuring", "ocr"} => Untouched
    /\ pc = "converting" => upload.mime = "legacy office"
    /\ pc = "measuring" => upload.mime = "pdf" /\ parsed = native /\ parsed.version = "docling"
    /\ pc = "ocr" => upload.mime = "pdf" /\ NeedsOcr(native)
    /\ pc = "parsing" =>
           /\ document.status = "parsing"
           /\ sent = {Version(reading)} \cap Processors
           /\ reading = "converted.pdf" => upload.mime = "legacy office"
           /\ reading = "ocr.md" => upload.mime = "pdf" /\ NeedsOcr(native)
    /\ pc = "persisting" =>
           document.status = "parsing" /\ ReadAsNeeded /\ parsed.version = Version(reading)
    /\ pc \in {"metadata", "tagging", "committing", "embedding"} \/ Accepted =>
           \/ ReadAsNeeded /\ document.version = Version(reading)
           \/ upload.mime = "image" /\ sent = {} /\ document.version = "metadata_only"
    /\ Accepted => pc \in {"embedding", "done"}
    /\ reading \in {"original", "converted.pdf", "ocr.md"}
    /\ pc \in Pcs
    /\ DOMAIN document = {"status", "version"}

\* The invariant holds when the task starts.
LEMMA InitIInv == Init => IInv
  BY DEF Init, IInv, Untouched, Accepted, Pcs

\* A step that only goes on with a document whose chunks are persisted.
LEMMA GoesOn ==
  ASSUME IInv, UNCHANGED <<upload, reading, native, parsed, document, sent>>,
         pc \in {"metadata", "tagging", "committing", "embedding"},
         \/ pc' = pc
         \/ pc' \in {"tagging", "committing"} /\ ~Accepted
  PROVE  IInv'
  BY DEF IInv, ReadAsNeeded, Accepted, Untouched, Pcs

\* A step that fails the document; the services may have seen it.
LEMMA Failed ==
  ASSUME IInv, Fail, UNCHANGED <<upload, reading>>, upload.large => sent' = {}
  PROVE  IInv'
  BY DEF IInv, Fail, Accepted, Pcs

\* Every step of Parse keeps the invariant.
LEMMA ParseIInv == ASSUME IInv, Parse PROVE IInv'
  <1>1. CASE Route
    <2>1. CASE SelectStrategy(upload.mime) = "skip" /\ Fail
      BY <1>1, <2>1, Failed DEF Route, IInv
    <2>2. CASE SelectStrategy(upload.mime) = "extract" /\ pc' = "parsing" /\ UNCHANGED document
      BY <1>1, <2>2 DEF Route, IInv, Untouched, Accepted, Pcs, Version, Processors
    <2>3. CASE SelectStrategy(upload.mime) = "convert" /\ pc' = "converting" /\ UNCHANGED document
      <3>1. upload.mime = "legacy office"
        BY <2>3 DEF SelectStrategy
      <3> QED
        BY <1>1, <2>3, <3>1 DEF Route, IInv, Untouched, Accepted, Pcs
    <2>4. CASE /\ SelectStrategy(upload.mime) = "metadata only"
               /\ document' = [document EXCEPT !.version = "metadata_only"] /\ pc' = "committing"
      <3>1. upload.mime = "image"
        BY <2>4 DEF SelectStrategy
      <3> QED
        BY <1>1, <2>4, <3>1 DEF Route, IInv, Untouched, Accepted, Pcs
    <2> QED
      BY <1>1, <2>1, <2>2, <2>3, <2>4 DEF Route
  <1>2. CASE ConvertToPdf
    BY <1>2 DEF ConvertToPdf, Send, IInv, Untouched, Accepted, Pcs, Version, Processors
  <1>3. CASE OcrPdfToMarkdown
    BY <1>3 DEF OcrPdfToMarkdown, Send, IInv, Untouched, Accepted, Pcs, Version, Processors
  <1>4. CASE ProcessorFails
    BY <1>4, Failed DEF ProcessorFails, Send, IInv
  <1>5. CASE DoclingParse
    <2>1. PICK p \in [chunks : 0 .. MaxChunks, pages : 0 .. MaxPages, version : {Version(reading)}] :
              parsed' = p /\ native' = IF reading = "original" THEN p ELSE native
      BY <1>5 DEF DoclingParse
    <2>2. p.version = Version(reading)
      BY <2>1
    <2>3. CASE reading = "original" /\ upload.mime = "pdf"
      BY <1>5, <2>1, <2>2, <2>3 DEF DoclingParse, IInv, Untouched, Accepted, Pcs, Version, Processors
    <2>4. CASE reading = "original" /\ upload.mime # "pdf"
      BY <1>5, <2>1, <2>2, <2>4 DEF DoclingParse, IInv, ReadAsNeeded, Accepted, Pcs
    <2>5. CASE reading # "original"
      BY <1>5, <2>1, <2>2, <2>5 DEF DoclingParse, IInv, ReadAsNeeded, Accepted, Pcs
    <2> QED
      BY <2>3, <2>4, <2>5
  <1>6. CASE DoclingRaises
    BY <1>6, Failed DEF DoclingRaises, IInv
  <1>7. CASE OcrIfScanned
    <2>1. CASE Fail
      BY <1>7, <2>1, Failed DEF OcrIfScanned, IInv
    <2>2. CASE ~NeedsOcr(parsed) /\ pc' = "persisting" /\ UNCHANGED document
      BY <1>7, <2>2 DEF OcrIfScanned, IInv, Untouched, ReadAsNeeded, Accepted, Pcs, Version, Processors
    <2>3. CASE NeedsOcr(parsed) /\ pc' = "ocr" /\ UNCHANGED document
      BY <1>7, <2>3 DEF OcrIfScanned, IInv, Untouched, Accepted, Pcs
    <2> QED
      BY <1>7, <2>1, <2>2, <2>3 DEF OcrIfScanned
  <1>8. CASE PersistChunks
    BY <1>8 DEF PersistChunks, IInv, ReadAsNeeded, Accepted, Pcs
  <1> QED
    BY <1>1, <1>2, <1>3, <1>4, <1>5, <1>6, <1>7, <1>8 DEF Parse

\* So does everything after it.
LEMMA NextIInv == IInv /\ [Next]_vars => IInv'
  <1> SUFFICES ASSUME IInv, [Next]_vars PROVE IInv'
    OBVIOUS
  <1>1. CASE Parse
    BY <1>1, ParseIInv
  <1>2. CASE ExtractMetadata
    BY <1>2, GoesOn
    DEF ExtractMetadata, ExtractLocally, AskEndpoint, TagAgain, Tag, TaggingFails, TaggerUnusable,
        IInv, Accepted
  <1>3. CASE CommitParsed
    BY <1>3 DEF CommitParsed, IInv, ReadAsNeeded, Accepted, Pcs
  <1>4. CASE EmbedBatch \/ EmbedAgain
    BY <1>4, GoesOn DEF EmbedBatch, EmbedAgain
  <1>5. CASE EmbedFails
    BY <1>5, Failed DEF EmbedFails, IInv
  <1>6. CASE MarkIndexed
    BY <1>6 DEF MarkIndexed, IInv, ReadAsNeeded, Accepted, Pcs
  <1>7. CASE SearchByDate \/ UNCHANGED vars
    BY <1>7 DEF SearchByDate, vars, IInv, Untouched, ReadAsNeeded, Accepted
  <1> QED
    BY <1>1, <1>2, <1>3, <1>4, <1>5, <1>6, <1>7 DEF Next, Work, Embed

-----------------------------------------------------------------------------
(* What holds in every reachable state. *)

\* IInv holds in every reachable state.
THEOREM Invariance == Spec => []IInv
  BY InitIInv, NextIInv, PTL DEF Spec

\* No scan becomes searchable as the empty document its parse is.
THEOREM ScansRead == Spec => []ScansAreRead
  <1>1. IInv => ScansAreRead
    BY DEF IInv, ReadAsNeeded, ScansAreRead, NeedsOcr
  <1> QED
    BY <1>1, Invariance, PTL

\* The version of a document names the processor that saw it.
THEOREM ProvenanceHolds == Spec => []ProvenanceIsComplete
  <1>1. IInv => ProvenanceIsComplete
    BY DEF IInv, ReadAsNeeded, ProvenanceIsComplete, Processors
  <1> QED
    BY <1>1, Invariance, PTL

-----------------------------------------------------------------------------
(* Retries (inference/hf_ner.py:84-113, inference/jina.py:65-96).           *)

\* What has been waited before an attempt, with the pauses of the code.
EntityWaits(attempt) == IF attempt > 4 THEN 62 + 60 * (attempt - 5) ELSE 2 * 2 ^ attempt - 2
EmbedWaits(attempt) == 2 ^ attempt - 1

CallTyped == call \in [attempt : Nat, waited : Nat, answer : Answers \cup {"none"}]

\* The time waited follows from the attempts made, no document has failed that
\* is still worked on, and a new call starts with no attempts.
CInv ==
    /\ CallTyped
    /\ pc \in {"routing", "converting", "parsing", "measuring", "ocr", "persisting", "metadata"}
          => call = NoCall
    /\ pc = "tagging" =>
          call.attempt \in 0 .. NerRetries /\ call.waited = EntityWaits(call.attempt)
    /\ pc = "embedding" =>
          call.attempt \in 0 .. EmbedRetries /\ call.waited = EmbedWaits(call.attempt)
    /\ document.status = "failed" => pc = "done"

\* An attempt more has waited for the pause before it too.
LEMMA EntityPauses ==
    ASSUME NEW a \in 0 .. 14
    PROVE  EntityWaits(a + 1) \in Nat /\ EntityWaits(a + 1) = EntityWaits(a) + Backoff("hf", a)
  <1>1. /\ Backoff("hf", 0) = 2 /\ Backoff("hf", 1) = 4 /\ Backoff("hf", 2) = 8
        /\ Backoff("hf", 3) = 16 /\ Backoff("hf", 4) = 32 /\ Backoff("hf", 5) = 60
        /\ Backoff("hf", 6) = 60 /\ Backoff("hf", 7) = 60 /\ Backoff("hf", 8) = 60
        /\ Backoff("hf", 9) = 60 /\ Backoff("hf", 10) = 60 /\ Backoff("hf", 11) = 60
        /\ Backoff("hf", 12) = 60 /\ Backoff("hf", 13) = 60 /\ Backoff("hf", 14) = 60
    BY DEF Backoff
  <1>2. /\ EntityWaits(0) = 0 /\ EntityWaits(1) = 2 /\ EntityWaits(2) = 6 /\ EntityWaits(3) = 14
        /\ EntityWaits(4) = 30 /\ EntityWaits(5) = 62 /\ EntityWaits(6) = 122 /\ EntityWaits(7) = 182
        /\ EntityWaits(8) = 242 /\ EntityWaits(9) = 302 /\ EntityWaits(10) = 362 /\ EntityWaits(11) = 422
        /\ EntityWaits(12) = 482 /\ EntityWaits(13) = 542 /\ EntityWaits(14) = 602 /\ EntityWaits(15) = 662
    BY DEF EntityWaits
  <1>3. \/ a = 0 \/ a = 1 \/ a = 2 \/ a = 3 \/ a = 4 \/ a = 5 \/ a = 6 \/ a = 7
        \/ a = 8 \/ a = 9 \/ a = 10 \/ a = 11 \/ a = 12 \/ a = 13 \/ a = 14
    OBVIOUS
  <1> QED
    BY <1>1, <1>2, <1>3

\* The same for the embeddings.
LEMMA EmbedPauses ==
    ASSUME NEW a \in 0 .. 2
    PROVE  EmbedWaits(a + 1) \in Nat /\ EmbedWaits(a + 1) = EmbedWaits(a) + Backoff("jina", a)
  <1>1. Backoff("jina", 0) = 1 /\ Backoff("jina", 1) = 2 /\ Backoff("jina", 2) = 4
    BY DEF Backoff
  <1>2. EmbedWaits(0) = 0 /\ EmbedWaits(1) = 1 /\ EmbedWaits(2) = 3 /\ EmbedWaits(3) = 7
    BY DEF EmbedWaits
  <1> QED
    BY <1>1, <1>2

\* No call has been made when the task starts.
LEMMA InitCInv == Init => CInv
  BY DEF Init, CInv, CallTyped, NoCall

\* With the retry counts of the code, every step keeps the invariant.
LEMMA NextCInv ==
    ASSUME NerRetries = 15, EmbedRetries = 3, IInv, CInv, [Next]_vars
    PROVE  CInv'
  <1> USE DEF CallTyped
  <1>1. CASE Parse
    <2>1. CASE Route
      BY <1>1, <2>1 DEF Route, Fail, CInv, IInv
    <2>2. CASE ConvertToPdf \/ OcrPdfToMarkdown \/ ProcessorFails \/ DoclingRaises
      BY <1>1, <2>2 DEF ConvertToPdf, OcrPdfToMarkdown, ProcessorFails, DoclingRaises, Fail, CInv
    <2>3. CASE DoclingParse \/ OcrIfScanned
      BY <1>1, <2>3 DEF DoclingParse, OcrIfScanned, Fail, CInv
    <2>4. CASE PersistChunks
      BY <1>1, <2>4 DEF PersistChunks, CInv, IInv
    <2> QED
      BY <1>1, <2>1, <2>2, <2>3, <2>4 DEF Parse
  <1>2. CASE ExtractLocally \/ AskEndpoint \/ TaggerUnusable
    <2>1. CASE ExtractLocally \/ TaggerUnusable
      BY <1>2, <2>1 DEF ExtractLocally, TaggerUnusable, CInv
    <2>2. CASE AskEndpoint
      <3>1. EntityWaits(0) = 0
        BY DEF EntityWaits
      <3>2. /\ pc = "metadata" /\ pc' = "tagging" /\ document' = document
              /\ call' = call /\ call = NoCall
        BY <1>2, <2>2 DEF AskEndpoint, CInv
      <3> QED
        BY <1>2, <3>1, <3>2 DEF CInv, NoCall
    <2> QED
      BY <1>2, <2>1, <2>2
  <1>3. CASE TagAgain
    <2>1. /\ pc = "tagging" /\ pc' = pc /\ document' = document
          /\ call.attempt \in 0 .. 14
          /\ call.waited = EntityWaits(call.attempt)
          /\ call'.attempt = call.attempt + 1
          /\ call'.waited = call.waited + Backoff("hf", call.attempt)
          /\ call' = [attempt |-> call'.attempt, waited |-> call'.waited, answer |-> call'.answer]
          /\ call'.answer \in Answers
      BY <1>3 DEF TagAgain, TryAgain, CInv, Retries, Retryable, Answers
    <2>2. call'.waited = EntityWaits(call'.attempt)
      BY <2>1, EntityPauses
    <2>3. call'.attempt \in 0 .. 15 /\ call'.waited \in Nat
      BY <2>1, EntityPauses
    <2> QED
      BY <2>1, <2>2, <2>3 DEF CInv
  <1>4. CASE Tag
    BY <1>4 DEF Tag, CInv, NoCall, Upsert
  <1>5. CASE TaggingFails
    BY <1>5 DEF TaggingFails, Raises, CInv, Answers
  <1>6. CASE CommitParsed
    BY <1>6 DEF CommitParsed, CInv, NoCall, EmbedWaits
  <1>7. CASE EmbedBatch
    BY <1>7 DEF EmbedBatch, CInv, NoCall, EmbedWaits
  <1>8. CASE EmbedAgain
    <2>1. /\ pc = "embedding" /\ pc' = pc /\ document' = document
          /\ call.attempt \in 0 .. 2
          /\ call.waited = EmbedWaits(call.attempt)
          /\ call'.attempt = call.attempt + 1
          /\ call'.waited = call.waited + Backoff("jina", call.attempt)
          /\ call' = [attempt |-> call'.attempt, waited |-> call'.waited, answer |-> call'.answer]
          /\ call'.answer \in Answers
      BY <1>8 DEF EmbedAgain, TryAgain, CInv, Retries, Retryable, Answers
    <2>2. call'.waited = EmbedWaits(call'.attempt)
      BY <2>1, EmbedPauses
    <2>3. call'.attempt \in 0 .. 3 /\ call'.waited \in Nat
      BY <2>1, EmbedPauses
    <2> QED
      BY <2>1, <2>2, <2>3 DEF CInv
  <1>9. CASE EmbedFails \/ MarkIndexed
    BY <1>9 DEF EmbedFails, MarkIndexed, Raises, Fail, CInv, IInv, Answers
  <1>10. CASE SearchByDate \/ UNCHANGED vars
    BY <1>10 DEF SearchByDate, vars, CInv
  <1> QED
    BY <1>1, <1>2, <1>3, <1>4, <1>5, <1>6, <1>7, <1>8, <1>9, <1>10
    DEF Next, Work, ExtractMetadata, Embed

\* Only its embeddings fail a document whose chunks are persisted, and neither
\* endpoint is given up on before its attempts are made and waited for
\* (_MAX_RETRIES of inference/hf_ner.py:29, max_retries of inference/jina.py:110).
THEOREM GaveUpLast ==
    ASSUME NerRetries = 15, EmbedRetries = 3
    PROVE  Spec => GivesUpLast
  <1> DEFINE Late ==
        /\ document'.status = "failed" => pc \notin {"metadata", "tagging", "committing"}
        /\ pc = "tagging" /\ pc' # pc /\ call'.answer \in Retryable("hf") =>
              call.waited \in 2 * 300 .. 2 * 360
        /\ pc = "embedding" /\ document'.status = "failed" /\ call'.answer \in Retryable("jina") =>
              call.waited = 7
  <1>1. ASSUME IInv, CInv, [Next]_vars PROVE [Late]_vars
    <2>1. CASE Parse
      BY <1>1, <2>1 DEF Parse, CInv, Route, ConvertToPdf, OcrPdfToMarkdown, ProcessorFails,
                        DoclingParse, DoclingRaises, OcrIfScanned, PersistChunks, Fail
    <2>2. CASE ExtractLocally \/ AskEndpoint \/ TaggerUnusable \/ TagAgain
      BY <1>1, <2>2 DEF ExtractLocally, AskEndpoint, TaggerUnusable, TagAgain, CInv
    <2>3. CASE Tag
      BY <1>1, <2>3 DEF Tag, CInv, NoCall, Retryable
    <2>4. CASE TaggingFails
      <3>1. call'.answer \in Retryable("hf") => call.attempt = 15
        BY <1>1, <2>4 DEF TaggingFails, Raises, Retries, CInv, CallTyped
      <3>2. call.attempt = 15 => call.waited = 662
        BY <1>1, <2>4 DEF TaggingFails, CInv, EntityWaits
      <3> QED
        BY <1>1, <2>4, <3>1, <3>2 DEF TaggingFails, CInv
    <2>5. CASE CommitParsed
      BY <1>1, <2>5 DEF CommitParsed, IInv
    <2>6. CASE EmbedBatch \/ EmbedAgain \/ MarkIndexed
      BY <1>1, <2>6 DEF EmbedBatch, EmbedAgain, MarkIndexed, CInv, IInv
    <2>7. CASE EmbedFails
      <3>1. call'.answer \in Retryable("jina") => call.attempt = 3
        BY <1>1, <2>7 DEF EmbedFails, Raises, Retries, CInv, CallTyped
      <3>2. call.attempt = 3 => call.waited = 7
        BY <1>1, <2>7 DEF EmbedFails, CInv, EmbedWaits
      <3> QED
        BY <1>1, <2>7, <3>1, <3>2 DEF EmbedFails, CInv
    <2>8. CASE SearchByDate \/ UNCHANGED vars
      BY <1>1, <2>8 DEF SearchByDate, vars, CInv
    <2> QED
      BY <1>1, <2>1, <2>2, <2>3, <2>4, <2>5, <2>6, <2>7, <2>8
      DEF Next, Work, ExtractMetadata, Embed
  <1>2. Spec => []CInv
    BY InitCInv, NextCInv, Invariance, PTL DEF Spec
  <1> QED
    BY <1>1, <1>2, Invariance, PTL DEF Spec, GivesUpLast

-----------------------------------------------------------------------------
(* Embeddings (tasks/ingest.py:235-254, inference/jina.py:140-152).         *)

\* InOrder is what its name says: every number once, the smallest first.
LEMMA InOrderSorts ==
    ASSUME NEW S \in SUBSET Nat, IsFiniteSet(S)
    PROVE  /\ Cardinality(S) \in Nat
           /\ InOrder(S) \in [1 .. Cardinality(S) -> S]
           /\ \A x \in S : \E k \in 1 .. Cardinality(S) : InOrder(S)[k] = x
           /\ \A j, k \in 1 .. Cardinality(S) : j < k <=> InOrder(S)[j] < InOrder(S)[k]
           /\ \A j, k \in 1 .. Cardinality(S) : InOrder(S)[j] = InOrder(S)[k] => j = k
  <1> DEFINE R == {p \in S \X S : p[1] < p[2]}
  <1>1. \A x, y \in S : <<x, y>> \in R <=> x < y
    OBVIOUS
  <1>2. \A x \in S : Before(R, S, x) = {j \in S : j < x}
    BY DEF Before
  <1>3. StrictOrder(R, S)
    <2>1. S \subseteq Nat
      OBVIOUS
    <2> HIDE DEF R
    <2> QED
      BY <1>1, <2>1 DEF StrictOrder
  <1>4. InOrder(S) = Sorted(R, S)
    <2> HIDE DEF R
    <2> DEFINE Here(k) == CHOOSE i \in S : Cardinality({j \in S : j < i}) = k - 1
               There(k) == CHOOSE x \in S : Cardinality(Before(R, S, x)) = k - 1
    <2>1. \A k : Here(k) = There(k)
      <3> SUFFICES ASSUME NEW k PROVE Here(k) = There(k)
        OBVIOUS
      <3>1. \A x \in S : Cardinality({j \in S : j < x}) = Cardinality(Before(R, S, x))
        BY <1>2
      <3> QED
        BY <3>1, Zenon
    <2>2. InOrder(S) = [k \in 1 .. Cardinality(S) |-> Here(k)]
      BY DEF InOrder
    <2>3. Sorted(R, S) = [k \in 1 .. Cardinality(S) |-> There(k)]
      BY DEF Sorted
    <2> HIDE DEF Here, There
    <2> QED
      BY <2>1, <2>2, <2>3
  <1> HIDE DEF R
  <1>5. /\ Cardinality(S) \in Nat
        /\ Sorted(R, S) \in [1 .. Cardinality(S) -> S]
        /\ \A x \in S : \E i \in 1 .. Cardinality(S) : Sorted(R, S)[i] = x
        /\ \A i, j \in 1 .. Cardinality(S) : i < j <=> <<Sorted(R, S)[i], Sorted(R, S)[j]>> \in R
        /\ \A i, j \in 1 .. Cardinality(S) : Sorted(R, S)[i] = Sorted(R, S)[j] => i = j
    BY <1>3, SortedSorts
  <1> QED
    BY <1>1, <1>4, <1>5

\* The numbers up to n are in order as they are.
LEMMA InOrderOfInterval ==
    ASSUME NEW n \in Nat
    PROVE  InOrder(1 .. n) = [k \in 1 .. n |-> k]
  <1>1. Cardinality(1 .. n) = n
    BY FS_Interval
  <1>2. \A i \in 1 .. n : Cardinality({j \in 1 .. n : j < i}) = i - 1
    <2> SUFFICES ASSUME NEW i \in 1 .. n PROVE Cardinality({j \in 1 .. n : j < i}) = i - 1
      OBVIOUS
    <2>1. {j \in 1 .. n : j < i} = 1 .. (i - 1)
      OBVIOUS
    <2>2. i - 1 \in Nat
      OBVIOUS
    <2>3. Cardinality(1 .. (i - 1)) = i - 1
      BY <2>2, FS_Interval
    <2> QED
      BY <2>1, <2>3
  <1>3. \A k \in 1 .. n :
           (CHOOSE i \in 1 .. n : Cardinality({j \in 1 .. n : j < i}) = k - 1) = k
    <2> SUFFICES ASSUME NEW k \in 1 .. n
                 PROVE  (CHOOSE i \in 1 .. n : Cardinality({j \in 1 .. n : j < i}) = k - 1) = k
      OBVIOUS
    <2>1. \A i \in 1 .. n : Cardinality({j \in 1 .. n : j < i}) = k - 1 => i = k
      BY <1>2
    <2> QED
      BY <1>2, <2>1
  <1> QED
    BY <1>1, <1>3 DEF InOrder

\* A batch is some of the chunks without an embedding, each once.
LEMMA BatchIsPending ==
    ASSUME NEW n \in Nat, DOMAIN rows = 1 .. n, BatchSize \in Nat
    PROVE  \E m \in Nat :
              /\ Batch \in [1 .. m -> {i \in 1 .. n : rows[i] = 0}]
              /\ Len(Batch) = m /\ DOMAIN Batch = 1 .. m
              /\ \A j, k \in 1 .. m : Batch[j] = Batch[k] => j = k
  <1> DEFINE S == {i \in 1 .. n : rows[i] = 0}
             c == Cardinality(S)
             m == IF c < BatchSize THEN c ELSE BatchSize
  <1>1. IsFiniteSet(S) /\ S \in SUBSET Nat
    <2>1. IsFiniteSet(1 .. n)
      BY FS_Interval
    <2> QED
      BY <2>1, FS_Subset
  <1>2. Pending = InOrder(S)
    BY DEF Pending
  <1> HIDE DEF S
  <1>3. /\ c \in Nat
        /\ Pending \in [1 .. c -> S]
        /\ \A j, k \in 1 .. c : Pending[j] = Pending[k] => j = k
    BY <1>1, <1>2, InOrderSorts
  <1> HIDE DEF c
  <1>4. Pending \in Seq(S) /\ Len(Pending) = c
    BY <1>3
  <1>5. m \in 0 .. c /\ m \in Nat
    BY <1>3
  <1>6. Batch = SubSeq(Pending, 1, m)
    BY <1>4 DEF Batch
  <1> HIDE DEF m
  <1>7. /\ Len(Batch) = m /\ Batch \in Seq(S)
        /\ \A k \in 1 .. m : Batch[k] = Pending[k]
    BY <1>4, <1>5, <1>6
  <1>8. Batch \in [1 .. m -> S] /\ DOMAIN Batch = 1 .. m
    BY <1>5, <1>7
  <1>9. \A j, k \in 1 .. m : Batch[j] = Batch[k] => j = k
    BY <1>3, <1>5, <1>7
  <1> QED
    BY <1>5, <1>7, <1>8, <1>9 DEF S

\* However the answer is listed, the k-th vector is of the k-th text.
LEMMA VectorsInOrder ==
    ASSUME NEW m \in Nat, DOMAIN Batch = 1 .. m, NEW data \in Listings
    PROVE  Vectors(data) = [k \in 1 .. m |-> Batch[k]]
  <1>1. PICK order \in SetToSeqs(1 .. m) :
           data = [k \in 1 .. m |-> [index |-> order[k], of |-> Batch[order[k]]]]
    BY DEF Listings
  <1>2. Cardinality(1 .. m) = m /\ IsFiniteSet(1 .. m)
    BY FS_Interval
  <1>3. /\ order \in [1 .. m -> 1 .. m]
        /\ \A i, j \in 1 .. m : i # j => order[i] # order[j]
    BY <1>2 DEF SetToSeqs
  <1>4. \A i \in 1 .. m : \E k \in 1 .. m : order[k] = i
    <2>1. order \in Injection(1 .. m, 1 .. m)
      BY <1>3 DEF Injection, IsInjective
    <2>2. order \in Surjection(1 .. m, 1 .. m)
      BY <1>2, <2>1, FS_Injection
    <2> QED
      BY <2>2 DEF Surjection
  <1>5. Range(data) = {[index |-> i, of |-> Batch[i]] : i \in 1 .. m}
    <2>1. ASSUME NEW row \in Range(data)
          PROVE  row \in {[index |-> i, of |-> Batch[i]] : i \in 1 .. m}
      <3>1. PICK k \in 1 .. m : row = data[k]
        BY <1>1 DEF Range
      <3>2. row = [index |-> order[k], of |-> Batch[order[k]]] /\ order[k] \in 1 .. m
        BY <1>1, <1>3, <3>1
      <3> QED
        BY <3>2
    <2>2. ASSUME NEW i \in 1 .. m
          PROVE  [index |-> i, of |-> Batch[i]] \in Range(data)
      <3>1. PICK k \in 1 .. m : order[k] = i
        BY <1>4
      <3>2. data[k] = [index |-> i, of |-> Batch[i]] /\ k \in DOMAIN data
        BY <1>1, <3>1
      <3> QED
        BY <3>2 DEF Range
    <2> QED
      BY <2>1, <2>2
  <1>6. {row.index : row \in Range(data)} = 1 .. m
    <2>1. \A row \in Range(data) : row.index \in 1 .. m
      BY <1>5
    <2>2. ASSUME NEW i \in 1 .. m PROVE \E row \in Range(data) : row.index = i
      <3>1. [index |-> i, of |-> Batch[i]] \in Range(data)
        BY <1>5
      <3> QED
        BY <3>1
    <2> QED
      BY <2>1, <2>2
  <1>7. InOrder({row.index : row \in Range(data)}) = [k \in 1 .. m |-> k]
    BY <1>6, InOrderOfInterval
  <1>8. \A k \in 1 .. m : (CHOOSE row \in Range(data) : row.index = k).of = Batch[k]
    <2> SUFFICES ASSUME NEW k \in 1 .. m
                 PROVE  (CHOOSE row \in Range(data) : row.index = k).of = Batch[k]
      OBVIOUS
    <2>1. [index |-> k, of |-> Batch[k]] \in Range(data)
      BY <1>5
    <2>2. \E row \in Range(data) : row.index = k
      BY <2>1
    <2>3. \A row \in Range(data) : row.index = k => row.of = Batch[k]
      BY <1>5
    <2> QED
      BY <2>2, <2>3
  <1> DEFINE indices == {row.index : row \in Range(data)}
  <1>9. Vectors(data) = [k \in DOMAIN InOrder(indices) |->
                            (CHOOSE row \in Range(data) : row.index = InOrder(indices)[k]).of]
    BY DEF Vectors
  <1>10. DOMAIN InOrder(indices) = 1 .. m /\ \A k \in 1 .. m : InOrder(indices)[k] = k
    BY <1>7
  <1> HIDE DEF indices
  <1> QED
    BY <1>8, <1>9, <1>10

-----------------------------------------------------------------------------
(* The rows of the document. *)

\* The chunks are numbered, and a chunk has its own embedding or none.
RowsInv ==
    /\ parsed.chunks \in Nat
    /\ \E n \in Nat : DOMAIN rows = 1 .. n
    /\ VectorsMatchChunks

\* There are no chunks when the task starts.
LEMMA InitRowsInv == Init => RowsInv
  <1> SUFFICES ASSUME Init PROVE RowsInv
    OBVIOUS
  <1>1. parsed.chunks = 0
    BY DEF Init, NotParsed
  <1>2. DOMAIN rows = 1 .. 0 /\ DOMAIN rows = {}
    BY DEF Init
  <1> QED
    BY <1>1, <1>2 DEF RowsInv, VectorsMatchChunks

\* Chunks are made without embeddings, and a batch gives each of its own.
LEMMA NextRowsInv ==
    ASSUME RowsInv, [Next]_vars
    PROVE  RowsInv'
  <1>1. CASE UNCHANGED <<rows, parsed>>
    BY <1>1 DEF RowsInv, VectorsMatchChunks
  <1>2. CASE DoclingParse
    <2>1. rows' = rows /\ parsed'.chunks \in 0 .. MaxChunks
      BY <1>2 DEF DoclingParse
    <2>2. parsed'.chunks \in Nat
      BY <2>1, PipelineAssumption
    <2> QED
      BY <2>1, <2>2 DEF RowsInv, VectorsMatchChunks
  <1>3. CASE PersistChunks
    BY <1>3 DEF PersistChunks, RowsInv, VectorsMatchChunks
  <1>4. CASE EmbedBatch
    <2>1. PICK n \in Nat : DOMAIN rows = 1 .. n
      BY DEF RowsInv
    <2>2. PICK m \in Nat :
              /\ Batch \in [1 .. m -> {i \in 1 .. n : rows[i] = 0}]
              /\ Len(Batch) = m /\ DOMAIN Batch = 1 .. m
              /\ \A j, k \in 1 .. m : Batch[j] = Batch[k] => j = k
      BY <2>1, BatchIsPending, PipelineAssumption
    <2>3. PICK data \in Listings :
              rows' = [i \in DOMAIN rows |->
                         IF Contains(Batch, i)
                         THEN Vectors(data)[CHOOSE k \in DOMAIN Batch : Batch[k] = i]
                         ELSE rows[i]]
      BY <1>4 DEF EmbedBatch
    <2>4. Vectors(data) = [k \in 1 .. m |-> Batch[k]]
      BY <2>2, VectorsInOrder
    <2>5. ASSUME NEW i \in DOMAIN rows PROVE rows'[i] \in {0, i}
      <3>1. CASE Contains(Batch, i)
        <4>1. \E k \in 1 .. m : Batch[k] = i
          BY <2>2, <3>1 DEF Contains
        <4> DEFINE k == CHOOSE k \in DOMAIN Batch : Batch[k] = i
        <4>2. k \in 1 .. m /\ Batch[k] = i
          BY <2>2, <4>1
        <4>3. rows'[i] = Vectors(data)[k]
          BY <2>3, <3>1
        <4> QED
          BY <2>4, <4>2, <4>3
      <3>2. CASE ~Contains(Batch, i)
        BY <2>3, <3>2 DEF RowsInv, VectorsMatchChunks
      <3> QED
        BY <3>1, <3>2
    <2>6. DOMAIN rows' = 1 .. n
      BY <2>1, <2>3
    <2>7. parsed' = parsed
      BY <1>4 DEF EmbedBatch
    <2> QED
      BY <2>1, <2>5, <2>6, <2>7 DEF RowsInv, VectorsMatchChunks
  <1>5. UNCHANGED <<rows, parsed>> \/ DoclingParse \/ PersistChunks \/ EmbedBatch
    BY DEF Next, Work, Parse, ExtractMetadata, Embed, vars, Route, ConvertToPdf,
           OcrPdfToMarkdown, ProcessorFails, DoclingRaises, OcrIfScanned, ExtractLocally,
           AskEndpoint, TagAgain, Tag, TaggingFails, TaggerUnusable, CommitParsed, EmbedAgain,
           EmbedFails, MarkIndexed, SearchByDate
  <1> QED
    BY <1>1, <1>2, <1>3, <1>4, <1>5

\* Each chunk has the embedding of its own text or none (inference/jina.py:142).
THEOREM VectorsMatched == Spec => []VectorsMatchChunks
  <1>1. RowsInv => VectorsMatchChunks
    BY DEF RowsInv
  <1> QED
    BY <1>1, InitRowsInv, NextRowsInv, PTL DEF Spec

-----------------------------------------------------------------------------
(* The dates of a text and the entities of an answer.                      *)

Dates == [year : Nat, month : 0 .. 99, day : 0 .. 99]

\* A list without repetitions.
Once(list) == \A i, j \in DOMAIN list : list[i] = list[j] => i = j

\* Expression f has been over phrase i: e is over the first n phrases.
Reached(f, i, e, n) == f < e \/ (f = e /\ i <= n)

\* The first expression that matches the phrase.
Reads(f, phrase) ==
    /\ f \in 1 .. 4 /\ Matches(f, phrase)
    /\ \A g \in 1 .. 4 : g < f => ~Matches(g, phrase)

\* What has been claimed and found when expression e has been over the first n
\* phrases: the phrases that were matched, and what the first match of each says.
Progress(text, acc, e, n) ==
    /\ acc.claimed = {i \in DOMAIN text : \E f \in 1 .. 4 : Reached(f, i, e, n) /\ Matches(f, text[i])}
    /\ acc.found \in Seq(Dates) /\ Once(acc.found)
    /\ \A x : Contains(acc.found, x) <=>
           \E i \in DOMAIN text, f \in 1 .. 4 :
               Reached(f, i, e, n) /\ Reads(f, text[i]) /\ x = Iso(f, text[i])

\* AppendNew adds the element, if the list does not have it.
LEMMA AppendNewKeepsOnce ==
    ASSUME NEW S, NEW list \in Seq(S), Once(list), NEW x \in S
    PROVE  /\ AppendNew(list, x) \in Seq(S) /\ Once(AppendNew(list, x))
           /\ \A y : Contains(AppendNew(list, x), y) <=> Contains(list, y) \/ y = x
  <1>1. CASE Contains(list, x)
    BY <1>1 DEF AppendNew
  <1>2. CASE ~Contains(list, x)
    <2> DEFINE longer == Append(list, x)
    <2>1. AppendNew(list, x) = longer
      BY <1>2 DEF AppendNew
    <2>2. /\ longer \in Seq(S) /\ Len(longer) = Len(list) + 1 /\ longer[Len(list) + 1] = x
          /\ \A i \in 1 .. Len(list) : longer[i] = list[i]
          /\ DOMAIN longer = 1 .. Len(list) + 1 /\ DOMAIN list = 1 .. Len(list)
      OBVIOUS
    <2> HIDE DEF longer
    <2>3. \A i \in 1 .. Len(list) : list[i] # x
      BY <1>2 DEF Contains
    <2>4. Once(longer)
      BY <2>2, <2>3 DEF Once
    <2>5. \A y : Contains(longer, y) <=> Contains(list, y) \/ y = x
      <3>1. Len(list) + 1 \in DOMAIN longer /\ \A i \in DOMAIN longer : i = Len(list) + 1 \/ i \in DOMAIN list
        BY <2>2
      <3>2. \A i \in DOMAIN list : i \in DOMAIN longer
        BY <2>2
      <3> QED
        BY <2>2, <3>1, <3>2 DEF Contains
    <2> QED
      BY <2>1, <2>2, <2>4, <2>5
  <1> QED
    BY <1>1, <1>2

\* Which expressions match a phrase, and that what they find is a date.
LEMMA PhraseMatches ==
    ASSUME NEW phrase \in Phrases
    PROVE  /\ Matches(1, phrase) <=> phrase.form = "iso" /\ ValidMonthDay(phrase)
           /\ Matches(2, phrase) <=> phrase.form = "slash" /\ ValidMonthDay(phrase)
           /\ Matches(3, phrase) <=> phrase.form = "text" /\ ValidMonthDay(phrase)
           /\ Matches(4, phrase) <=> phrase.form \in {"text", "month"}
           /\ \A f \in 1 .. 4 : Iso(f, phrase) \in Dates
  <1>1. /\ Expressions[1] = {"iso"} /\ Expressions[2] = {"slash"}
        /\ Expressions[3] = {"text"} /\ Expressions[4] = {"text", "month"}
    BY DEF Expressions
  <1>2. \A f \in 1 .. 4 : Iso(f, phrase) \in Dates
    BY DEF Phrases, Iso, Dates
  <1> QED
    BY <1>1, <1>2 DEF Matches, MonthExpression

\* One more phrase.
LEMMA ScanStep ==
    ASSUME NEW text \in Seq(Phrases), NEW e \in 1 .. 4, NEW n \in 1 .. Len(text),
           NEW acc, Progress(text, acc, e, n - 1)
    PROVE  Progress(text, IF Matches(e, text[n])
                          THEN Add(text, acc, [expression |-> e, at |-> n]) ELSE acc, e, n)
  <1>1. n \in DOMAIN text /\ text[n] \in Phrases /\ Len(text) \in Nat /\ DOMAIN text = 1 .. Len(text)
    OBVIOUS
  <1>2. \A i \in DOMAIN text, f \in 1 .. 4 :
            Reached(f, i, e, n) <=> Reached(f, i, e, n - 1) \/ (f = e /\ i = n)
    BY <1>1 DEF Reached
  <1>3. \A f \in 1 .. 4 : Reached(f, n, e, n - 1) <=> f < e
    BY <1>1 DEF Reached
  <1>4. CASE ~Matches(e, text[n])
    <2>1. \A i \in DOMAIN text, f \in 1 .. 4 :
              Matches(f, text[i]) => (Reached(f, i, e, n) <=> Reached(f, i, e, n - 1))
      BY <1>2, <1>4
    <2> QED
      BY <1>4, <2>1 DEF Progress, Reads
  <1>5. CASE Matches(e, text[n]) /\ n \in acc.claimed
    <2>1. PICK g \in 1 .. 4 : Reached(g, n, e, n - 1) /\ Matches(g, text[n])
      BY <1>5 DEF Progress
    <2>2. g < e
      BY <1>3, <2>1
    <2>3. ~Reads(e, text[n])
      BY <2>1, <2>2 DEF Reads
    <2>4. Add(text, acc, [expression |-> e, at |-> n]) = acc
      BY <1>5 DEF Add
    <2>5. {i \in DOMAIN text : \E f \in 1 .. 4 : Reached(f, i, e, n) /\ Matches(f, text[i])}
              = {i \in DOMAIN text : \E f \in 1 .. 4 : Reached(f, i, e, n - 1) /\ Matches(f, text[i])}
      BY <1>2, <2>1
    <2>6. \A i \in DOMAIN text, f \in 1 .. 4 :
              Reads(f, text[i]) => (Reached(f, i, e, n) <=> Reached(f, i, e, n - 1))
      BY <1>2, <2>3
    <2> QED
      BY <1>5, <2>4, <2>5, <2>6 DEF Progress
  <1>6. CASE Matches(e, text[n]) /\ n \notin acc.claimed
    <2> DEFINE iso == Iso(e, text[n])
               next == [claimed |-> acc.claimed \cup {n}, found |-> AppendNew(acc.found, iso)]
    <2>1. Add(text, acc, [expression |-> e, at |-> n]) = next
      BY <1>6 DEF Add
    <2>2. iso \in Dates
      BY <1>1, PhraseMatches
    <2>3. \A g \in 1 .. 4 : g < e => ~Matches(g, text[n])
      BY <1>1, <1>3, <1>6 DEF Progress
    <2>4. Reads(e, text[n])
      BY <1>6, <2>3 DEF Reads
    <2>5. next.claimed = {i \in DOMAIN text : \E f \in 1 .. 4 : Reached(f, i, e, n) /\ Matches(f, text[i])}
      BY <1>1, <1>2, <1>6 DEF Progress
    <2>6. /\ next.found \in Seq(Dates) /\ Once(next.found)
          /\ \A x : Contains(next.found, x) <=> Contains(acc.found, x) \/ x = iso
      BY <2>2, AppendNewKeepsOnce DEF Progress
    <2> HIDE DEF next
    <2>7. \A x : Contains(next.found, x) <=>
              \E i \in DOMAIN text, f \in 1 .. 4 :
                  Reached(f, i, e, n) /\ Reads(f, text[i]) /\ x = Iso(f, text[i])
      BY <1>1, <1>2, <2>4, <2>6 DEF Progress
    <2> QED
      BY <1>6, <2>1, <2>5, <2>6, <2>7 DEF Progress
  <1> QED
    BY <1>4, <1>5, <1>6

\* One expression goes over the phrases one after the other.
LEMMA ScanProgress ==
    ASSUME NEW text \in Seq(Phrases), NEW e \in 1 .. 4, NEW acc, Progress(text, acc, e, 0)
    PROVE  Progress(text, Scan(text, acc, e), e, Len(text))
  <1> DEFINE n == Len(text)
             After(a, i) == IF Matches(e, text[i])
                            THEN Add(text, a, [expression |-> e, at |-> i]) ELSE a
             Step(g, m) == [i \in 0 .. m |-> IF i = 0 THEN acc ELSE After(g[i - 1], i)]
             w == CHOOSE g : g = Step(g, n)
             Built == {m \in Nat : \E g : g = Step(g, m)}
             Kept == {m \in Nat : m <= n => Progress(text, w[m], e, m)}
  <1>0. n \in Nat
    OBVIOUS
  <1>1. Scan(text, acc, e) = w[n]
    BY Zenon DEF Scan
  <1>2. 0 \in Built
    <2> DEFINE g == [i \in 0 .. 0 |-> acc]
    <2>1. g = Step(g, 0)
      OBVIOUS
    <2> QED
      BY <2>1
  <1> HIDE DEF After
  <1>3. ASSUME NEW m \in Nat, m \in Built PROVE m + 1 \in Built
    <2>1. PICK g : g = Step(g, m)
      BY <1>3
    <2> DEFINE h == Step(g, m + 1)
    <2>2. \A i \in 0 .. m : h[i] = g[i]
      BY <2>1
    <2>3. \A i \in 0 .. m + 1 : i # 0 => i - 1 \in 0 .. m
      OBVIOUS
    <2>4. h = Step(h, m + 1)
      BY <2>2, <2>3
    <2> HIDE DEF h, Step
    <2> QED
      BY <2>4
  <1>4. n \in Built
    <2> HIDE DEF Built
    <2> QED
      BY <1>0, <1>2, <1>3, SetInduction
  <1>5. w = Step(w, n)
    BY <1>4
  <1> HIDE DEF w
  <1>6. w[0] = acc /\ \A i \in 1 .. n : w[i] = After(w[i - 1], i)
    BY <1>0, <1>5
  <1>7. 0 \in Kept
    BY <1>6
  <1>8. ASSUME NEW m \in Nat, m \in Kept PROVE m + 1 \in Kept
    <2> SUFFICES ASSUME m + 1 <= n PROVE Progress(text, w[m + 1], e, m + 1)
      OBVIOUS
    <2>1. m + 1 \in 1 .. n /\ (m + 1) - 1 = m
      BY <1>0
    <2>2. Progress(text, w[m], e, (m + 1) - 1)
      BY <1>0, <1>8, <2>1
    <2>3. Progress(text, After(w[m], m + 1), e, m + 1)
      BY <2>1, <2>2, ScanStep DEF After
    <2> QED
      BY <1>6, <2>1, <2>3
  <1>9. n \in Kept
    <2> HIDE DEF Kept
    <2> QED
      BY <1>0, <1>7, <1>8, SetInduction
  <1> QED
    BY <1>0, <1>1, <1>9

\* The next expression starts where this one has been over the whole text.
LEMMA ScanHandsOn ==
    ASSUME NEW text \in Seq(Phrases), NEW e \in 1 .. 3, NEW acc, Progress(text, acc, e, Len(text))
    PROVE  Progress(text, acc, e + 1, 0)
  <1>1. \A i \in DOMAIN text, f \in 1 .. 4 : Reached(f, i, e, Len(text)) <=> Reached(f, i, e + 1, 0)
    BY DEF Reached
  <1> QED
    BY <1>1 DEF Progress

\* The dates of a text: each once, what the first match of a phrase says.
LEMMA DatesOfText ==
    ASSUME NEW text \in Seq(Phrases)
    PROVE  /\ ExtractDates(text) \in Seq(Dates) /\ Once(ExtractDates(text))
           /\ \A x : Contains(ExtractDates(text), x) <=>
                  \E i \in DOMAIN text, f \in 1 .. 4 : Reads(f, text[i]) /\ x = Iso(f, text[i])
  <1> DEFINE one == Scan(text, NothingFound, 1)
             two == Scan(text, one, 2)
             three == Scan(text, two, 3)
             four == Scan(text, three, 4)
  <1>1. ExtractDates(text) = four.found
    BY DEF ExtractDates
  <1>2. Progress(text, NothingFound, 1, 0)
    <2>1. \A i \in DOMAIN text, f \in 1 .. 4 : ~Reached(f, i, 1, 0)
      BY DEF Reached
    <2>2. NothingFound.claimed = {} /\ NothingFound.found = <<>>
      BY DEF NothingFound
    <2>3. Len(<<>>) = 0 /\ \A x : ~Contains(<<>>, x)
      BY DEF Contains
    <2>4. <<>> \in Seq(Dates) /\ Once(<<>>)
      BY DEF Once
    <2> QED
      BY <2>1, <2>2, <2>3, <2>4 DEF Progress
  <1>3. Progress(text, one, 1, Len(text))
    BY <1>2, ScanProgress
  <1> HIDE DEF one
  <1>4. Progress(text, two, 2, Len(text))
    BY <1>3, ScanHandsOn, ScanProgress
  <1> HIDE DEF two
  <1>5. Progress(text, three, 3, Len(text))
    BY <1>4, ScanHandsOn, ScanProgress
  <1> HIDE DEF three
  <1>6. Progress(text, four, 4, Len(text))
    BY <1>5, ScanHandsOn, ScanProgress
  <1> HIDE DEF four
  <1>7. \A i \in DOMAIN text, f \in 1 .. 4 : Reached(f, i, 4, Len(text))
    BY DEF Reached
  <1> QED
    BY <1>1, <1>6, <1>7 DEF Progress

\* An entity is listed once.
LEMMA EntitiesOnce ==
    ASSUME NEW spans \in Seq(Spans)
    PROVE  Once(EntitiesFromTagged(spans))
  <1> DEFINE n == Len(spans)
             entity(span) == [word |-> span.word, label |-> PrimaryLabel[span.group]]
             Entities == {entity(spans[i]) : i \in 1 .. n}
             After(a, i) == IF Indexable(spans[i]) THEN AppendNew(a, entity(spans[i])) ELSE a
             Step(g, m) == [i \in 0 .. m |-> IF i = 0 THEN <<>> ELSE After(g[i - 1], i)]
             w == CHOOSE g : g = Step(g, n)
             Built == {m \in Nat : \E g : g = Step(g, m)}
             Kept == {m \in Nat : m <= n => w[m] \in Seq(Entities) /\ Once(w[m])}
  <1>0. n \in Nat
    OBVIOUS
  <1>1. EntitiesFromTagged(spans) = w[n]
    BY Zenon DEF EntitiesFromTagged
  <1>2. 0 \in Built
    <2> DEFINE g == [i \in 0 .. 0 |-> <<>>]
    <2>1. g = Step(g, 0)
      OBVIOUS
    <2> QED
      BY <2>1
  <1> HIDE DEF After
  <1>3. ASSUME NEW m \in Nat, m \in Built PROVE m + 1 \in Built
    <2>1. PICK g : g = Step(g, m)
      BY <1>3
    <2> DEFINE h == Step(g, m + 1)
    <2>2. \A i \in 0 .. m : h[i] = g[i]
      BY <2>1
    <2>3. \A i \in 0 .. m + 1 : i # 0 => i - 1 \in 0 .. m
      OBVIOUS
    <2>4. h = Step(h, m + 1)
      BY <2>2, <2>3
    <2> HIDE DEF h, Step
    <2> QED
      BY <2>4
  <1>4. n \in Built
    <2> HIDE DEF Built
    <2> QED
      BY <1>0, <1>2, <1>3, SetInduction
  <1>5. w = Step(w, n)
    BY <1>4
  <1> HIDE DEF w
  <1>6. w[0] = <<>> /\ \A i \in 1 .. n : w[i] = After(w[i - 1], i)
    BY <1>0, <1>5
  <1>7. 0 \in Kept
    <2>1. <<>> \in Seq(Entities) /\ Once(<<>>)
      BY DEF Once
    <2> QED
      BY <1>6, <2>1
  <1>8. ASSUME NEW m \in Nat, m \in Kept PROVE m + 1 \in Kept
    <2> SUFFICES ASSUME m + 1 <= n PROVE w[m + 1] \in Seq(Entities) /\ Once(w[m + 1])
      OBVIOUS
    <2>1. m + 1 \in 1 .. n /\ (m + 1) - 1 = m
      BY <1>0
    <2>2. w[m] \in Seq(Entities) /\ Once(w[m])
      BY <1>0, <1>8, <2>1
    <2>3. entity(spans[m + 1]) \in Entities
      BY <2>1
    <2>4. w[m + 1] = After(w[m], m + 1)
      BY <1>6, <2>1
    <2> HIDE DEF entity, Entities
    <2>5. CASE Indexable(spans[m + 1])
      BY <2>2, <2>3, <2>4, <2>5, AppendNewKeepsOnce DEF After
    <2>6. CASE ~Indexable(spans[m + 1])
      BY <2>2, <2>4, <2>6 DEF After
    <2> QED
      BY <2>5, <2>6
  <1>9. n \in Kept
    <2> HIDE DEF Kept
    <2> QED
      BY <1>0, <1>7, <1>8, SetInduction
  <1> QED
    BY <1>0, <1>1, <1>9

\* The day a reader takes a phrase for, real or not.
DayOf(phrase) ==
    [year |-> phrase.year, month |-> phrase.month,
     day |-> IF phrase.form = "month" \/ (phrase.form = "text" /\ phrase.day \notin 1 .. 31)
             THEN 1 ELSE phrase.day]

\* TextDates are the days the calendar has; no month has more than 31.
LEMMA TextDatesAreDays ==
    \A text, date : date \in TextDates(text) <=>
        /\ \E k \in DOMAIN text : date = DayOf(text[k])
        /\ date.month \in 1 .. 12 /\ date.day \in 1 .. 31
        /\ date.day <= DaysInMonth(date.year, date.month)
  <1>1. \A text, date : date \in TextDates(text) <=>
            /\ \E k \in DOMAIN text : date = DayOf(text[k])
            /\ date.month \in 1 .. 12 /\ date.day \in 1 .. DaysInMonth(date.year, date.month)
    BY DEF TextDates, DayOf
  <1>2. \A year, month : DaysInMonth(year, month) \in 28 .. 31
    BY DEF DaysInMonth
  <1>3. \A n \in 28 .. 31 : \A d : d \in 1 .. n <=> d \in 1 .. 31 /\ d <= n
    OBVIOUS
  <1>4. \A year, month, d : d \in 1 .. DaysInMonth(year, month) <=>
                              d \in 1 .. 31 /\ d <= DaysInMonth(year, month)
    BY <1>2, <1>3
  <1> QED
    BY <1>1, <1>4

\* What is found of a phrase is the day it is taken for, and without a day only if
\* it is a month, or the tail of a date with no such day.
LEMMA ReadsTheDay ==
    ASSUME NEW phrase \in Phrases, NEW f \in 1 .. 4, Reads(f, phrase)
    PROVE  /\ AsDate(Iso(f, phrase)) = DayOf(phrase)
           /\ Iso(f, phrase).year = phrase.year /\ Iso(f, phrase).month = phrase.month
           /\ phrase.month \in 1 .. 12 /\ DayOf(phrase).day \in 1 .. 31
           /\ Iso(f, phrase).day = 0 =>
                  phrase.form = "month" \/ (phrase.form = "text" /\ phrase.day \notin 1 .. 31)
  <1>1. phrase.form \in Forms /\ phrase.day \in 0 .. 99 /\ phrase.month \in 0 .. 99
        /\ (phrase.form \in {"text", "month"} => phrase.month \in 1 .. 12)
    BY DEF Phrases
  <1>2. f \in {1, 2, 3, 4} /\ Matches(f, phrase) /\ (f = 4 => ~Matches(3, phrase))
    BY DEF Reads
  <1>3. CASE f = 4
    <2>1. phrase.form \in {"text", "month"} /\ ~(phrase.form = "text" /\ ValidMonthDay(phrase))
      BY <1>2, <1>3, PhraseMatches
    <2>2. phrase.form = "month" \/ (phrase.form = "text" /\ phrase.day \notin 1 .. 31)
      BY <1>1, <2>1 DEF ValidMonthDay
    <2>3. Iso(f, phrase) = [year |-> phrase.year, month |-> phrase.month, day |-> 0]
      BY <1>3 DEF Iso, MonthExpression
    <2> QED
      BY <1>1, <2>1, <2>2, <2>3 DEF AsDate, DayOf
  <1>4. CASE f \in 1 .. 3
    <2>1. phrase.form \in {"iso", "slash", "text"} /\ ValidMonthDay(phrase)
      BY <1>2, <1>4, PhraseMatches
    <2>2. Iso(f, phrase) = [year |-> phrase.year, month |-> phrase.month, day |-> phrase.day]
      BY <1>4 DEF Iso, MonthExpression
    <2> QED
      BY <1>1, <2>1, <2>2 DEF AsDate, DayOf, ValidMonthDay
  <1> QED
    BY <1>2, <1>3, <1>4

\* A phrase that is taken for a real day is read.
LEMMA RealDaysAreRead ==
    ASSUME NEW phrase \in Phrases, DayOf(phrase).month \in 1 .. 12, DayOf(phrase).day \in 1 .. 31
    PROVE  \E f \in 1 .. 4 : Reads(f, phrase)
  <1>1. phrase.form \in Forms /\ phrase.month \in 1 .. 12
    BY DEF Phrases, DayOf
  <1>2. phrase.form = "iso" \/ phrase.form = "slash" => ValidMonthDay(phrase)
    BY <1>1 DEF ValidMonthDay, DayOf
  <1>3. \E g \in 1 .. 4 : Matches(g, phrase)
    BY <1>1, <1>2, PhraseMatches DEF Forms
  <1>4. CASE Matches(1, phrase)
    BY <1>4 DEF Reads
  <1>5. CASE ~Matches(1, phrase) /\ Matches(2, phrase)
    BY <1>5 DEF Reads
  <1>6. CASE ~Matches(1, phrase) /\ ~Matches(2, phrase) /\ Matches(3, phrase)
    BY <1>6 DEF Reads
  <1>7. CASE ~Matches(1, phrase) /\ ~Matches(2, phrase) /\ ~Matches(3, phrase) /\ Matches(4, phrase)
    BY <1>7 DEF Reads
  <1> QED
    BY <1>3, <1>4, <1>5, <1>6, <1>7

\* The numbers of a date, and of a day that a range begins or ends with.
LEMMA DateNumbers ==
    /\ \A d \in Dates : d.year \in Nat /\ d.month \in 0 .. 99 /\ d.day \in 0 .. 99
    /\ \A d \in Days : d \in Dates
    /\ \A phrase \in Phrases : DayOf(phrase) \in Dates
  <1>1. \A d \in Dates : d.year \in Nat /\ d.month \in 0 .. 99 /\ d.day \in 0 .. 99
    BY DEF Dates
  <1>2. ASSUME NEW d \in Days PROVE d \in Dates
    <2>1. d = [year |-> d.year, month |-> d.month, day |-> d.day]
      BY DEF Days
    <2>2. d.year \in Nat /\ d.month \in 1 .. 12 /\ d.day \in 1 .. 31
      BY DEF Days
    <2>3. d.year \in Nat /\ d.month \in 0 .. 99 /\ d.day \in 0 .. 99
      BY <2>2
    <2> QED
      BY <2>1, <2>3 DEF Dates
  <1>3. ASSUME NEW phrase \in Phrases PROVE DayOf(phrase) \in Dates
    <2>1. phrase.year \in Nat /\ phrase.month \in 0 .. 99 /\ phrase.day \in 0 .. 99
      BY DEF Phrases
    <2> QED
      BY <2>1 DEF DayOf, Dates
  <1> QED
    BY <1>1, <1>2, <1>3

\* Comparing the digits is comparing the dates.
LEMMA NotAfterIsNotEarlier == \A d, e \in Dates : NotAfter(d, e) <=> ~Earlier(e, d)
  <1> SUFFICES ASSUME NEW d \in Dates, NEW e \in Dates PROVE NotAfter(d, e) <=> ~Earlier(e, d)
    OBVIOUS
  <1>1. d.year \in Nat /\ d.month \in 0 .. 99 /\ d.day \in 0 .. 99
    BY DateNumbers
  <1>2. e.year \in Nat /\ e.month \in 0 .. 99 /\ e.day \in 0 .. 99
    BY DateNumbers
  <1>3. NotAfter(d, e) <=>
            10000 * d.year + 100 * d.month + d.day <= 10000 * e.year + 100 * e.month + e.day
    BY DEF NotAfter
  <1>4. Earlier(e, d) <=> \/ e.year < d.year
                          \/ e.year = d.year /\ e.month < d.month
                          \/ e.year = d.year /\ e.month = d.month /\ e.day < d.day
    BY DEF Earlier
  <1> QED
    <2> DEFINE y == d.year
               m == d.month
               k == d.day
               z == e.year
               n == e.month
               l == e.day
    <2>1. y \in Nat /\ m \in 0 .. 99 /\ k \in 0 .. 99
      BY <1>1
    <2>2. NotAfter(d, e) <=> 10000 * y + 100 * m + k <= 10000 * z + 100 * n + l
      BY <1>3
    <2>3. z \in Nat /\ n \in 0 .. 99 /\ l \in 0 .. 99
      BY <1>2
    <2>4. Earlier(e, d) <=> z < y \/ (z = y /\ n < m) \/ (z = y /\ n = m /\ l < k)
      BY <1>4
    <2> HIDE DEF y, m, k, z, n, l
    <2> QED
      BY <2>1, <2>2, <2>3, <2>4

\* A filter that answers, answers what a reader of the text would.
LEMMA FilterReads ==
    ASSUME NEW text \in Seq(Phrases), NEW range \in [from : Days, to : Days],
           NEW answer \in DateFilter(ExtractDates(text), range), answer # "raises"
    PROVE  answer = "found" <=>
               \E date \in TextDates(text) : ~Earlier(date, range.from) /\ ~Earlier(range.to, date)
  <1> DEFINE dates == ExtractDates(text)
             read == {dates[i] : i \in DOMAIN dates}
             cast == {iso \in read : CastsToDate(iso)}
             match == {iso \in cast : Within(AsDate(iso), range)}
  <1>1. /\ answer \in {"found", "not found"}
        /\ answer = "found" => match # {}
        /\ answer = "not found" => cast = read /\ match = {}
    BY DEF DateFilter
  <1>2. \A x : x \in read <=> \E i \in DOMAIN text, f \in 1 .. 4 : Reads(f, text[i]) /\ x = Iso(f, text[i])
    <2>1. dates \in Seq(Dates) /\ DOMAIN dates = 1 .. Len(dates)
      BY DatesOfText
    <2>2. \A x : x \in read <=> Contains(dates, x)
      BY <2>1 DEF Contains
    <2> HIDE DEF read, dates
    <2>3. \A x : Contains(dates, x) <=>
              \E i \in DOMAIN text, f \in 1 .. 4 : Reads(f, text[i]) /\ x = Iso(f, text[i])
      BY DatesOfText DEF dates
    <2> QED
      BY <2>2, <2>3
  <1> HIDE DEF read
  <1>3. range.from \in Dates /\ range.to \in Dates
    BY DateNumbers
  <1>4. \A i \in DOMAIN text : text[i] \in Phrases /\ DayOf(text[i]) \in Dates
    BY DateNumbers
  <1>5. ASSUME answer = "found"
        PROVE  \E date \in TextDates(text) : ~Earlier(date, range.from) /\ ~Earlier(range.to, date)
    <2>1. PICK iso \in read : CastsToDate(iso) /\ Within(AsDate(iso), range)
      BY <1>1, <1>5
    <2>2. PICK i \in DOMAIN text, f \in 1 .. 4 : Reads(f, text[i]) /\ iso = Iso(f, text[i])
      BY <1>2, <2>1
    <2> DEFINE day == DayOf(text[i])
    <2>3. /\ AsDate(iso) = day /\ iso.year = text[i].year /\ iso.month = text[i].month
          /\ text[i].month \in 1 .. 12 /\ day.day \in 1 .. 31
      BY <1>4, <2>2, ReadsTheDay
    <2>4. day.year = text[i].year /\ day.month = text[i].month
      BY DEF DayOf
    <2>5. day.day <= DaysInMonth(day.year, day.month)
      BY <2>1, <2>3, <2>4 DEF CastsToDate
    <2>6. day \in TextDates(text)
      BY <2>3, <2>4, <2>5, TextDatesAreDays
    <2>7. NotAfter(range.from, day) /\ NotAfter(day, range.to)
      BY <2>1, <2>3 DEF Within
    <2> HIDE DEF day
    <2>8. ~Earlier(day, range.from) /\ ~Earlier(range.to, day)
      BY <1>3, <1>4, <2>7, NotAfterIsNotEarlier DEF day
    <2> QED
      BY <2>6, <2>8
  <1>6. ASSUME NEW date \in TextDates(text), ~Earlier(date, range.from), ~Earlier(range.to, date)
        PROVE  answer = "found"
    <2>1. PICK k \in DOMAIN text : date = DayOf(text[k])
      BY TextDatesAreDays
    <2>2. date.month \in 1 .. 12 /\ date.day \in 1 .. 31
      BY TextDatesAreDays
    <2>3. PICK f \in 1 .. 4 : Reads(f, text[k])
      BY <1>4, <2>1, <2>2, RealDaysAreRead
    <2> DEFINE iso == Iso(f, text[k])
    <2>4. iso \in read
      BY <1>2, <2>1, <2>3
    <2>5. AsDate(iso) = date
      BY <1>4, <2>1, <2>3, ReadsTheDay
    <2>6. Within(AsDate(iso), range)
      BY <1>3, <1>4, <1>6, <2>1, <2>5, NotAfterIsNotEarlier DEF Within
    <2> HIDE DEF iso
    <2> QED
      BY <1>1, <2>4, <2>6
  <1> QED
    BY <1>5, <1>6

\* The row of the document is what its text and the tagger's answer come to; a
\* search has seen the row that the document ended with.
MetadataInv ==
    /\ metadata.text \in Seq(Phrases)
    /\ metadata.dates = <<>> \/ metadata.dates = ExtractDates(metadata.text)
    /\ metadata.exists => metadata.dates = ExtractDates(metadata.text)
    /\ Once(metadata.entities.list)
    /\ document.status = "indexed" \/ asked.answer # "none" => pc = "done"
    /\ FoundByItsDates

\* There is no row and no search when the task starts.
LEMMA InitMetadataInv == Init => MetadataInv
  <1> SUFFICES ASSUME Init PROVE MetadataInv
    OBVIOUS
  <1>1. /\ metadata.text = <<>> /\ metadata.dates = <<>> /\ ~metadata.exists
        /\ metadata.entities.list = <<>> /\ asked.answer = "none" /\ document.status = "parsing"
    BY DEF Init, NoRow, Null, NotAsked
  <1> QED
    BY <1>1 DEF MetadataInv, FoundByItsDates, Once

\* Writing the row.
LEMMA UpsertMetadataInv ==
    ASSUME MetadataInv, pc # "done", NEW text \in Text, NEW spans \in Taggings,
           Upsert(text, spans), UNCHANGED <<document, asked>>
    PROVE  MetadataInv'
  <1>1. text \in Seq(Phrases) /\ spans \in Seq(Spans)
    <2>1. text = <<>> \/ text \in Texts
      BY DEF Text
    <2>2. <<>> \in Seq(Phrases)
      OBVIOUS
    <2> QED
      BY <2>1, <2>2, PipelineAssumption
  <1>2. /\ metadata'.text = text /\ metadata'.dates = ExtractDates(text)
        /\ \/ metadata'.entities.list = <<>>
           \/ metadata'.entities.list = EntitiesFromTagged(spans)
    BY DEF Upsert, Null, Value
  <1>3. Once(metadata'.entities.list)
    <2>1. Once(<<>>)
      BY DEF Once
    <2> QED
      BY <1>1, <1>2, <2>1, EntitiesOnce
  <1>4. asked.answer = "none" /\ document.status # "indexed"
    BY DEF MetadataInv
  <1> QED
    BY <1>1, <1>2, <1>3, <1>4 DEF MetadataInv, FoundByItsDates

\* A search reads the row.
LEMMA SearchMetadataInv == ASSUME MetadataInv, SearchByDate PROVE MetadataInv'
  <1> PICK range \in Ranges :
           \E answer \in DateFilter(metadata.dates, range) : asked' = [range |-> range, answer |-> answer]
    BY DEF SearchByDate
  <1>1. PICK answer \in DateFilter(metadata.dates, range) : asked' = [range |-> range, answer |-> answer]
    OBVIOUS
  <1>2. asked'.range = range /\ asked'.answer = answer /\ range \in [from : Days, to : Days]
    BY <1>1, PipelineAssumption
  <1>3. UNCHANGED <<metadata, document, pc>> /\ pc = "done"
    BY DEF SearchByDate, MetadataInv
  <1>4. ASSUME answer \in {"found", "not found"}, metadata.exists
        PROVE  answer = "found" <=>
                   \E date \in TextDates(metadata.text) :
                       ~Earlier(date, range.from) /\ ~Earlier(range.to, date)
    <2>1. answer \in DateFilter(ExtractDates(metadata.text), range) /\ metadata.text \in Seq(Phrases)
      BY <1>1, <1>4 DEF MetadataInv
    <2> QED
      BY <1>2, <1>4, <2>1, FilterReads
  <1>5. FoundByItsDates'
    BY <1>2, <1>3, <1>4 DEF FoundByItsDates
  <1> QED
    BY <1>3, <1>5 DEF MetadataInv

\* Every step keeps the invariant.
LEMMA NextMetadataInv == ASSUME IInv, MetadataInv, [Next]_vars PROVE MetadataInv'
  <1>0. /\ Fail => document'.status = "failed"
        /\ document' = [document EXCEPT !.version = "metadata_only"] => document'.status = document.status
        /\ document' = [document EXCEPT !.version = parsed.version] => document'.status = document.status
        /\ document' = [document EXCEPT !.status = "parsed"] => document'.status = "parsed"
    BY DEF IInv, Fail
  <1>1. CASE ExtractLocally
    <2>1. PICK text \in Text, spans \in Taggings : Upsert(text, spans)
      BY <1>1 DEF ExtractLocally
    <2>2. pc # "done" /\ UNCHANGED <<document, asked>>
      BY <1>1 DEF ExtractLocally
    <2> QED
      BY <2>1, <2>2, UpsertMetadataInv
  <1>2. CASE Tag
    <2>1. PICK text \in Text, spans \in Taggings : Upsert(text, spans)
      BY <1>2 DEF Tag
    <2>2. pc # "done" /\ UNCHANGED <<document, asked>>
      BY <1>2 DEF Tag
    <2> QED
      BY <2>1, <2>2, UpsertMetadataInv
  <1>3. CASE SearchByDate
    BY <1>3, SearchMetadataInv
  <1>4. CASE UNCHANGED vars
    BY <1>4 DEF vars, MetadataInv, FoundByItsDates
  <1>5. CASE /\ UNCHANGED <<metadata, asked>> /\ pc # "done"
             /\ document'.status = "indexed" => pc' = "done" \/ document'.status = document.status
    BY <1>5 DEF MetadataInv, FoundByItsDates
  <1>6. CASE Parse
    <2>1. UNCHANGED <<metadata, asked>> /\ pc # "done"
      BY <1>6 DEF Parse, Route, ConvertToPdf, OcrPdfToMarkdown, ProcessorFails, DoclingParse,
                  DoclingRaises, OcrIfScanned, PersistChunks
    <2>2. document'.status = "indexed" => document'.status = document.status
      BY <1>0, <1>6 DEF Parse, Route, ConvertToPdf, OcrPdfToMarkdown, ProcessorFails,
                        DoclingParse, DoclingRaises, OcrIfScanned, PersistChunks
    <2> QED
      BY <1>5, <2>1, <2>2
  <1>7. CASE AskEndpoint \/ TagAgain \/ TaggingFails \/ TaggerUnusable \/ CommitParsed
             \/ EmbedBatch \/ EmbedAgain \/ EmbedFails \/ MarkIndexed
    <2>1. UNCHANGED <<metadata, asked>> /\ pc # "done"
      BY <1>7 DEF AskEndpoint, TagAgain, TaggingFails, TaggerUnusable, CommitParsed, EmbedBatch,
                  EmbedAgain, EmbedFails, MarkIndexed
    <2>2. document'.status = "indexed" => pc' = "done" \/ document'.status = document.status
      BY <1>0, <1>7 DEF AskEndpoint, TagAgain, TaggingFails, TaggerUnusable, CommitParsed,
                        EmbedBatch, EmbedAgain, EmbedFails, MarkIndexed
    <2> QED
      BY <1>5, <2>1, <2>2
  <1> QED
    BY <1>1, <1>2, <1>3, <1>4, <1>6, <1>7 DEF Next, Work, ExtractMetadata, Embed

\* Metadata lists a date and an entity once, and a month without a day only for
\* a text that has one (_add of documents/metadata.py:83).
THEOREM MetadataListed == Spec => []MetadataListsOnce
  <1>1. ASSUME MetadataInv PROVE MetadataListsOnce
    <2> DEFINE text == metadata.text
               dates == metadata.dates
    <2>1. \A x : Contains(dates, x) =>
              \E i \in DOMAIN text, f \in 1 .. 4 : Reads(f, text[i]) /\ x = Iso(f, text[i])
      <3>1. \A x : ~Contains(<<>>, x)
        BY DEF Contains
      <3> QED
        BY <1>1, <3>1, DatesOfText DEF MetadataInv
    <2>2. dates \in Seq(Dates) /\ Once(dates)
      <3>1. <<>> \in Seq(Dates) /\ Once(<<>>)
        BY DEF Once
      <3> QED
        BY <1>1, <3>1, DatesOfText DEF MetadataInv
    <2>3. text \in Seq(Phrases) /\ Once(metadata.entities.list)
      BY <1>1 DEF MetadataInv
    <2> HIDE DEF text, dates
    <2>4. ASSUME NEW i \in DOMAIN dates, dates[i].day = 0
          PROVE  \E k \in DOMAIN text :
                     /\ text[k].month = dates[i].month
                     /\ \/ text[k].form = "month"
                        \/ text[k].form = "text" /\ text[k].day \notin 1 .. 31
      <3>1. Contains(dates, dates[i])
        BY <2>2 DEF Contains
      <3>2. PICK k \in DOMAIN text, f \in 1 .. 4 : Reads(f, text[k]) /\ dates[i] = Iso(f, text[k])
        BY <2>1, <3>1
      <3>3. text[k] \in Phrases
        BY <2>3
      <3> QED
        BY <2>4, <3>2, <3>3, ReadsTheDay
    <2> QED
      BY <2>2, <2>3, <2>4 DEF MetadataListsOnce, Once, text, dates
  <1> QED
    BY <1>1, Invariance, InitMetadataInv, NextMetadataInv, PTL DEF Spec

\* A search by date that answers finds exactly the documents whose text has a
\* date in the range (_DATE_FILTER of search/service.py:167).
THEOREM FoundByDates == Spec => []FoundByItsDates
  <1>1. MetadataInv => FoundByItsDates
    BY DEF MetadataInv
  <1> QED
    BY <1>1, Invariance, InitMetadataInv, NextMetadataInv, PTL DEF Spec


-----------------------------------------------------------------------------
(* The task ends: what of Settles does not need fairness.                  *)

\* How many steps of the task come after this one, the longest way.
StepsAfter(step, file) ==
    CASE step = "routing" -> 11
      [] step = "converting" -> 10
      [] step = "parsing" /\ file # "ocr.md" -> 9
      [] step = "measuring" -> 8
      [] step = "ocr" -> 7
      [] step = "parsing" /\ file = "ocr.md" -> 6
      [] step = "persisting" -> 5
      [] step = "metadata" -> 4
      [] step = "tagging" -> 3
      [] step = "committing" -> 2
      [] step = "embedding" -> 1
      [] OTHER -> 0

NotEmbedded == {i \in DOMAIN rows : rows[i] = 0}

\* The attempts the call under way may still make.
AttemptsLeft ==
    CASE pc = "tagging" -> NerRetries - call.attempt
      [] pc = "embedding" -> EmbedRetries - call.attempt
      [] OTHER -> 0

\* The work left: steps, then chunks without an embedding, then attempts.
Variant == <<StepsAfter(pc, reading), Cardinality(NotEmbedded), AttemptsLeft>>

\* Attempts are counted from none, up to the retries of the service called; a
\* task that has ended has decided about its document; and what is searchable
\* has all its embeddings.
AInv ==
    /\ DOMAIN call = {"attempt", "waited", "answer"}
    /\ call.attempt \in Nat
    /\ pc \in {"routing", "converting", "parsing", "measuring", "ocr", "persisting", "metadata"}
          => call.attempt = 0
    /\ pc = "tagging" => call.attempt \in 0 .. NerRetries
    /\ pc = "embedding" => call.attempt \in 0 .. EmbedRetries
    /\ pc = "done" <=> document.status \in {"indexed", "failed"}
    /\ document.status = "indexed" => NotEmbedded = {}

\* Nothing has been asked when the task starts.
LEMMA InitAInv == Init => AInv
  BY DEF Init, AInv, NoCall

\* Chunks are numbered from 1, so there are finitely many without an embedding.
LEMMA NotEmbeddedIsFinite ==
    ASSUME NEW n \in Nat, DOMAIN rows = 1 .. n
    PROVE  IsFiniteSet(NotEmbedded) /\ Cardinality(NotEmbedded) \in Nat
  <1>1. IsFiniteSet(1 .. n) /\ NotEmbedded \subseteq 1 .. n
    BY FS_Interval DEF NotEmbedded
  <1>2. IsFiniteSet(NotEmbedded)
    BY <1>1, FS_Subset
  <1> QED
    BY <1>2, FS_CardinalityType

\* There is nothing to embed exactly if no chunk is without an embedding.
LEMMA PendingIsEmpty ==
    ASSUME NEW n \in Nat, DOMAIN rows = 1 .. n
    PROVE  Pending = <<>> <=> NotEmbedded = {}
  <1>1. IsFiniteSet(NotEmbedded) /\ NotEmbedded \in SUBSET Nat
    <2>1. NotEmbedded \in SUBSET Nat
      BY DEF NotEmbedded
    <2> QED
      BY <2>1, NotEmbeddedIsFinite
  <1>2. Pending = InOrder(NotEmbedded)
    BY DEF Pending, NotEmbedded
  <1> DEFINE c == Cardinality(NotEmbedded)
  <1>3. /\ c \in Nat
        /\ InOrder(NotEmbedded) \in [1 .. c -> NotEmbedded]
        /\ \A x \in NotEmbedded : \E k \in 1 .. c : InOrder(NotEmbedded)[k] = x
    BY <1>1, InOrderSorts
  <1> HIDE DEF c
  <1>4. ASSUME Pending = <<>> PROVE NotEmbedded = {}
    <2>1. DOMAIN InOrder(NotEmbedded) = 1 .. c /\ DOMAIN <<>> = 1 .. 0
      BY <1>3
    <2>2. 1 .. c = {}
      BY <1>2, <1>4, <2>1
    <2> QED
      BY <1>3, <2>2
  <1>5. ASSUME NotEmbedded = {} PROVE Pending = <<>>
    <2>1. c = 0
      BY <1>5, FS_EmptySet DEF c
    <2> QED
      BY <1>2, <1>3, <2>1
  <1> QED
    BY <1>4, <1>5

\* A batch that is answered leaves fewer chunks without an embedding.
LEMMA BatchIsEmbedded ==
    ASSUME RowsInv, EmbedBatch
    PROVE  Cardinality(NotEmbedded') < Cardinality(NotEmbedded)
  <1>1. PICK n \in Nat : DOMAIN rows = 1 .. n
    BY DEF RowsInv
  <1>2. PICK m \in Nat :
            /\ Batch \in [1 .. m -> {i \in 1 .. n : rows[i] = 0}]
            /\ Len(Batch) = m /\ DOMAIN Batch = 1 .. m
            /\ \A j, k \in 1 .. m : Batch[j] = Batch[k] => j = k
    BY <1>1, BatchIsPending, PipelineAssumption
  <1>3. PICK data \in Listings :
            rows' = [i \in DOMAIN rows |->
                       IF Contains(Batch, i)
                       THEN Vectors(data)[CHOOSE k \in DOMAIN Batch : Batch[k] = i]
                       ELSE rows[i]]
    BY DEF EmbedBatch
  <1>4. Vectors(data) = [k \in 1 .. m |-> Batch[k]]
    BY <1>2, VectorsInOrder
  <1>5. NotEmbedded' \subseteq NotEmbedded
    <2> SUFFICES ASSUME NEW i \in 1 .. n, rows'[i] = 0 PROVE rows[i] = 0
      BY <1>1, <1>3 DEF NotEmbedded
    <2>1. CASE Contains(Batch, i)
      BY <1>2, <2>1 DEF Contains
    <2>2. CASE ~Contains(Batch, i)
      BY <1>1, <1>3, <2>2
    <2> QED
      BY <2>1, <2>2
  <1>6. 1 \in 1 .. m
    <2>1. /\ NotEmbedded # {} /\ NotEmbedded \in SUBSET Nat
          /\ IsFiniteSet(NotEmbedded)
      <3>1. Pending # <<>>
        BY DEF EmbedBatch
      <3>2. NotEmbedded \in SUBSET Nat
        BY <1>1 DEF NotEmbedded
      <3> QED
        BY <1>1, <3>1, <3>2, PendingIsEmpty, NotEmbeddedIsFinite
    <2>2. Cardinality(NotEmbedded) \in Nat /\ Cardinality(NotEmbedded) # 0
      BY <2>1, FS_CardinalityType, FS_EmptySet
    <2>3. Pending \in [1 .. Cardinality(NotEmbedded) -> NotEmbedded]
      BY <2>1, InOrderSorts DEF Pending, NotEmbedded
    <2>4. Pending \in Seq(NotEmbedded) /\ Len(Pending) = Cardinality(NotEmbedded)
      BY <2>2, <2>3
    <2>5. Len(Batch) >= 1
      BY <2>2, <2>4, PipelineAssumption DEF Batch
    <2> QED
      BY <1>2, <2>5
  <1> DEFINE i == Batch[1]
  <1>7. i \in 1 .. n /\ i \in NotEmbedded
    BY <1>1, <1>2, <1>6 DEF NotEmbedded
  <1>8. rows'[i] = i
    <2>1. Contains(Batch, i)
      BY <1>2, <1>6 DEF Contains
    <2> DEFINE k == CHOOSE k \in DOMAIN Batch : Batch[k] = i
    <2>2. k \in 1 .. m /\ Batch[k] = i
      BY <1>2, <1>6
    <2>3. rows'[i] = Vectors(data)[k]
      BY <1>1, <1>3, <1>7, <2>1
    <2> QED
      BY <1>4, <2>2, <2>3
  <1>9. i \notin NotEmbedded'
    BY <1>7, <1>8 DEF NotEmbedded
  <1>10. /\ IsFiniteSet(NotEmbedded')
         /\ Cardinality(NotEmbedded') <= Cardinality(NotEmbedded)
         /\ Cardinality(NotEmbedded') # Cardinality(NotEmbedded)
    BY <1>1, <1>5, <1>7, <1>9, NotEmbeddedIsFinite, FS_Subset
  <1> QED
    BY <1>1, <1>10, NotEmbeddedIsFinite, FS_CardinalityType

\* Every step of Parse keeps the count of attempts.
LEMMA ParseAInv == ASSUME IInv, AInv, Parse PROVE AInv'
  <1>1. CASE Route
    BY <1>1 DEF Route, Fail, AInv, IInv, NotEmbedded, Untouched
  <1>2. CASE ConvertToPdf \/ OcrPdfToMarkdown
    BY <1>2 DEF ConvertToPdf, OcrPdfToMarkdown, AInv, NotEmbedded
  <1>3. CASE ProcessorFails \/ DoclingRaises
    BY <1>3 DEF ProcessorFails, DoclingRaises, Fail, AInv, IInv, NotEmbedded
  <1>4. CASE DoclingParse \/ OcrIfScanned
    BY <1>4 DEF DoclingParse, OcrIfScanned, Fail, AInv, IInv, NotEmbedded
  <1>5. CASE PersistChunks
    BY <1>5 DEF PersistChunks, AInv, IInv
  <1> QED
    BY <1>1, <1>2, <1>3, <1>4, <1>5 DEF Parse

\* So does every other step.
LEMMA NextAInv == ASSUME IInv, RowsInv, AInv, [Next]_vars PROVE AInv'
  <1>1. CASE Parse
    BY <1>1, ParseAInv
  <1>2. CASE ExtractLocally \/ TaggerUnusable
    BY <1>2 DEF ExtractLocally, TaggerUnusable, AInv, NotEmbedded
  <1>3. CASE AskEndpoint
    BY <1>3, PipelineAssumption DEF AskEndpoint, AInv, NotEmbedded
  <1>4. CASE TagAgain
    BY <1>4, PipelineAssumption DEF TagAgain, TryAgain, Retries, AInv, NotEmbedded
  <1>5. CASE Tag
    BY <1>5 DEF Tag, NoCall, AInv, NotEmbedded
  <1>6. CASE TaggingFails
    BY <1>6 DEF TaggingFails, Raises, AInv, NotEmbedded
  <1>7. CASE CommitParsed
    BY <1>7, PipelineAssumption DEF CommitParsed, NoCall, AInv, IInv, NotEmbedded
  <1>8. CASE EmbedBatch
    BY <1>8, PipelineAssumption DEF EmbedBatch, NoCall, AInv
  <1>9. CASE EmbedAgain
    BY <1>9, PipelineAssumption DEF EmbedAgain, TryAgain, Retries, AInv, NotEmbedded
  <1>10. CASE EmbedFails
    BY <1>10 DEF EmbedFails, Raises, Fail, AInv, IInv, NotEmbedded
  <1>11. CASE MarkIndexed
    <2>1. NotEmbedded = {} /\ NotEmbedded' = NotEmbedded
      BY <1>11, PendingIsEmpty DEF MarkIndexed, RowsInv, NotEmbedded
    <2> QED
      BY <1>11, <2>1 DEF MarkIndexed, AInv, IInv
  <1>12. CASE SearchByDate \/ UNCHANGED vars
    BY <1>12 DEF SearchByDate, vars, AInv, NotEmbedded
  <1> QED
    BY <1>1, <1>2, <1>3, <1>4, <1>5, <1>6, <1>7, <1>8, <1>9, <1>10, <1>11, <1>12
    DEF Next, Work, ExtractMetadata, Embed

\* The measure is of natural numbers.
LEMMA VariantIsMeasure == ASSUME RowsInv, AInv PROVE Variant \in Measures
  <1>1. StepsAfter(pc, reading) \in Nat
    BY DEF StepsAfter
  <1>2. Cardinality(NotEmbedded) \in Nat
    BY NotEmbeddedIsFinite DEF RowsInv
  <1>3. AttemptsLeft \in Nat
    BY PipelineAssumption DEF AttemptsLeft, AInv
  <1> QED
    BY <1>1, <1>2, <1>3 DEF Variant, Measures

\* Every step of the task lowers it.
LEMMA WorkLowersVariant ==
    ASSUME IInv, RowsInv, AInv, Work
    PROVE  Lower(Variant', Variant)
  <1>1. ASSUME StepsAfter(pc', reading') < StepsAfter(pc, reading)
        PROVE  Lower(Variant', Variant)
    BY <1>1 DEF Lower, Variant
  <1>2. CASE Route \/ ConvertToPdf \/ OcrPdfToMarkdown
    <2>1. CASE Route
      <3>1. pc = "routing" /\ reading' = reading /\ reading = "original"
        BY <2>1 DEF Route, IInv, Untouched
      <3>2. pc' \in {"parsing", "converting", "committing", "done"}
        BY <2>1 DEF Route, Fail
      <3> QED
        BY <1>1, <3>1, <3>2 DEF StepsAfter
    <2>2. CASE ConvertToPdf
      BY <1>1, <2>2 DEF ConvertToPdf, StepsAfter
    <2>3. CASE OcrPdfToMarkdown
      BY <1>1, <2>3 DEF OcrPdfToMarkdown, StepsAfter
    <2> QED
      BY <1>2, <2>1, <2>2, <2>3
  <1>3. CASE ProcessorFails \/ DoclingRaises
    BY <1>1, <1>3 DEF ProcessorFails, DoclingRaises, Fail, StepsAfter
  <1>4. CASE DoclingParse \/ OcrIfScanned \/ PersistChunks
    <2>1. CASE DoclingParse
      BY <1>1, <2>1 DEF DoclingParse, StepsAfter
    <2>2. CASE OcrIfScanned
      BY <1>1, <2>2 DEF OcrIfScanned, Fail, StepsAfter
    <2>3. CASE PersistChunks
      BY <1>1, <2>3 DEF PersistChunks, StepsAfter
    <2> QED
      BY <1>4, <2>1, <2>2, <2>3
  <1>5. CASE ExtractLocally \/ AskEndpoint \/ TaggerUnusable
    BY <1>1, <1>5 DEF ExtractLocally, AskEndpoint, TaggerUnusable, StepsAfter
  <1>6. CASE Tag \/ TaggingFails \/ CommitParsed
    BY <1>1, <1>6 DEF Tag, TaggingFails, CommitParsed, StepsAfter
  <1>7. CASE EmbedFails \/ MarkIndexed
    BY <1>1, <1>7 DEF EmbedFails, MarkIndexed, Fail, StepsAfter
  <1>8. CASE TagAgain \/ EmbedAgain
    <2>1. pc' = pc /\ reading' = reading /\ NotEmbedded' = NotEmbedded
      BY <1>8 DEF TagAgain, EmbedAgain, NotEmbedded
    <2>2. AttemptsLeft' < AttemptsLeft
      BY <1>8, PipelineAssumption
      DEF TagAgain, EmbedAgain, TryAgain, Retries, AttemptsLeft, AInv
    <2> QED
      BY <2>1, <2>2 DEF Lower, Variant
  <1>9. CASE EmbedBatch
    <2>1. pc' = pc /\ reading' = reading
      BY <1>9 DEF EmbedBatch
    <2> QED
      BY <1>9, <2>1, BatchIsEmbedded DEF Lower, Variant
  <1> QED
    BY <1>2, <1>3, <1>4, <1>5, <1>6, <1>7, <1>8, <1>9 DEF Work, Parse, ExtractMetadata, Embed

\* Every step of the task lowers a measure that nothing raises, however the
\* services answer: there is no endless loop of OCR, of batches or of retries.
\* With NoEndlessDescent the task takes finitely many steps.
THEOREM TaskEnds ==
    Spec => /\ [](Variant \in Measures)
            /\ [][(Work => Lower(Variant', Variant)) /\ (SearchByDate => Variant' = Variant)]_vars
  <1>1. SearchByDate => Variant' = Variant
    BY DEF SearchByDate, Variant, NotEmbedded, AttemptsLeft
  <1>2. IInv /\ RowsInv /\ AInv /\ [Next]_vars =>
           [(Work => Lower(Variant', Variant)) /\ (SearchByDate => Variant' = Variant)]_vars
    BY <1>1, WorkLowersVariant
  <1>3. RowsInv /\ AInv => Variant \in Measures
    BY VariantIsMeasure
  <1>4. Spec => []RowsInv
    BY InitRowsInv, NextRowsInv, PTL DEF Spec
  <1>5. Spec => []AInv
    BY <1>4, InitAInv, NextAInv, Invariance, PTL DEF Spec
  <1> QED
    BY <1>2, <1>3, <1>4, <1>5, Invariance, PTL DEF Spec

\* The task has ended exactly if its document is settled, and a searchable one
\* has the embeddings of all its chunks.
EndsSettled ==
    /\ pc = "done" <=> document.status \in {"indexed", "failed"}
    /\ document.status = "indexed" => \A i \in DOMAIN rows : rows[i] = i

\* Where the task ends the document is settled, and a document that is settled
\* is not worked on again; one that is searchable has for each chunk the
\* embedding of that chunk, none missing (tasks/ingest.py:267).
THEOREM TaskSettles == Spec => []EndsSettled
  <1>1. RowsInv /\ AInv => EndsSettled
    BY DEF RowsInv, AInv, EndsSettled, VectorsMatchChunks, NotEmbedded
  <1>2. Spec => []RowsInv
    BY InitRowsInv, NextRowsInv, PTL DEF Spec
  <1>3. Spec => []AInv
    BY <1>2, InitAInv, NextAInv, Invariance, PTL DEF Spec
  <1> QED
    BY <1>1, <1>2, <1>3, PTL
=============================================================================
