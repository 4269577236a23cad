------------------------------ MODULE Pipeline ------------------------------
(***************************************************************************)
(* What happens to one file between upload and search: routing by its      *)
(* type, conversion, parsing, OCR, metadata and embedding (_run_parse and  *)
(* what it calls in tasks/ingest.py and documents/, and the clients in     *)
(* inference/), with the answers the external services may give.           *)
(*                                                                         *)
(* Ingestion models the tasks, messages and transactions around this; here *)
(* the worker stays up and its transactions commit.                        *)
(***************************************************************************)
EXTENDS Metadata, FiniteSets

CONSTANTS
    MaxChunks,          \* bound: chunks of a parsed file
    MaxPages,           \* bound: pages of a parsed file
    MinCharsPerPage,    \* ocr_min_chars_per_page, in chunks: a chunk is the unit of text
    BatchSize,          \* _EMBED_BATCH_SIZE
    EmbedRetries,       \* max_retries of JinaEmbedder
    NerRetries,         \* _MAX_RETRIES of the entity endpoint
    Texts,              \* bound: what the parsed text may be, for extract_dates
    Taggings,           \* bound: what a tagger may answer
    Ranges              \* bound: the date ranges that are searched for

ASSUME PipelineAssumption ==
    /\ MaxChunks \in Nat /\ MaxPages \in Nat /\ MinCharsPerPage \in Nat
    /\ BatchSize \in Nat \ {0}
    /\ EmbedRetries \in Nat /\ NerRetries \in Nat
    /\ Texts \subseteq Seq(Phrases)
    /\ Taggings \subseteq Seq(Spans)
    /\ Ranges \subseteq [from : Days, to : Days]

VARIABLES
    upload,         \* the stored file: what libmagic makes of it, over the external limit or not
    backends,       \* the settings of the process: OCR and entity backend
    pc,             \* the step the task is at
    reading,        \* the file the parser is given
    native,         \* what the parser made of the original, or NotParsed
    parsed,         \* the parse whose chunks are kept
    document,       \* status and pipeline_version of the row
    rows,           \* the chunk rows: whose text the embedding is of, or 0
    metadata,       \* the document_metadata row: text read, dates and entities, or NoRow
    call,           \* the call under way: attempts made, waited, last answer
    sent,           \* external processors that were sent the file
    asked           \* the last search by date, and what it did about the document

vars == <<upload, backends, pc, reading, native, parsed, document, rows, metadata, call, sent, asked>>

-----------------------------------------------------------------------------
(* Routing. *)

Mimes == {"pdf", "text", "legacy office", "image", "executable"}

\* select_strategy; what is in no list is refused.
SelectStrategy(mime) ==
    CASE mime \in {"pdf", "text"} -> "extract"
      [] mime = "legacy office" -> "convert"
      [] mime = "image" -> "metadata only"
      [] OTHER -> "skip"

\* Too little text for its pages; a format without pages never has.
NeedsOcr(p) == p.pages > 0 /\ p.chunks < MinCharsPerPage * p.pages

\* A column that is NULL, or the list it holds.
Null == [null |-> TRUE, list |-> <<>>]
Value(list) == [null |-> FALSE, list |-> list]

NotParsed == [chunks |-> 0, pages |-> 0, version |-> "none"]
NoRow == [exists |-> FALSE, text |-> <<>>, dates |-> <<>>, entities |-> Null]
NoCall == [attempt |-> 0, waited |-> 0, answer |-> "none"]
NotAsked == [answer |-> "none"]

Init ==
    /\ upload \in [mime : Mimes, large : BOOLEAN]
    /\ backends \in [ocr : {"off", "mistral"}, ner : {"off", "local", "hf"}]
    /\ pc = "routing"
    /\ reading = "original"
    /\ native = NotParsed
    /\ parsed = NotParsed
    /\ document = [status |-> "parsing", version |-> "none"]
    /\ rows = <<>>
    /\ metadata = NoRow
    /\ call = NoCall
    /\ sent = {}
    /\ asked = NotAsked

\* _fail_job: the task ends and the document says so.
Fail ==
    /\ pc' = "done"
    /\ document' = [document EXCEPT !.status = "failed"]

\* _run_parse up to the first call.
Route ==
    /\ pc = "routing"
    /\ \/ /\ SelectStrategy(upload.mime) = "extract"
          /\ pc' = "parsing"
          /\ UNCHANGED document
       \/ /\ SelectStrategy(upload.mime) = "convert"
          /\ pc' = "converting"
          /\ UNCHANGED document
       \/ /\ SelectStrategy(upload.mime) = "metadata only"
          /\ document' = [document EXCEPT !.version = "metadata_only"]
          /\ pc' = "committing"
       \/ /\ SelectStrategy(upload.mime) = "skip"
          /\ Fail
    /\ UNCHANGED <<upload, backends, reading, native, parsed, rows, metadata, call, sent, asked>>

-----------------------------------------------------------------------------
(* Conversion, parsing and OCR.  No call here is tried twice. *)

\* Both processors read the file, refuse one over the limit, and post it.
Send(service) == ~upload.large /\ sent' = sent \cup {service}

\* convert_to_pdf; the PDF is kept beside the original.
ConvertToPdf ==
    /\ pc = "converting"
    /\ Send("gotenberg")
    /\ reading' = "converted.pdf"
    /\ pc' = "parsing"
    /\ UNCHANGED <<upload, backends, native, parsed, document, rows, metadata, call, asked>>

\* ocr_pdf_to_markdown, with a text that is not blank, kept beside the original.
OcrPdfToMarkdown ==
    /\ pc = "ocr"
    /\ Send("mistral")
    /\ reading' = "ocr.md"
    /\ pc' = "parsing"
    /\ UNCHANGED <<upload, backends, native, parsed, document, rows, metadata, call, asked>>

\* Either raises: the file is unreadable or too large, the service does not
\* answer, refuses, or answers nothing of use.
ProcessorFails ==
    /\ pc \in {"converting", "ocr"}
    /\ \/ UNCHANGED sent
       \/ Send(IF pc = "ocr" THEN "mistral" ELSE "gotenberg")
    /\ Fail
    /\ UNCHANGED <<upload, backends, reading, native, parsed, rows, metadata, call, asked>>

\* Mutant: the parse of the OCR text is returned as it is.
PlainVersion(file) == IF file = "converted.pdf" THEN "gotenberg" ELSE "docling"

\* pipeline_version, by the last processor it names.
Version(file) ==
    CASE file = "converted.pdf" -> "gotenberg"
      [] file = "ocr.md" -> "mistral"
      [] OTHER -> "docling"

\* _docling_parse; Markdown has no pages.  Only the original of a PDF is
\* measured for text.
DoclingParse ==
    /\ pc = "parsing"
    /\ \E p \in [chunks : 0 .. MaxChunks, pages : 0 .. MaxPages, version : {Version(reading)}] :
          /\ reading = "ocr.md" => p.pages = 0
          /\ parsed' = p
          /\ native' = IF reading = "original" THEN p ELSE native
    /\ pc' = IF reading = "original" /\ upload.mime = "pdf" THEN "measuring" ELSE "persisting"
    /\ UNCHANGED <<upload, backends, reading, document, rows, metadata, call, sent, asked>>

DoclingRaises ==
    /\ pc = "parsing"
    /\ Fail
    /\ UNCHANGED <<upload, backends, reading, native, parsed, rows, metadata, call, sent, asked>>

\* Mutant: without an OCR backend the parse is used as it is.
UseScanAsParsed ==
    /\ pc = "measuring"
    /\ pc' = IF NeedsOcr(parsed) /\ backends.ocr = "mistral" THEN "ocr" ELSE "persisting"
    /\ UNCHANGED <<upload, backends, reading, native, parsed, document, rows, metadata, call, sent, asked>>

\* _ocr_if_scanned: a scan is sent to OCR, or fails when there is none.
OcrIfScanned ==
    /\ pc = "measuring"
    /\ \/ /\ ~NeedsOcr(parsed)
          /\ pc' = "persisting"
          /\ UNCHANGED document
       \/ /\ NeedsOcr(parsed) /\ backends.ocr = "mistral"
          /\ pc' = "ocr"
          /\ UNCHANGED document
       \/ /\ NeedsOcr(parsed) /\ backends.ocr # "mistral"
          /\ Fail
    /\ UNCHANGED <<upload, backends, reading, native, parsed, rows, metadata, call, sent, asked>>

\* _persist_chunks, and where the chunks come from.
PersistChunks ==
    /\ pc = "persisting"
    /\ rows' = [i \in 1 .. parsed.chunks |-> 0]
    /\ document' = [document EXCEPT !.version = parsed.version]
    /\ pc' = "metadata"
    /\ UNCHANGED <<upload, backends, reading, native, parsed, metadata, call, sent, asked>>

-----------------------------------------------------------------------------
(* Calls that are tried again: the entity endpoint and the embeddings.  Time *)
(* is counted in half seconds.                                             *)

\* Classes of answers: a transport error, 429 or 5xx, 409, any other refusal, a
\* success whose body is not understood, and one that is.
Answers == {"unreachable", "busy", "settling", "rejected", "malformed", "success"}

\* An endpoint that scales to zero answers 409 while it settles.
Retryable(service) ==
    {"unreachable", "busy"} \cup (IF service = "hf" THEN {"settling"} ELSE {})

Retries(service) == IF service = "hf" THEN NerRetries ELSE EmbedRetries

\* Mutant: the pause before an attempt is never longer than eight seconds.
ShortBackoff(service, attempt) ==
    LET doubled == (IF service = "hf" THEN 2 ELSE 1) * 2 ^ attempt IN
    IF doubled > 16 THEN 16 ELSE doubled

\* _backoff_seconds: doubled each time, up to 30 s for the entity endpoint.
Backoff(service, attempt) ==
    IF service = "hf" THEN (IF 2 ^ attempt > 30 THEN 60 ELSE 2 * 2 ^ attempt)
    ELSE 2 ^ attempt

\* Mutant: the attempts are not counted.
TryForever(service) ==
    \E a \in Retryable(service) : call' = [call EXCEPT !.answer = a]

\* A transient answer with attempts left: wait, and post again.
TryAgain(service) ==
    /\ call.attempt < Retries(service)
    /\ \E a \in Retryable(service) :
          call' = [attempt |-> call.attempt + 1, answer |-> a,
                   waited |-> call.waited + Backoff(service, call.attempt)]

\* Any other answer that is not a success raises, and so does the last one.
Raises(service) ==
    \E a \in Answers \ {"success"} :
        /\ a \in Retryable(service) => call.attempt = Retries(service)
        /\ call' = [call EXCEPT !.answer = a]

-----------------------------------------------------------------------------
(* _extract_metadata: nothing here fails the document. *)

Text == IF rows = <<>> THEN {<<>>} ELSE Texts

\* The row has the text's dates, and the entities when there is a tagger.
Upsert(text, spans) ==
    metadata' = [exists |-> TRUE, text |-> text, dates |-> ExtractDates(text),
                 entities |-> IF backends.ner = "off" THEN Null
                              ELSE Value(EntitiesFromTagged(spans))]

\* No tagger, one that is not asked about a blank text, or the local model.
ExtractLocally ==
    /\ pc = "metadata"
    /\ \E text \in Text, spans \in Taggings :
          /\ backends.ner = "off" \/ text = <<>> => spans = <<>>
          /\ backends.ner = "hf" => text = <<>>
          /\ Upsert(text, spans)
    /\ pc' = "committing"
    /\ UNCHANGED <<upload, backends, reading, native, parsed, document, rows, call, sent, asked>>

AskEndpoint ==
    /\ pc = "metadata"
    /\ backends.ner = "hf" /\ rows # <<>>
    /\ pc' = "tagging"
    /\ UNCHANGED <<upload, backends, reading, native, parsed, document, rows, metadata, call, sent, asked>>

TagAgain ==
    /\ pc = "tagging"
    /\ TryAgain("hf")
    /\ UNCHANGED <<upload, backends, pc, reading, native, parsed, document, rows, metadata, sent, asked>>

Tag ==
    /\ pc = "tagging"
    /\ \E text \in Text \ {<<>>}, spans \in Taggings : Upsert(text, spans)
    /\ call' = NoCall
    /\ pc' = "committing"
    /\ UNCHANGED <<upload, backends, reading, native, parsed, document, rows, sent, asked>>

\* Mutant: the error of the entity endpoint leaves the try block.
TaggingFailsDocument ==
    /\ pc = "tagging"
    /\ Raises("hf")
    /\ Fail
    /\ UNCHANGED <<upload, backends, reading, native, parsed, rows, metadata, sent, asked>>

\* The endpoint gives nothing: logged, and no row is written, the dates that
\* were found before included.
TaggingFails ==
    /\ pc = "tagging"
    /\ Raises("hf")
    /\ pc' = "committing"
    /\ UNCHANGED <<upload, backends, reading, native, parsed, document, rows, metadata, sent, asked>>

\* The local model raises, or the endpoint has no address: the same.
TaggerUnusable ==
    /\ pc = "metadata"
    /\ backends.ner # "off" /\ rows # <<>>
    /\ pc' = "committing"
    /\ UNCHANGED <<upload, backends, reading, native, parsed, document, rows, metadata, call, sent, asked>>

\* ingest_document commits the parse and queues the embedding.
CommitParsed ==
    /\ pc = "committing"
    /\ document' = [document EXCEPT !.status = "parsed"]
    /\ call' = NoCall
    /\ pc' = "embedding"
    /\ UNCHANGED <<upload, backends, reading, native, parsed, rows, metadata, sent, asked>>

-----------------------------------------------------------------------------
(* embed_document and JinaEmbedder. *)

\* A finite set of numbers as a sequence, the smallest first.
InOrder(S) ==
    [k \in 1 .. Cardinality(S) |-> CHOOSE i \in S : Cardinality({j \in S : j < i}) = k - 1]

Pending == InOrder({i \in DOMAIN rows : rows[i] = 0})
Batch == SubSeq(Pending, 1, IF Len(Pending) < BatchSize THEN Len(Pending) ELSE BatchSize)

\* Mutant: the vectors are taken in the order the provider lists them.
AsListed(data) == [k \in DOMAIN data |-> data[k].of]

\* embed: the rows of the answer in the order of their index.
Vectors(data) ==
    LET order == InOrder({row.index : row \in Range(data)}) IN
    [k \in DOMAIN order |-> (CHOOSE row \in Range(data) : row.index = order[k]).of]

\* The provider answers one row per text, in any order: which text of the
\* batch it is for, and whose vector it holds.
Listings ==
    {[k \in DOMAIN Batch |-> [index |-> order[k], of |-> Batch[order[k]]]] :
        order \in SetToSeqs(DOMAIN Batch)}

EmbedBatch ==
    /\ pc = "embedding" /\ Pending # <<>>
    /\ \E data \in Listings :
          rows' = [i \in DOMAIN rows |->
                      IF Contains(Batch, i)
                      THEN Vectors(data)[CHOOSE k \in DOMAIN Batch : Batch[k] = i]
                      ELSE rows[i]]
    /\ call' = NoCall
    /\ UNCHANGED <<upload, backends, pc, reading, native, parsed, document, metadata, sent, asked>>

EmbedAgain ==
    /\ pc = "embedding" /\ Pending # <<>>
    /\ TryAgain("jina")
    /\ UNCHANGED <<upload, backends, pc, reading, native, parsed, document, rows, metadata, sent, asked>>

\* The call raises, or answers another number of rows than it was sent texts.
EmbedFails ==
    /\ pc = "embedding" /\ Pending # <<>>
    /\ Raises("jina")
    /\ Fail
    /\ UNCHANGED <<upload, backends, reading, native, parsed, rows, metadata, sent, asked>>

MarkIndexed ==
    /\ pc = "embedding" /\ Pending = <<>>
    /\ document' = [document EXCEPT !.status = "indexed"]
    /\ pc' = "done"
    /\ UNCHANGED <<upload, backends, reading, native, parsed, rows, metadata, call, sent, asked>>

-----------------------------------------------------------------------------
\* The document is searchable, and a search is restricted to a range of dates.
\* Its legs read the row as the filter does; an error in the first of them
\* fails the search.
SearchByDate ==
    /\ document.status = "indexed"
    /\ \E range \in Ranges : \E answer \in DateFilter(metadata.dates, range) :
          asked' = [range |-> range, answer |-> answer]
    /\ UNCHANGED <<upload, backends, pc, reading, native, parsed, document, rows, metadata, call, sent>>

Parse ==
    \/ Route \/ ConvertToPdf \/ OcrPdfToMarkdown \/ ProcessorFails
    \/ DoclingParse \/ DoclingRaises \/ OcrIfScanned \/ PersistChunks

ExtractMetadata ==
    ExtractLocally \/ AskEndpoint \/ TagAgain \/ Tag \/ TaggingFails \/ TaggerUnusable

Embed == EmbedBatch \/ EmbedAgain \/ EmbedFails \/ MarkIndexed

Work == Parse \/ ExtractMetadata \/ CommitParsed \/ Embed

Next == Work \/ SearchByDate

\* Every step of Work is one of the worker's own or an answer its timeout forces.
Spec == Init /\ [][Next]_vars /\ WF_vars(Work)

-----------------------------------------------------------------------------
(* Properties. *)

Pcs == {"routing", "converting", "parsing", "measuring", "ocr", "persisting", "metadata",
        "tagging", "committing", "embedding", "done"}
Processors == {"gotenberg", "mistral"}

Accepted == document.status \in {"parsed", "indexed"}

\* No scan reaches search as the empty document the parser takes it for: one
\* with less text per page than the minimum was read by OCR or has failed, and
\* a PDF with enough text, or without pages, was not sent to be read again.
ScansAreRead ==
    Accepted /\ upload.mime = "pdf" =>
        (reading = "ocr.md" <=> native.pages > 0 /\ native.chunks < MinCharsPerPage * native.pages)

\* pipeline_version tells who has seen the file: an accepted document was sent
\* to exactly the processor its version names, and no large file to any.
ProvenanceIsComplete ==
    /\ Accepted => sent = {document.version} \cap Processors
    /\ upload.large => sent = {}

\* A date and an entity are listed once, and a month without a day only if the
\* text has one that is not the end of a whole date, however often they repeat.
MetadataListsOnce ==
    /\ \A list \in {metadata.dates, metadata.entities.list} :
          \A i, j \in DOMAIN list : list[i] = list[j] => i = j
    /\ \A i \in DOMAIN metadata.dates :
          metadata.dates[i].day = 0 =>
              \E k \in DOMAIN metadata.text :
                  /\ metadata.text[k].month = metadata.dates[i].month
                  /\ \/ metadata.text[k].form = "month"
                     \/ metadata.text[k].form = "text" /\ metadata.text[k].day \notin 1 .. 31

\* The calendar dates a reader finds in a text: those written with a day the
\* calendar has, and a month stands for its first day.
TextDates(text) ==
    LET Stands(phrase, day) == [year |-> phrase.year, month |-> phrase.month, day |-> day]
        Read(phrase) ==
            IF phrase.form = "month" \/ (phrase.form = "text" /\ phrase.day \notin 1 .. 31)
            THEN Stands(phrase, 1) ELSE Stands(phrase, phrase.day)
    IN {date \in {Read(text[k]) : k \in DOMAIN text} :
            /\ date.month \in 1 .. 12
            /\ date.day \in 1 .. DaysInMonth(date.year, date.month)}

Earlier(date, other) ==
    \/ date.year < other.year
    \/ date.year = other.year /\ date.month < other.month
    \/ date.year = other.year /\ date.month = other.month /\ date.day < other.day

\* A search by date finds a document exactly if its text has a date in the
\* range, as long as the search answers and the row was written: no date is
\* lost to another expression's match or by being a repetition.
FoundByItsDates ==
    asked.answer \in {"found", "not found"} /\ metadata.exists =>
        (asked.answer = "found" <=>
             \E date \in TextDates(metadata.text) :
                 ~Earlier(date, asked.range.from) /\ ~Earlier(asked.range.to, date))

\* "The date filter matches a document that carries at least one extracted
\* date within the range" (search/service.py:163): it answers, that is.
SearchByDateAnswers == asked.answer # "raises"

\* Each chunk has the embedding of its own text, whatever order the provider
\* lists its answer in and however the batches fall.
VectorsMatchChunks == \A i \in DOMAIN rows : rows[i] \in {0, i}

\* Who gives up does so last.  Metadata is best-effort: a document whose chunks
\* are persisted fails for its embeddings only, however the tagger fails.  And
\* no transient answer ends it early: the entity endpoint had the five minutes
\* its comment promises a cold start (and not six), and the embeddings API the
\* pauses of 0.5, 1 and 2 seconds.
GivesUpLast ==
    [][/\ document'.status = "failed" => pc \notin {"metadata", "tagging", "committing"}
       /\ pc = "tagging" /\ pc' # pc /\ call'.answer \in Retryable("hf") =>
              call.waited \in 2 * 300 .. 2 * 360
       /\ pc = "embedding" /\ document'.status = "failed" /\ call'.answer \in Retryable("jina") =>
              call.waited = 7]_vars

\* Every file settles, if no service ever answers anything useful included.
Settles == <>(document.status \in {"indexed", "failed"})

=============================================================================
