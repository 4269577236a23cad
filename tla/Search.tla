------------------------------- MODULE Search -------------------------------
(***************************************************************************)
(* One search of an organisation and the clicks on its results: the route  *)
(* and run_search (search/router.py, search/service.py), the reranker as   *)
(* its callers see it, and report_click.                                   *)
(*                                                                         *)
(* The legs are two statements, each of which sees what is committed when  *)
(* it starts.  The row of search_logs is inserted before the response and  *)
(* committed after it.  Searches share no row, so one is enough.           *)
(***************************************************************************)
EXTENDS Naturals, FiniteSets, Sequences, Functions

CONSTANTS
    Documents,          \* documents of the organisation that pass the filters
    Chunks,             \* their chunks, each with an embedding
    DocumentOf,         \* DocumentOf[c]: the document of chunk c
    NoDocument,         \* not a document: clicked_document_id before a click
    CandidatePool,      \* search_candidate_pool: chunks per leg
    K,                  \* search_rrf_k
    VectorWeight,       \* search_vector_weight; the BM25 leg weighs 1
    RerankCandidates,   \* search_rerank_candidates
    ResultLimit,        \* search_result_limit
    Clicks              \* bound: click requests

ASSUME SearchAssumption ==
    /\ IsFiniteSet(Documents) /\ NoDocument \notin Documents
    /\ IsFiniteSet(Chunks) /\ DocumentOf \in [Chunks -> Documents]
    /\ {CandidatePool, K, VectorWeight, RerankCandidates, ResultLimit} \subseteq Nat \ {0}

VARIABLES
    indexed,    \* documents with committed status 'indexed'
    search,     \* the search request: how far it is and its local variables
    shown,      \* the documents of the response, best first, or <<>>
    log,        \* the committed search_logs row, or NoRow
    click       \* click[k]: a request to report_click

vars == <<indexed, search, shown, log, click>>

NewSearch == [pc |-> "new", vector |-> <<>>, bm25 |-> <<>>, bm25Used |-> TRUE,
              hits |-> <<>>, reranked |-> FALSE, row |-> <<>>]

NoRow == [results |-> <<>>, clicks |-> <<>>, clicked |-> NoDocument, committed |-> FALSE]

NewClick == [pc |-> "new", on |-> NoDocument, position |-> 0, read |-> NoRow]

Init ==
    /\ indexed \in SUBSET Documents
    /\ search = NewSearch
    /\ shown = <<>>
    /\ log = NoRow
    /\ click = [k \in Clicks |-> NewClick]

\* Ingestion commits another document.
PublishDocument(d) ==
    /\ d \notin indexed
    /\ indexed' = indexed \cup {d}
    /\ UNCHANGED <<search, shown, log, click>>

-----------------------------------------------------------------------------
(* Retrieval. *)

Smaller(m, n) == IF m <= n THEN m ELSE n

\* The rankings of n of the chunks in S.
Rankings(S, n) == Injection(1 .. n, S)

\* The chunks both legs are restricted to: d.status = 'indexed'.
Searchable == {c \in Chunks : DocumentOf[c] \in indexed}

\* The query is embedded: no leg has read anything yet.
EmbedQuery ==
    /\ search.pc = "new"
    /\ search' = [search EXCEPT !.pc = "embedded"]
    /\ UNCHANGED <<indexed, shown, log, click>>

\* EmbeddingError: 503, and the transaction rolls back with nothing in it.
EmbedFails ==
    /\ search.pc = "new"
    /\ search' = [search EXCEPT !.pc = "unavailable"]
    /\ UNCHANGED <<indexed, shown, log, click>>

\* The vector leg returns the nearest chunks, however far they are.
VectorLeg ==
    /\ search.pc = "embedded"
    /\ \E ranking \in Rankings(Searchable, Smaller(CandidatePool, Cardinality(Searchable))) :
          search' = [search EXCEPT !.pc = "vector", !.vector = ranking]
    /\ UNCHANGED <<indexed, shown, log, click>>

\* The BM25 leg returns the chunks that match, at most as many.
Bm25Leg ==
    /\ search.pc = "vector"
    /\ \E n \in 0 .. Smaller(CandidatePool, Cardinality(Searchable)) :
          \E ranking \in Rankings(Searchable, n) :
             search' = [search EXCEPT !.pc = "retrieved", !.bm25 = ranking]
    /\ UNCHANGED <<indexed, shown, log, click>>

\* DBAPIError in the savepoint: the leg is dropped, the transaction goes on.
Bm25LegFails ==
    /\ search.pc = "vector"
    /\ search' = [search EXCEPT !.pc = "retrieved", !.bm25Used = FALSE]
    /\ UNCHANGED <<indexed, shown, log, click>>

-----------------------------------------------------------------------------
(* Fusion: fuse_rrf, and the best chunk of each document. *)

Legs == {search.vector, search.bm25}
Retrieved == Range(search.vector) \cup Range(search.bm25)
Position(r, x) == CHOOSE i \in DOMAIN r : r[i] = x

\* A common multiple of the denominators K + position: scores are exact in
\* units of 1 / Unit.
Unit == LET f[i \in 0 .. CandidatePool] == IF i = 0 THEN 1 ELSE f[i - 1] * (K + i)
        IN f[CandidatePool]

\* What a leg adds to the score of a chunk it ranks.
Share(weight, r, c) == IF c \in Range(r) THEN weight * (Unit \div (K + Position(r, c))) ELSE 0

\* Mutant: a leg overwrites the score of the leg before it.
LastLegScore(c) == IF c \in Range(search.bm25) THEN Share(1, search.bm25, c)
                   ELSE Share(VectorWeight, search.vector, c)

Score(c) == Share(VectorWeight, search.vector, c) + Share(1, search.bm25, c)

\* The order in which the score dictionary met the chunks.
Inserted(c) == IF c \in Range(search.vector) THEN Position(search.vector, c)
               ELSE Len(search.vector) + Position(search.bm25, c)

\* Mutant: the scores are sorted without the minus sign.
AheadAscending(c, d) ==
    \/ Score(c) < Score(d)
    \/ Score(c) = Score(d) /\ Inserted(c) < Inserted(d)

\* sorted() by descending score, stable.
Ahead(c, d) ==
    \/ Score(c) > Score(d)
    \/ Score(c) = Score(d) /\ Inserted(c) < Inserted(d)

RetrievedDocuments == {DocumentOf[c] : c \in Retrieved}

\* The chunk that puts a document into the candidates.
Best(d) == CHOOSE c \in Retrieved :
              /\ DocumentOf[c] = d
              /\ \A e \in Retrieved \ {c} : DocumentOf[e] = d => Ahead(c, e)

\* The documents, in the fused order of their best chunks.
Candidates ==
    [i \in 1 .. Cardinality(RetrievedDocuments) |->
        CHOOSE d \in RetrievedDocuments :
            Cardinality({e \in RetrievedDocuments : Ahead(Best(e), Best(d))}) = i - 1]

-----------------------------------------------------------------------------
(* Reranking, the log row, the response. *)

Top == SubSeq(Candidates, 1, Smaller(RerankCandidates, Len(Candidates)))

Hits(ordered) ==
    [i \in 1 .. Smaller(ResultLimit, Len(ordered)) |->
        [document |-> ordered[i], chunk |-> Best(ordered[i])]]

\* What the reranker may answer: JinaReranker raises unless the order covers
\* all candidates, each once.
RerankOrders == Rankings(DOMAIN Top, Len(Top))

Rerank ==
    /\ search.pc = "retrieved" /\ Top # <<>>
    /\ \E order \in RerankOrders :
          search' = [search EXCEPT !.pc = "ranked", !.reranked = TRUE,
                                   !.hits = Hits([i \in DOMAIN Top |-> Top[order[i]]])]
    /\ UNCHANGED <<indexed, shown, log, click>>

\* Mutant: without a reranker there are no hits.
RerankFailsEmpty ==
    /\ search.pc = "retrieved"
    /\ search' = [search EXCEPT !.pc = "ranked"]
    /\ UNCHANGED <<indexed, shown, log, click>>

\* RerankError, or nothing to rerank: the fused order stays.
RerankFails ==
    /\ search.pc = "retrieved"
    /\ search' = [search EXCEPT !.pc = "ranked", !.hits = Hits(Top)]
    /\ UNCHANGED <<indexed, shown, log, click>>

-----------------------------------------------------------------------------
(* Explaining a search: what a caller that asks for it is told. *)

\* Mutant: a later chunk overwrites the rank of an earlier one.
LastChunkRank(r, d) ==
    LET at == {i \in DOMAIN r : DocumentOf[r[i]] = d} IN
    IF at = {} THEN 0 ELSE CHOOSE i \in at : \A j \in at : j <= i

\* _document_ranks: the rank of the document's first chunk in a leg, or 0 when
\* the leg did not return the document.
DocumentRank(r, d) ==
    LET at == {i \in DOMAIN r : DocumentOf[r[i]] = d} IN
    IF at = {} THEN 0 ELSE CHOOSE i \in at : \A j \in at : i <= j

\* _build_explain: where each hit came from, stage by stage.
Provenance(hits) ==
    [i \in DOMAIN hits |->
        [vector |-> DocumentRank(search.vector, hits[i].document),
         bm25 |-> DocumentRank(search.bm25, hits[i].document),
         fused |-> Position(Candidates, hits[i].document),
         final |-> i]]

-----------------------------------------------------------------------------
DocumentsOf(hits) == [i \in DOMAIN hits |-> hits[i].document]

\* Mutant: the row is built from the fused order.
InsertFusedOrder ==
    /\ search.pc = "ranked"
    /\ search' = [search EXCEPT !.pc = "logged", !.vector = <<>>, !.bm25 = <<>>,
                                !.row = DocumentsOf(Hits(Top))]
    /\ UNCHANGED <<indexed, shown, log, click>>

\* The row is flushed, so that its id can be answered.  What was retrieved
\* is not looked at again.
InsertLog ==
    /\ search.pc = "ranked"
    /\ search' = [search EXCEPT !.pc = "logged", !.vector = <<>>, !.bm25 = <<>>,
                                !.row = DocumentsOf(search.hits)]
    /\ UNCHANGED <<indexed, shown, log, click>>

\* The response leaves; get_org_context has not committed yet.
Respond ==
    /\ search.pc = "logged"
    /\ search' = [search EXCEPT !.pc = "answered"]
    /\ shown' = DocumentsOf(search.hits)
    /\ UNCHANGED <<indexed, log, click>>

CommitSearch ==
    /\ search.pc = "answered"
    /\ search' = [NewSearch EXCEPT !.pc = "done"]
    /\ log' = [NoRow EXCEPT !.results = search.row, !.committed = TRUE]
    /\ UNCHANGED <<indexed, shown, click>>

\* A statement fails, the client leaves, or the commit fails: no row.
SearchAborts ==
    /\ search.pc \notin {"unavailable", "done", "aborted"}
    /\ search' = [NewSearch EXCEPT !.pc = "aborted"]
    /\ UNCHANGED <<indexed, shown, log, click>>

-----------------------------------------------------------------------------
(* Clicks: report_click. *)

\* Where the log row has the document, counted from 1; 0 for null.
ShownAt(results, d) == IF d \in Range(results) THEN Position(results, d) ELSE 0

\* Somebody who has the response reports a click on a document of the
\* organisation.  The row is read without a lock; without it, 404.
ReadRow(k) ==
    /\ click[k].pc = "new" /\ shown # <<>>
    /\ \E d \in Documents :
          click' = [click EXCEPT ![k] =
              IF log.committed
              THEN [pc |-> "read", on |-> d, position |-> ShownAt(log.results, d), read |-> log]
              ELSE [NewClick EXCEPT !.pc = "not_found"]]
    /\ UNCHANGED <<indexed, search, shown, log>>

Event(k) == [document |-> click[k].on, position |-> click[k].position]

\* The UPDATE of the columns that changed: clicks always, and
\* clicked_document_id when it is not the one that was read.
CommitClick(k) ==
    /\ click[k].pc = "read"
    /\ click' = [click EXCEPT ![k] = [NewClick EXCEPT !.pc = "recorded", !.on = click[k].on]]
    /\ log' = [log EXCEPT !.clicks = Append(click[k].read.clicks, Event(k)),
                          !.clicked = IF click[k].on = click[k].read.clicked
                                      THEN @ ELSE click[k].on]
    /\ UNCHANGED <<indexed, search, shown>>

-----------------------------------------------------------------------------
Handle ==
    \/ EmbedQuery \/ EmbedFails
    \/ VectorLeg
    \/ Bm25Leg \/ Bm25LegFails
    \/ Rerank \/ RerankFails
    \/ InsertLog \/ Respond \/ CommitSearch

Next ==
    \/ Handle
    \/ SearchAborts
    \/ \E d \in Documents : PublishDocument(d)
    \/ \E k \in Clicks : ReadRow(k) \/ CommitClick(k)

Spec == Init /\ [][Next]_vars

-----------------------------------------------------------------------------
(* Properties. *)

Fused == search.pc \in {"retrieved", "ranked"}

\* c is ahead of d in every leg that returned d, and in one at least.
Dominates(c, d) ==
    /\ c # d
    /\ \A r \in Legs : d \in Range(r) => c \in Range(r) /\ Position(r, c) < Position(r, d)

\* Fusion never contradicts the legs where they agree: no chunk of a document
\* that comes later is ahead, in every leg, of the best chunk of one that
\* comes earlier.
FusionRespectsLegs ==
    Fused =>
        \A i, j \in DOMAIN Candidates :
            i < j => \A c \in Retrieved :
                        DocumentOf[c] = Candidates[j] => ~Dominates(c, Best(Candidates[i]))

FirstRank(r, d) == CHOOSE i \in DOMAIN r :
                      /\ DocumentOf[r[i]] = d
                      /\ \A j \in 1 .. i - 1 : DocumentOf[r[j]] # d

\* "Fusion degenerates to vector order" when the BM25 leg is dropped: the
\* documents come in the order in which the vector leg first met them.
DegradesToVectorOrder ==
    Fused /\ ~search.bm25Used =>
        /\ RetrievedDocuments = {DocumentOf[c] : c \in Range(search.vector)}
        /\ \A i, j \in DOMAIN Candidates :
              i < j => FirstRank(search.vector, Candidates[i]) < FirstRank(search.vector, Candidates[j])

\* "The reranker improves ordering; it never gates availability": with it or
\* without it as many documents are answered, each once, each by its best
\* chunk, out of those it was asked about.
RerankNeverGates ==
    search.pc = "ranked" =>
        LET hits == search.hits IN
        /\ Len(hits) = Smaller(ResultLimit, Len(Top))
        /\ IsInjective(DocumentsOf(hits)) /\ Range(DocumentsOf(hits)) \subseteq Range(Top)
        /\ \A i \in DOMAIN hits : hits[i].chunk = Best(hits[i].document)
        /\ ~search.reranked => \A i \in DOMAIN hits : hits[i].document = Candidates[i]

\* An explanation tells the stage that lost a document: those in no leg's pool
\* are exactly those missing from the candidates; a hit ranks in a leg no worse
\* than the chunk it was fused by; only the reranker moves a hit from its fused
\* rank, and only within what it was asked about.
ExplainAccounts ==
    search.pc = "ranked" =>
        /\ \A d \in Documents :
              d \in Range(Candidates) <=> \E r \in Legs : DocumentRank(r, d) # 0
        /\ \A i \in DOMAIN search.hits :
              LET from == Provenance(search.hits)[i]
                  NoWorse(rank, r, c) == c \in Range(r) => rank \in 1 .. Position(r, c)
              IN /\ NoWorse(from.vector, search.vector, search.hits[i].chunk)
                 /\ NoWorse(from.bm25, search.bm25, search.hits[i].chunk)
                 /\ from.fused <= RerankCandidates
                 /\ ~search.reranked => from.fused = from.final

\* What is logged is what was shown, in that order, and every click that is
\* in the log has the position at which its document was shown.
LogMatchesResponse ==
    log.committed =>
        /\ log.results = shown
        /\ \A i \in DOMAIN log.clicks :
              log.clicks[i].position = ShownAt(shown, log.clicks[i].document)

=============================================================================
