---------------------------- MODULE SearchProofs ----------------------------
(***************************************************************************)
(* For any documents, chunks, limits and weights: what fusion makes of the *)
(* legs, what reranking makes of that and what an explanation says of both *)
(* agree; and the click log matches the response, whatever the number of   *)
(* concurrent clicks.                                                      *)
(***************************************************************************)
EXTENDS Search, OrderTheorems

\* The clicks a response can be answered with: each at the position shown.
EventsOn(response) ==
    {[document |-> d, position |-> ShownAt(response, d)] : d \in Documents}

\* Every variable is a record of its fields, whatever is in them.
WellFormed ==
    /\ search = [pc |-> search.pc, vector |-> search.vector, bm25 |-> search.bm25,
                 bm25Used |-> search.bm25Used, hits |-> search.hits,
                 reranked |-> search.reranked, row |-> search.row]
    /\ log = [results |-> log.results, clicks |-> log.clicks,
              clicked |-> log.clicked, committed |-> log.committed]
    /\ log.committed \in BOOLEAN
    /\ click = [k \in Clicks |-> click[k]]
    /\ \A k \in Clicks : click[k] = [pc |-> click[k].pc, on |-> click[k].on,
                                     position |-> click[k].position, read |-> click[k].read]

\* The row on its way: flushed from the hits, answered, committed.
RowFollowsHits ==
    /\ search.pc = "logged" => search.row = DocumentsOf(search.hits)
    /\ search.pc = "answered" => search.row = shown
    /\ search.pc # "done" => ~log.committed

LogIsShown ==
    log.committed => log.results = shown /\ log.clicks \in Seq(EventsOn(shown))

\* A click that has read the row holds a copy that is right but may be old: it
\* may lose other clicks when it is written, and cannot bring in a wrong one.
CopiesAreShown ==
    \A k \in Clicks :
        click[k].pc = "read" =>
            /\ log.committed
            /\ click[k].read.clicks \in Seq(EventsOn(shown))
            /\ Event(k) \in EventsOn(shown)

IInv == WellFormed /\ RowFollowsHits /\ LogIsShown /\ CopiesAreShown

\* Nothing is logged to begin with.
LEMMA InitIInv == Init => IInv
  <1> SUFFICES ASSUME Init PROVE IInv
    OBVIOUS
  <1>1. search = NewSearch /\ log = NoRow /\ click = [k \in Clicks |-> NewClick]
    BY DEF Init
  <1>2. \A k \in Clicks : click[k] = NewClick
    BY <1>1
  <1>3. ~log.committed /\ search.pc = "new" /\ \A k \in Clicks : click[k].pc = "new"
    BY <1>1, <1>2 DEF NewSearch, NoRow, NewClick
  <1>4. search = [pc |-> search.pc, vector |-> search.vector, bm25 |-> search.bm25,
                  bm25Used |-> search.bm25Used, hits |-> search.hits,
                  reranked |-> search.reranked, row |-> search.row]
    BY <1>1 DEF NewSearch
  <1>5. log = [results |-> log.results, clicks |-> log.clicks,
               clicked |-> log.clicked, committed |-> log.committed]
    BY <1>1 DEF NoRow
  <1>6. \A k \in Clicks : click[k] = [pc |-> click[k].pc, on |-> click[k].on,
                                      position |-> click[k].position, read |-> click[k].read]
    BY <1>2 DEF NewClick
  <1>7. WellFormed
    BY <1>1, <1>2, <1>3, <1>4, <1>5, <1>6 DEF WellFormed, NoRow
  <1> QED
    BY <1>3, <1>7 DEF IInv, RowFollowsHits, LogIsShown, CopiesAreShown

\* Steps of the search that neither answer nor commit leave log and response alone.
LEMMA BeforeTheAnswer ==
    ASSUME IInv, UNCHANGED <<shown, log, click>>,
           search' = [pc |-> search.pc, vector |-> search.vector, bm25 |-> search.bm25,
                      bm25Used |-> search.bm25Used, hits |-> search.hits,
                      reranked |-> search.reranked, row |-> search.row]',
           ~log.committed,
           search'.pc # "answered",
           search'.pc = "logged" => search'.row = DocumentsOf(search'.hits)
    PROVE  IInv'
  <1>1. WellFormed'
    BY DEF IInv, WellFormed
  <1>2. RowFollowsHits'
    BY DEF RowFollowsHits, DocumentsOf
  <1>3. LogIsShown' /\ CopiesAreShown'
    BY DEF IInv, LogIsShown, CopiesAreShown, Event
  <1> QED
    BY <1>1, <1>2, <1>3 DEF IInv

\* The search itself: every step but the last two is before the answer.
LEMMA HandleIInv == IInv /\ (Handle \/ SearchAborts) => IInv'
  <1> SUFFICES ASSUME IInv, Handle \/ SearchAborts PROVE IInv'
    OBVIOUS
  <1>0. search = [pc |-> search.pc, vector |-> search.vector, bm25 |-> search.bm25,
                  bm25Used |-> search.bm25Used, hits |-> search.hits,
                  reranked |-> search.reranked, row |-> search.row]
    BY DEF IInv, WellFormed
  <1>1. CASE EmbedQuery \/ EmbedFails \/ VectorLeg \/ Bm25Leg \/ Bm25LegFails
    BY <1>0, <1>1, BeforeTheAnswer
       DEF EmbedQuery, EmbedFails, VectorLeg, Bm25Leg, Bm25LegFails, IInv, RowFollowsHits
  <1>2. CASE Rerank \/ RerankFails
    BY <1>0, <1>2, BeforeTheAnswer DEF Rerank, RerankFails, IInv, RowFollowsHits
  <1>3. CASE InsertLog
    BY <1>0, <1>3, BeforeTheAnswer DEF InsertLog, IInv, RowFollowsHits
  <1>4. CASE SearchAborts
    BY <1>0, <1>4, BeforeTheAnswer DEF SearchAborts, NewSearch, IInv, RowFollowsHits
  <1>5. CASE Respond
    <2>1. /\ ~log.committed /\ shown' = search.row /\ search'.row = search.row
          /\ search'.pc = "answered" /\ UNCHANGED <<log, click>>
      BY <1>0, <1>5 DEF Respond, IInv, RowFollowsHits
    <2>2. WellFormed'
      BY <1>0, <1>5 DEF Respond, IInv, WellFormed
    <2>3. RowFollowsHits' /\ LogIsShown' /\ CopiesAreShown'
      BY <2>1 DEF RowFollowsHits, LogIsShown, CopiesAreShown, IInv
    <2> QED
      BY <2>2, <2>3 DEF IInv
  <1>6. CASE CommitSearch
    <2>1. /\ ~log.committed /\ search.row = shown
          /\ search'.pc = "done" /\ shown' = shown /\ click' = click
          /\ log' = [results |-> shown, clicks |-> <<>>, clicked |-> NoDocument, committed |-> TRUE]
      BY <1>0, <1>6 DEF CommitSearch, IInv, RowFollowsHits, NewSearch, NoRow
    <2>2. WellFormed'
      BY <1>6, <2>1 DEF CommitSearch, NewSearch, IInv, WellFormed
    <2>3. RowFollowsHits' /\ LogIsShown' /\ CopiesAreShown'
      BY <2>1 DEF RowFollowsHits, LogIsShown, CopiesAreShown, IInv
    <2> QED
      BY <2>2, <2>3 DEF IInv
  <1> QED
    BY <1>1, <1>2, <1>3, <1>4, <1>5, <1>6 DEF Handle

\* A click reads the committed row, or none.
LEMMA ReadRowIInv == ASSUME NEW k \in Clicks, IInv, ReadRow(k) PROVE IInv'
  <1>1. /\ UNCHANGED <<search, shown, log>>
        /\ \A j \in Clicks \ {k} : click'[j] = click[j]
    BY DEF ReadRow, IInv, WellFormed
  <1>2. PICK d \in Documents :
           click'[k] = IF log.committed
                       THEN [pc |-> "read", on |-> d, position |-> ShownAt(log.results, d), read |-> log]
                       ELSE [NewClick EXCEPT !.pc = "not_found"]
    BY DEF ReadRow, IInv, WellFormed
  <1>3. WellFormed'
    <2>1. \A j \in Clicks : click'[j] = [pc |-> click'[j].pc, on |-> click'[j].on,
                                         position |-> click'[j].position, read |-> click'[j].read]
      BY <1>1, <1>2 DEF IInv, WellFormed, NewClick
    <2>2. click' = [j \in Clicks |-> click'[j]]
      BY DEF ReadRow, IInv, WellFormed
    <2> QED
      BY <1>1, <2>1, <2>2 DEF IInv, WellFormed
  <1>4. RowFollowsHits' /\ LogIsShown'
    BY <1>1 DEF IInv, RowFollowsHits, LogIsShown, DocumentsOf
  <1>5. CopiesAreShown'
    <2>1. ASSUME click'[k].pc = "read"
          PROVE  log.committed /\ log.clicks \in Seq(EventsOn(shown))
                 /\ Event(k)' \in EventsOn(shown) /\ click'[k].read.clicks = log.clicks
      BY <1>2, <2>1 DEF NewClick, IInv, LogIsShown, Event, EventsOn
    <2> QED
      BY <1>1, <2>1 DEF IInv, CopiesAreShown, Event
  <1> QED
    BY <1>3, <1>4, <1>5 DEF IInv

\* A click is appended to the copy it has read.
LEMMA CommitClickIInv == ASSUME NEW k \in Clicks, IInv, CommitClick(k) PROVE IInv'
  <1>1. /\ log.committed /\ click[k].read.clicks \in Seq(EventsOn(shown))
        /\ Event(k) \in EventsOn(shown)
    BY DEF CommitClick, IInv, CopiesAreShown
  <1>2. /\ UNCHANGED <<search, shown>>
        /\ log'.results = log.results /\ log'.committed = log.committed
        /\ log'.clicks = Append(click[k].read.clicks, Event(k))
    BY DEF CommitClick, IInv, WellFormed
  <1>3. /\ click'[k].pc = "recorded"
        /\ \A j \in Clicks \ {k} : click'[j] = click[j]
    BY DEF CommitClick, IInv, WellFormed, NewClick
  <1>4. WellFormed'
    <2>1. \A j \in Clicks : click'[j] = [pc |-> click'[j].pc, on |-> click'[j].on,
                                         position |-> click'[j].position, read |-> click'[j].read]
      BY DEF CommitClick, IInv, WellFormed, NewClick
    <2>2. click' = [j \in Clicks |-> click'[j]]
      BY DEF CommitClick, IInv, WellFormed
    <2>3. log' = [results |-> log'.results, clicks |-> log'.clicks,
                  clicked |-> log'.clicked, committed |-> log'.committed]
      BY DEF CommitClick, IInv, WellFormed
    <2> QED
      BY <1>2, <2>1, <2>2, <2>3 DEF IInv, WellFormed
  <1>5. RowFollowsHits'
    BY <1>2 DEF IInv, RowFollowsHits, DocumentsOf
  <1>6. LogIsShown'
    BY <1>1, <1>2 DEF IInv, LogIsShown
  <1>7. CopiesAreShown'
    BY <1>1, <1>2, <1>3 DEF IInv, CopiesAreShown, Event
  <1> QED
    BY <1>4, <1>5, <1>6, <1>7 DEF IInv

\* Every step keeps the log right.
LEMMA NextIInv == IInv /\ [Next]_vars => IInv'
  <1> SUFFICES ASSUME IInv, [Next]_vars PROVE IInv'
    OBVIOUS
  <1>1. CASE Handle \/ SearchAborts
    BY <1>1, HandleIInv
  <1>2. ASSUME NEW d \in Documents, PublishDocument(d) PROVE IInv'
    BY <1>2 DEF PublishDocument, IInv, WellFormed, RowFollowsHits, LogIsShown, CopiesAreShown, Event,
                DocumentsOf
  <1>3. ASSUME NEW k \in Clicks, ReadRow(k) PROVE IInv'
    BY <1>3, ReadRowIInv
  <1>4. ASSUME NEW k \in Clicks, CommitClick(k) PROVE IInv'
    BY <1>4, CommitClickIInv
  <1>5. CASE UNCHANGED vars
    BY <1>5 DEF vars, IInv, WellFormed, RowFollowsHits, LogIsShown, CopiesAreShown, Event, DocumentsOf
  <1> QED
    BY <1>1, <1>2, <1>3, <1>4, <1>5 DEF Next

\* The row and the copies of it are right in every reachable state.
THEOREM Invariance == Spec => []IInv
  BY InitIInv, NextIInv, PTL DEF Spec

\* What is logged is what was shown, and each click in the log has the
\* position its document was shown at (search/router.py:136, :172).
THEOREM LogIsTrue == Spec => []LogMatchesResponse
  <1>1. IInv => LogMatchesResponse
    <2> SUFFICES ASSUME IInv, log.committed PROVE LogMatchesResponse
      BY DEF LogMatchesResponse
    <2>1. log.results = shown /\ log.clicks \in Seq(EventsOn(shown))
      BY DEF IInv, LogIsShown
    <2>2. \A i \in DOMAIN log.clicks : log.clicks[i] \in EventsOn(shown)
      BY <2>1
    <2>3. \A e \in EventsOn(shown) : e.position = ShownAt(shown, e.document)
      BY DEF EventsOn
    <2> QED
      BY <2>1, <2>2, <2>3 DEF LogMatchesResponse
  <1> QED
    BY <1>1, Invariance, PTL

-----------------------------------------------------------------------------
(* Fusion. *)

\* The common denominator of the scores is a number.
LEMMA UnitIsNatural == Unit \in Nat
  <1> DEFINE Step(g, n) == [i \in 0 .. n |-> IF i = 0 THEN 1 ELSE g[i - 1] * (K + i)]
             Built == {n \in Nat : \E g \in [0 .. n -> Nat] : g = Step(g, n)}
             f == CHOOSE g : g = Step(g, CandidatePool)
             Natural == {n \in Nat : n <= CandidatePool => f[n] \in Nat}
  <1>0. K \in Nat /\ CandidatePool \in Nat
    BY SearchAssumption
  <1>1. 0 \in Built
    <2> DEFINE g == [i \in 0 .. 0 |-> 1]
    <2>1. g \in [0 .. 0 -> Nat] /\ g = Step(g, 0)
      OBVIOUS
    <2> QED
      BY <2>1
  <1>2. ASSUME NEW n \in Nat, n \in Built PROVE n + 1 \in Built
    <2>1. PICK g \in [0 .. n -> Nat] : g = Step(g, n)
      BY <1>2
    <2> DEFINE h == Step(g, n + 1)
    <2>2. \A i \in 0 .. n + 1 : i # 0 => i - 1 \in 0 .. n /\ g[i - 1] \in Nat
      BY <2>1
    <2>3. h \in [0 .. n + 1 -> Nat]
      BY <1>0, <2>2
    <2>4. \A i \in 0 .. n : h[i] = g[i]
      BY <2>1
    <2>5. h = Step(h, n + 1)
      BY <2>2, <2>4
    <2> HIDE DEF h, Step
    <2> QED
      BY <2>3, <2>5
  <1>3. CandidatePool \in Built
    <2> HIDE DEF Built
    <2> QED
      BY <1>0, <1>1, <1>2, SetInduction
  <1>4. f = Step(f, CandidatePool)
    BY <1>3
  <1> HIDE DEF f
  <1>4a. \A i \in 0 .. CandidatePool : f[i] = IF i = 0 THEN 1 ELSE f[i - 1] * (K + i)
    BY <1>4
  <1>5. 0 \in Natural
    BY <1>0, <1>4a
  <1>6. ASSUME NEW n \in Nat, n \in Natural PROVE n + 1 \in Natural
    <2> SUFFICES ASSUME n + 1 <= CandidatePool PROVE f[n + 1] \in Nat
      OBVIOUS
    <2>1. f[n] \in Nat /\ n + 1 \in 0 .. CandidatePool
      BY <1>0, <1>6
    <2>2. f[n + 1] = f[n] * (K + (n + 1))
      <3>1. n + 1 # 0 /\ (n + 1) - 1 = n
        OBVIOUS
      <3> QED
        BY <1>4a, <2>1, <3>1
    <2> QED
      BY <1>0, <2>1, <2>2
  <1>7. CandidatePool \in Natural
    <2> HIDE DEF Natural
    <2> QED
      BY <1>0, <1>5, <1>6, SetInduction
  <1> QED
    BY <1>0, <1>7 DEF Unit, f

\* Rounded down, a quotient does not grow with the divisor.
LEMMA QuotientFalls ==
    ASSUME NEW a \in Nat, NEW p \in Nat \ {0}, NEW q \in Nat, p <= q
    PROVE  a \div q \in Nat /\ a \div p \in Nat /\ a \div q <= a \div p
  OBVIOUS

\* A product with a weight grows with the other factor.
LEMMA ProductGrows ==
    ASSUME NEW w \in Nat, NEW a \in Nat, NEW b \in Nat, a <= b
    PROVE  w * a \in Nat /\ w * a <= w * b
  OBVIOUS

-----------------------------------------------------------------------------
(* The legs, the candidates and the hits. *)

\* A leg's answer: at most search_candidate_pool different chunks.
IsLeg(r) == \E n \in 0 .. CandidatePool : r \in Rankings(Chunks, n)

RetrievalOK == IsLeg(search.vector) /\ IsLeg(search.bm25)

\* Positions in a leg: each chunk has one, and it holds the chunk.
LEMMA LegPositions ==
    ASSUME NEW r, IsLeg(r)
    PROVE  /\ Len(r) \in Nat /\ DOMAIN r = 1 .. Len(r) /\ Range(r) \subseteq Chunks
           /\ \A c \in Range(r) : Position(r, c) \in 1 .. Len(r) /\ r[Position(r, c)] = c
           /\ \A i \in 1 .. Len(r) : r[i] \in Range(r) /\ Position(r, r[i]) = i
  <1>1. PICK n \in 0 .. CandidatePool : r \in Rankings(Chunks, n)
    BY DEF IsLeg
  <1>2. n \in Nat /\ r \in [1 .. n -> Chunks] /\ \A i, j \in 1 .. n : r[i] = r[j] => i = j
    BY <1>1, SearchAssumption DEF Rankings, Injection, IsInjective
  <1>3. Len(r) = n /\ DOMAIN r = 1 .. n
    BY <1>2
  <1>4. ASSUME NEW c \in Range(r) PROVE Position(r, c) \in 1 .. n /\ r[Position(r, c)] = c
    BY <1>3 DEF Range, Position
  <1>5. ASSUME NEW i \in 1 .. n PROVE r[i] \in Range(r) /\ Position(r, r[i]) = i
    <2>1. r[i] \in Range(r)
      BY <1>3 DEF Range
    <2> QED
      BY <1>2, <1>4, <2>1
  <1> QED
    BY <1>2, <1>3, <1>4, <1>5 DEF Range

\* What a leg adds is a number, and more for a better position.
LEMMA ShareFalls ==
    ASSUME NEW r, IsLeg(r), NEW w \in Nat, NEW c, NEW d
    PROVE  /\ Share(w, r, c) \in Nat
           /\ d \notin Range(r) => Share(w, r, d) = 0
           /\ c \in Range(r) /\ d \in Range(r) /\ Position(r, c) < Position(r, d)
              => Share(w, r, d) <= Share(w, r, c)
  <1>0. K \in Nat
    BY SearchAssumption
  <1>1. ASSUME NEW x \in Range(r)
        PROVE  Position(r, x) \in Nat /\ K + Position(r, x) \in Nat \ {0}
    BY <1>0, LegPositions
  <1>2. ASSUME NEW x PROVE Share(w, r, x) \in Nat
    <2>1. CASE x \in Range(r)
      <3>1. Unit \div (K + Position(r, x)) \in Nat
        BY <1>1, <2>1, UnitIsNatural, QuotientFalls
      <3> QED
        BY <2>1, <3>1, ProductGrows DEF Share
    <2>2. CASE x \notin Range(r)
      BY <2>2 DEF Share
    <2> QED
      BY <2>1, <2>2
  <1>3. ASSUME c \in Range(r), d \in Range(r), Position(r, c) < Position(r, d)
        PROVE  Share(w, r, d) <= Share(w, r, c)
    <2>1. /\ K + Position(r, c) \in Nat \ {0} /\ K + Position(r, d) \in Nat
          /\ K + Position(r, c) <= K + Position(r, d)
      BY <1>0, <1>1, <1>3
    <2>2. /\ Unit \div (K + Position(r, d)) \in Nat
          /\ Unit \div (K + Position(r, c)) \in Nat
          /\ Unit \div (K + Position(r, d)) <= Unit \div (K + Position(r, c))
      BY <2>1, UnitIsNatural, QuotientFalls
    <2> QED
      BY <1>3, <2>2, ProductGrows DEF Share
  <1> QED
    BY <1>2, <1>3 DEF Share

\* Scores are numbers, and the insertion order is one.
LEMMA ScoresAndInsertion ==
    ASSUME RetrievalOK
    PROVE  /\ \A c : Score(c) \in Nat
           /\ \A c \in Retrieved : Inserted(c) \in Nat
           /\ \A c, d \in Retrieved : Inserted(c) = Inserted(d) => c = d
  <1> DEFINE v == search.vector
             b == search.bm25
  <1>1. VectorWeight \in Nat /\ 1 \in Nat
    BY SearchAssumption
  <1>2. \A c : Share(VectorWeight, v, c) \in Nat /\ Share(1, b, c) \in Nat
    BY <1>1, ShareFalls DEF RetrievalOK
  <1>3. /\ Len(v) \in Nat /\ Len(b) \in Nat
        /\ \A c \in Range(v) : Position(v, c) \in 1 .. Len(v) /\ v[Position(v, c)] = c
        /\ \A c \in Range(b) : Position(b, c) \in 1 .. Len(b) /\ b[Position(b, c)] = c
    BY LegPositions DEF RetrievalOK
  <1>4. ASSUME NEW c \in Retrieved
        PROVE  /\ c \in Range(v) => Inserted(c) = Position(v, c) /\ Inserted(c) \in 1 .. Len(v)
               /\ c \notin Range(v) => /\ c \in Range(b)
                                       /\ Inserted(c) = Len(v) + Position(b, c)
                                       /\ Inserted(c) \in Nat /\ Inserted(c) > Len(v)
    BY <1>3 DEF Retrieved, Inserted
  <1>5. \A c \in Retrieved : Inserted(c) \in Nat
    BY <1>3, <1>4
  <1>6. ASSUME NEW c \in Retrieved, NEW d \in Retrieved, Inserted(c) = Inserted(d)
        PROVE  c = d
    <2>1. CASE c \in Range(v) /\ d \in Range(v)
      BY <1>3, <1>4, <1>6, <2>1
    <2>2. CASE c \notin Range(v) /\ d \notin Range(v)
      <3>1. /\ Position(b, c) \in Nat /\ Position(b, d) \in Nat
            /\ Len(v) + Position(b, c) = Len(v) + Position(b, d)
        BY <1>3, <1>4, <1>6, <2>2
      <3>2. Position(b, c) = Position(b, d)
        BY <1>3, <3>1
      <3> QED
        BY <1>3, <1>4, <2>2, <3>2
    <2>3. CASE (c \in Range(v)) # (d \in Range(v))
      BY <1>3, <1>4, <1>6, <2>3
    <2> QED
      BY <2>1, <2>2, <2>3
  <1> QED
    BY <1>2, <1>5, <1>6 DEF Score

\* The order in which fusion sorts the chunks, as a set of pairs.
ChunkOrder == {p \in Retrieved \X Retrieved : Ahead(p[1], p[2])}

\* Fusion's order is total: no two chunks tie.
LEMMA FusionOrders ==
    ASSUME RetrievalOK
    PROVE  IsFiniteSet(Retrieved) /\ Retrieved \subseteq Chunks /\ StrictOrder(ChunkOrder, Retrieved)
  <1>1. Retrieved \subseteq Chunks
    BY LegPositions DEF RetrievalOK, Retrieved
  <1>2. IsFiniteSet(Retrieved)
    BY <1>1, SearchAssumption, FS_Subset
  <1>3. \A c, d \in Retrieved : <<c, d>> \in ChunkOrder <=> Ahead(c, d)
    BY DEF ChunkOrder
  <1>4. \A c, d \in Retrieved :
           Score(c) \in Nat /\ Inserted(c) \in Nat /\ (Inserted(c) = Inserted(d) => c = d)
    BY ScoresAndInsertion
  <1>5. StrictOrder(ChunkOrder, Retrieved)
    BY <1>3, <1>4 DEF StrictOrder, Ahead
  <1> QED
    BY <1>1, <1>2, <1>5

\* Every retrieved document has a best chunk: its own, and ahead of its others.
LEMMA BestIsBest ==
    ASSUME RetrievalOK, NEW d \in RetrievedDocuments
    PROVE  /\ Best(d) \in Retrieved /\ DocumentOf[Best(d)] = d
           /\ \A e \in Retrieved \ {Best(d)} : DocumentOf[e] = d => Ahead(Best(d), e)
  <1> DEFINE S == {c \in Retrieved : DocumentOf[c] = d}
  <1>1. S # {}
    BY DEF RetrievedDocuments
  <1>2. IsFiniteSet(S)
    BY FusionOrders, FS_Subset
  <1>3. StrictOrder(ChunkOrder, S)
    BY FusionOrders DEF StrictOrder
  <1>4. \E c \in S : \A e \in S \ {c} : <<c, e>> \in ChunkOrder
    <2> HIDE DEF S
    <2> QED
      BY <1>1, <1>2, <1>3, FirstElement
  <1>5. \E c \in Retrieved : /\ DocumentOf[c] = d
                             /\ \A e \in Retrieved \ {c} : DocumentOf[e] = d => Ahead(c, e)
    BY <1>4 DEF ChunkOrder
  <1> QED
    BY <1>5 DEF Best

\* The order of the documents, as a set of pairs.
DocumentOrder ==
    {p \in RetrievedDocuments \X RetrievedDocuments : Ahead(Best(p[1]), Best(p[2]))}

\* The candidates are the retrieved documents, each once, in the order of their
\* best chunks.
LEMMA CandidatesSorted ==
    ASSUME RetrievalOK
    PROVE  /\ Cardinality(RetrievedDocuments) \in Nat
           /\ Len(Candidates) = Cardinality(RetrievedDocuments)
           /\ Candidates \in [1 .. Len(Candidates) -> RetrievedDocuments]
           /\ \A d \in RetrievedDocuments : \E i \in 1 .. Len(Candidates) : Candidates[i] = d
           /\ \A i, j \in 1 .. Len(Candidates) :
                 /\ i < j <=> Ahead(Best(Candidates[i]), Best(Candidates[j]))
                 /\ Candidates[i] = Candidates[j] => i = j
  <1> DEFINE S == RetrievedDocuments
             n == Cardinality(S)
  <1>1. IsFiniteSet(S)
    <2>1. S \subseteq Documents
      BY FusionOrders, SearchAssumption DEF RetrievedDocuments
    <2> QED
      BY <2>1, SearchAssumption, FS_Subset
  <1>2. \A d, e \in S : <<d, e>> \in DocumentOrder <=> Ahead(Best(d), Best(e))
    BY DEF DocumentOrder
  <1>3. StrictOrder(DocumentOrder, S)
    <2>1. \A d \in S : Best(d) \in Retrieved /\ DocumentOf[Best(d)] = d
      BY BestIsBest
    <2>2. \A c, e \in Retrieved : <<c, e>> \in ChunkOrder <=> Ahead(c, e)
      BY DEF ChunkOrder
    <2>3. StrictOrder(ChunkOrder, Retrieved)
      BY FusionOrders
    <2>4. \A d \in S : <<d, d>> \notin DocumentOrder
      BY <1>2, <2>1, <2>2, <2>3 DEF StrictOrder
    <2>5. \A d, e, f \in S : <<d, e>> \in DocumentOrder /\ <<e, f>> \in DocumentOrder
                             => <<d, f>> \in DocumentOrder
      BY <1>2, <2>1, <2>2, <2>3 DEF StrictOrder
    <2>6. \A d, e \in S : d # e => <<d, e>> \in DocumentOrder \/ <<e, d>> \in DocumentOrder
      BY <1>2, <2>1, <2>2, <2>3 DEF StrictOrder
    <2> QED
      BY <2>4, <2>5, <2>6 DEF StrictOrder
  <1>4. Candidates = Sorted(DocumentOrder, S)
    <2>1. \A d \in S : Before(DocumentOrder, S, d) = {e \in S : Ahead(Best(e), Best(d))}
      BY <1>2 DEF Before
    <2>2. ASSUME NEW i
          PROVE  (CHOOSE d \in S : Cardinality({e \in S : Ahead(Best(e), Best(d))}) = i - 1)
                 = CHOOSE d \in S : Cardinality(Before(DocumentOrder, S, d)) = i - 1
      BY <2>1
    <2> QED
      BY <2>2 DEF Candidates, Sorted
  <1>5. /\ n \in Nat
        /\ Candidates \in [1 .. n -> S]
        /\ \A x \in S : \E i \in 1 .. n : Candidates[i] = x
        /\ \A i, j \in 1 .. n : i < j <=> <<Candidates[i], Candidates[j]>> \in DocumentOrder
        /\ \A i, j \in 1 .. n : Candidates[i] = Candidates[j] => i = j
    BY <1>1, <1>3, <1>4, SortedSorts
  <1>6. Len(Candidates) = n
    BY <1>5
  <1> QED
    BY <1>2, <1>5, <1>6

\* Being ahead in every leg is being ahead in the fusion.
LEMMA DominanceFuses ==
    ASSUME RetrievalOK, NEW c \in Retrieved, NEW d \in Retrieved, Dominates(c, d)
    PROVE  Ahead(c, d)
  <1> DEFINE v == search.vector
             b == search.bm25
  <1>1. /\ d \in Range(v) => c \in Range(v) /\ Position(v, c) < Position(v, d)
        /\ d \in Range(b) => c \in Range(b) /\ Position(b, c) < Position(b, d)
    BY DEF Dominates, Legs
  <1>2. VectorWeight \in Nat /\ 1 \in Nat
    BY SearchAssumption
  <1>3. /\ Share(VectorWeight, v, c) \in Nat /\ Share(VectorWeight, v, d) \in Nat
        /\ Share(VectorWeight, v, d) <= Share(VectorWeight, v, c)
    BY <1>1, <1>2, ShareFalls DEF RetrievalOK
  <1>4. /\ Share(1, b, c) \in Nat /\ Share(1, b, d) \in Nat
        /\ Share(1, b, d) <= Share(1, b, c)
    BY <1>1, <1>2, ShareFalls DEF RetrievalOK
  <1>5. Score(d) <= Score(c) /\ Score(c) \in Nat /\ Score(d) \in Nat
    BY <1>3, <1>4 DEF Score
  <1>6. Inserted(c) < Inserted(d)
    <2>1. /\ Len(v) \in Nat
          /\ \A x \in Range(v) : Position(v, x) \in 1 .. Len(v)
          /\ \A x \in Range(b) : Position(b, x) \in 1 .. Len(b) /\ Len(b) \in Nat
      BY LegPositions DEF RetrievalOK
    <2>2. CASE d \in Range(v)
      BY <1>1, <2>2 DEF Inserted
    <2>3. CASE d \notin Range(v)
      <3>1. d \in Range(b) /\ c \in Range(b) /\ Position(b, c) < Position(b, d)
        BY <1>1, <2>3 DEF Retrieved
      <3> QED
        BY <2>1, <2>3, <3>1 DEF Inserted
    <2> QED
      BY <2>2, <2>3
  <1> QED
    BY <1>5, <1>6 DEF Ahead

\* A fusion of legs never contradicts them where they agree.
LEMMA LegsRespected == RetrievalOK => FusionRespectsLegs
  <1> SUFFICES ASSUME RetrievalOK,
                      NEW i \in DOMAIN Candidates, NEW j \in DOMAIN Candidates, i < j,
                      NEW c \in Retrieved, DocumentOf[c] = Candidates[j],
                      Dominates(c, Best(Candidates[i]))
               PROVE  FALSE
    BY DEF FusionRespectsLegs
  <1>1. /\ i \in 1 .. Len(Candidates) /\ j \in 1 .. Len(Candidates)
        /\ Candidates[i] \in RetrievedDocuments /\ Candidates[j] \in RetrievedDocuments
        /\ Ahead(Best(Candidates[i]), Best(Candidates[j]))
    BY CandidatesSorted
  <1> DEFINE bi == Best(Candidates[i])
             bj == Best(Candidates[j])
  <1>2. /\ bi \in Retrieved /\ bj \in Retrieved
        /\ c # bj => Ahead(bj, c)
    BY <1>1, BestIsBest
  <1>3. Ahead(c, bi)
    BY <1>2, DominanceFuses
  <1>4. /\ StrictOrder(ChunkOrder, Retrieved)
        /\ \A x, y \in Retrieved : <<x, y>> \in ChunkOrder <=> Ahead(x, y)
    BY FusionOrders DEF ChunkOrder
  <1> HIDE DEF bi, bj
  <1>5. Ahead(bi, bj)
    BY <1>1 DEF bi, bj
  <1>6. Ahead(bj, bi)
    BY <1>2, <1>3, <1>4 DEF StrictOrder
  <1> QED
    BY <1>2, <1>4, <1>5, <1>6 DEF StrictOrder

\* Without the BM25 leg the fused order is the vector order.
LEMMA VectorOrder ==
    ASSUME RetrievalOK, search.bm25 = <<>>
    PROVE  /\ Retrieved = Range(search.vector)
           /\ \A c, d \in Retrieved :
                 Ahead(c, d) <=> Position(search.vector, c) < Position(search.vector, d)
  <1> DEFINE v == search.vector
  <1>1. Range(search.bm25) = {}
    BY DEF Range
  <1>2. Retrieved = Range(v)
    BY <1>1 DEF Retrieved
  <1>3. /\ VectorWeight \in Nat /\ 1 \in Nat
        /\ \A c \in Range(v) : Position(v, c) \in 1 .. Len(v) /\ v[Position(v, c)] = c
        /\ Len(v) \in Nat
    BY LegPositions, SearchAssumption DEF RetrievalOK
  <1>4. ASSUME NEW c \in Retrieved, NEW d \in Retrieved, Position(v, c) < Position(v, d)
        PROVE  Ahead(c, d)
    <2>1. /\ Dominates(c, d)
      BY <1>1, <1>2, <1>3, <1>4 DEF Dominates, Legs
    <2> QED
      BY <2>1, DominanceFuses
  <1>5. /\ StrictOrder(ChunkOrder, Retrieved)
        /\ \A x, y \in Retrieved : <<x, y>> \in ChunkOrder <=> Ahead(x, y)
    BY FusionOrders DEF ChunkOrder
  <1>6. ASSUME NEW c \in Retrieved, NEW d \in Retrieved, Ahead(c, d)
        PROVE  Position(v, c) < Position(v, d)
    <2>1. ~Ahead(d, c) /\ c # d
      BY <1>5, <1>6 DEF StrictOrder
    <2>2. ~(Position(v, d) < Position(v, c))
      BY <1>4, <2>1
    <2>3. Position(v, d) # Position(v, c)
      BY <1>2, <1>3, <2>1
    <2>4. Position(v, c) \in Nat /\ Position(v, d) \in Nat
      BY <1>2, <1>3
    <2> QED
      BY <2>2, <2>3, <2>4
  <1> QED
    BY <1>2, <1>4, <1>6

\* Then a document's first rank in the vector leg is that of its best chunk.
LEMMA FirstRankIsBest ==
    ASSUME RetrievalOK, search.bm25 = <<>>, NEW d \in RetrievedDocuments
    PROVE  FirstRank(search.vector, d) = Position(search.vector, Best(d))
  <1> DEFINE v == search.vector
             k == Position(v, Best(d))
             Is(i) == DocumentOf[v[i]] = d /\ \A j \in 1 .. i - 1 : DocumentOf[v[j]] # d
  <1>1. Best(d) \in Retrieved /\ DocumentOf[Best(d)] = d
    BY BestIsBest
  <1>2. /\ Len(v) \in Nat /\ DOMAIN v = 1 .. Len(v)
        /\ k \in 1 .. Len(v) /\ v[k] = Best(d)
        /\ \A i \in 1 .. Len(v) : v[i] \in Retrieved /\ Position(v, v[i]) = i
    BY <1>1, VectorOrder, LegPositions DEF RetrievalOK
  <1>3. \A i \in 1 .. Len(v) : DocumentOf[v[i]] = d => k <= i
    <2> SUFFICES ASSUME NEW i \in 1 .. Len(v), DocumentOf[v[i]] = d, i # k PROVE k < i
      BY <1>2
    <2>1. v[i] \in Retrieved \ {Best(d)}
      BY <1>2
    <2>2. Ahead(Best(d), v[i])
      BY <2>1, BestIsBest
    <2> QED
      BY <1>1, <1>2, <2>1, <2>2, VectorOrder
  <1> HIDE DEF k
  <1>4. Is(k)
    BY <1>1, <1>2, <1>3
  <1>5. ASSUME NEW i \in 1 .. Len(v), Is(i) PROVE i = k
    <2>1. k <= i
      BY <1>3, <1>5
    <2>2. ~(k < i)
      BY <1>1, <1>2, <1>5
    <2> QED
      BY <1>2, <2>1, <2>2
  <1>6. FirstRank(v, d) = CHOOSE i \in 1 .. Len(v) : Is(i)
    BY <1>2 DEF FirstRank
  <1> HIDE DEF Is
  <1> QED
    BY <1>2, <1>4, <1>5, <1>6 DEF k

\* The documents are met in the order of their first ranks.
LEMMA DegradedOrder == RetrievalOK /\ (~search.bm25Used => search.bm25 = <<>>) => DegradesToVectorOrder
  <1> SUFFICES ASSUME RetrievalOK, search.bm25 = <<>>
               PROVE  /\ RetrievedDocuments = {DocumentOf[c] : c \in Range(search.vector)}
                      /\ \A i, j \in DOMAIN Candidates :
                            i < j => FirstRank(search.vector, Candidates[i])
                                     < FirstRank(search.vector, Candidates[j])
    BY DEF DegradesToVectorOrder
  <1>1. RetrievedDocuments = {DocumentOf[c] : c \in Range(search.vector)}
    BY VectorOrder DEF RetrievedDocuments
  <1>2. ASSUME NEW i \in DOMAIN Candidates, NEW j \in DOMAIN Candidates, i < j
        PROVE  FirstRank(search.vector, Candidates[i]) < FirstRank(search.vector, Candidates[j])
    <2>1. /\ Candidates[i] \in RetrievedDocuments /\ Candidates[j] \in RetrievedDocuments
          /\ Ahead(Best(Candidates[i]), Best(Candidates[j]))
      BY <1>2, CandidatesSorted
    <2>2. Best(Candidates[i]) \in Retrieved /\ Best(Candidates[j]) \in Retrieved
      BY <2>1, BestIsBest
    <2> QED
      BY <2>1, <2>2, VectorOrder, FirstRankIsBest
  <1> QED
    BY <1>1, <1>2

-----------------------------------------------------------------------------
(* Reranking. *)

\* An answer of the reranker, or the fused order.
Reorderings == Rankings(Range(Top), Len(Top))

\* The hits are cut from an order of what the reranker was asked about.
HitsFromTop ==
    \E ordered \in Reorderings :
       search.hits = Hits(ordered) /\ (~search.reranked => ordered = Top)

\* What the reranker is asked about: the first of the candidates.
LEMMA TopIsFirst ==
    ASSUME RetrievalOK
    PROVE  /\ Len(Top) \in Nat /\ Len(Top) <= Len(Candidates) /\ Len(Top) <= RerankCandidates
           /\ Top \in [1 .. Len(Top) -> RetrievedDocuments]
           /\ \A i \in 1 .. Len(Top) : Top[i] = Candidates[i]
           /\ Top \in Reorderings
  <1> DEFINE n == Len(Candidates)
             m == Smaller(RerankCandidates, n)
  <1>1. /\ n \in Nat /\ Candidates \in [1 .. n -> RetrievedDocuments]
        /\ \A i, j \in 1 .. n : Candidates[i] = Candidates[j] => i = j
    BY CandidatesSorted
  <1>2. m \in Nat /\ m <= n /\ m <= RerankCandidates
    BY <1>1, SearchAssumption DEF Smaller
  <1>3. Top = [i \in 1 .. m |-> Candidates[i]]
    BY <1>1, <1>2 DEF Top
  <1> HIDE DEF m
  <1>4. Len(Top) = m /\ Top \in [1 .. m -> RetrievedDocuments]
    BY <1>1, <1>2, <1>3
  <1>5. Top \in [1 .. m -> Range(Top)]
    BY <1>3 DEF Range
  <1>6. Top \in Reorderings
    BY <1>1, <1>2, <1>3, <1>4, <1>5 DEF Reorderings, Rankings, Injection, IsInjective
  <1> QED
    BY <1>1, <1>2, <1>3, <1>4, <1>6

\* An order cut to the result limit: whose hits, how many, by which chunks.
LEMMA HitsOfOrder ==
    ASSUME RetrievalOK, NEW ordered \in Reorderings
    PROVE  /\ Len(Hits(ordered)) = Smaller(ResultLimit, Len(Top))
           /\ DOMAIN Hits(ordered) = 1 .. Smaller(ResultLimit, Len(Top))
           /\ DOMAIN Hits(ordered) \subseteq 1 .. Len(Top)
           /\ \A i \in DOMAIN Hits(ordered) :
                 /\ Hits(ordered)[i] = [document |-> ordered[i], chunk |-> Best(ordered[i])]
                 /\ ordered[i] \in Range(Top) /\ ordered[i] \in RetrievedDocuments
           /\ \A i, j \in DOMAIN Hits(ordered) : ordered[i] = ordered[j] => i = j
  <1> DEFINE m == Len(Top)
             n == Smaller(ResultLimit, m)
  <1>1. /\ m \in Nat /\ Top \in [1 .. m -> RetrievedDocuments]
        /\ ordered \in [1 .. m -> Range(Top)]
        /\ \A i, j \in 1 .. m : ordered[i] = ordered[j] => i = j
    BY TopIsFirst DEF Reorderings, Rankings, Injection, IsInjective
  <1>2. Range(Top) \subseteq RetrievedDocuments
    BY <1>1 DEF Range
  <1> HIDE DEF m
  <1>3. n \in Nat /\ n <= m
    BY <1>1, SearchAssumption DEF Smaller
  <1>4. Len(ordered) = m
    BY <1>1
  <1>5. Hits(ordered) = [i \in 1 .. n |-> [document |-> ordered[i], chunk |-> Best(ordered[i])]]
    BY <1>4 DEF Hits
  <1> HIDE DEF n
  <1>6. Len(Hits(ordered)) = n /\ DOMAIN Hits(ordered) = 1 .. n
    BY <1>3, <1>5
  <1> QED
    BY <1>1, <1>2, <1>3, <1>5, <1>6 DEF m, n

\* Every reordering of what the reranker was asked about keeps the promises
\* made for the hits.
LEMMA NothingGated ==
    ASSUME RetrievalOK, search.pc = "ranked" => HitsFromTop
    PROVE  RerankNeverGates
  <1> SUFFICES ASSUME search.pc = "ranked" PROVE RerankNeverGates
    BY DEF RerankNeverGates
  <1>1. PICK ordered \in Reorderings :
           search.hits = Hits(ordered) /\ (~search.reranked => ordered = Top)
    BY DEF HitsFromTop
  <1>2. /\ Len(search.hits) = Smaller(ResultLimit, Len(Top))
        /\ DOMAIN search.hits \subseteq 1 .. Len(Top)
        /\ \A i \in DOMAIN search.hits :
              /\ search.hits[i] = [document |-> ordered[i], chunk |-> Best(ordered[i])]
              /\ ordered[i] \in Range(Top)
        /\ \A i, j \in DOMAIN search.hits : ordered[i] = ordered[j] => i = j
    BY <1>1, HitsOfOrder
  <1>3. \A i \in DOMAIN search.hits :
           search.hits[i].document = ordered[i] /\ search.hits[i].chunk = Best(ordered[i])
    <2> SUFFICES ASSUME NEW i \in DOMAIN search.hits
                 PROVE  search.hits[i].document = ordered[i] /\ search.hits[i].chunk = Best(ordered[i])
      OBVIOUS
    <2>1. search.hits[i] = [document |-> ordered[i], chunk |-> Best(ordered[i])]
      BY <1>2
    <2> QED
      BY <2>1
  <1>4. IsInjective(DocumentsOf(search.hits)) /\ Range(DocumentsOf(search.hits)) \subseteq Range(Top)
    <2>1. DocumentsOf(search.hits) = [i \in DOMAIN search.hits |-> search.hits[i].document]
      BY DEF DocumentsOf
    <2>2. /\ DOMAIN DocumentsOf(search.hits) = DOMAIN search.hits
          /\ \A i \in DOMAIN search.hits : DocumentsOf(search.hits)[i] = ordered[i]
      BY <1>3, <2>1
    <2>3. \A i \in DOMAIN search.hits : ordered[i] \in Range(Top)
      BY <1>2
    <2>4. \A i, j \in DOMAIN search.hits : ordered[i] = ordered[j] => i = j
      BY <1>2
    <2>5. Range(DocumentsOf(search.hits)) \subseteq Range(Top)
      <3> SUFFICES ASSUME NEW i \in DOMAIN search.hits
                   PROVE  DocumentsOf(search.hits)[i] \in Range(Top)
        BY <2>2 DEF Range
      <3> QED
        BY <2>2, <2>3
    <2>6. IsInjective(DocumentsOf(search.hits))
      BY <2>2, <2>4 DEF IsInjective
    <2> QED
      BY <2>5, <2>6
  <1>5. ~search.reranked => \A i \in DOMAIN search.hits : search.hits[i].document = Candidates[i]
    BY <1>1, <1>2, <1>3, TopIsFirst
  <1> QED
    BY <1>2, <1>3, <1>4, <1>5 DEF RerankNeverGates

\* A document's rank in a leg: 0 if none of its chunks is there, else no worse
\* than the position of any.
LEMMA RankInLeg ==
    ASSUME NEW r, IsLeg(r), NEW d
    PROVE  /\ DocumentRank(r, d) # 0 <=> \E c \in Range(r) : DocumentOf[c] = d
           /\ \A c \in Range(r) : DocumentOf[c] = d => DocumentRank(r, d) \in 1 .. Position(r, c)
  <1> DEFINE at == {i \in DOMAIN r : DocumentOf[r[i]] = d}
  <1>1. /\ Len(r) \in Nat /\ DOMAIN r = 1 .. Len(r)
        /\ \A c \in Range(r) : Position(r, c) \in 1 .. Len(r) /\ r[Position(r, c)] = c
        /\ \A i \in 1 .. Len(r) : r[i] \in Range(r)
    BY LegPositions
  <1>2. at \in SUBSET Nat /\ 0 \notin at
    BY <1>1
  <1>3. at # {} <=> \E c \in Range(r) : DocumentOf[c] = d
    BY <1>1
  <1>4. \A c \in Range(r) : DocumentOf[c] = d => Position(r, c) \in at
    BY <1>1
  <1>5. DocumentRank(r, d) = IF at = {} THEN 0 ELSE CHOOSE i \in at : \A j \in at : i <= j
    BY DEF DocumentRank
  <1> HIDE DEF at
  <1>6. at # {} => DocumentRank(r, d) \in at /\ \A j \in at : DocumentRank(r, d) <= j
    <2>1. at # {} => \E m \in at : \A t \in at : m <= t
      BY <1>2, LeastNatural
    <2> QED
      BY <1>5, <2>1
  <1>7. at = {} => DocumentRank(r, d) = 0
    BY <1>5
  <1>8. ASSUME NEW c \in Range(r), DocumentOf[c] = d
        PROVE  DocumentRank(r, d) \in 1 .. Position(r, c)
    <2>1. Position(r, c) \in at /\ DocumentRank(r, d) \in at
          /\ DocumentRank(r, d) <= Position(r, c)
      BY <1>4, <1>6, <1>8
    <2>2. Position(r, c) \in Nat /\ DocumentRank(r, d) \in Nat /\ DocumentRank(r, d) # 0
      BY <1>2, <2>1
    <2> QED
      BY <2>1, <2>2
  <1> QED
    BY <1>2, <1>3, <1>6, <1>7, <1>8

\* Every stage of an explanation is where the search put the document.
LEMMA Accounted ==
    ASSUME RetrievalOK, search.pc = "ranked" => HitsFromTop
    PROVE  ExplainAccounts
  <1> SUFFICES ASSUME search.pc = "ranked" PROVE ExplainAccounts
    BY DEF ExplainAccounts
  <1> DEFINE NoWorse(rank, r, c) == c \in Range(r) => rank \in 1 .. Position(r, c)
  <1>1. ASSUME NEW d \in Documents
        PROVE  d \in Range(Candidates) <=> \E r \in Legs : DocumentRank(r, d) # 0
    <2>1. d \in Range(Candidates) <=> d \in RetrievedDocuments
      BY CandidatesSorted DEF Range
    <2>2. d \in RetrievedDocuments <=> \E r \in Legs : \E c \in Range(r) : DocumentOf[c] = d
      BY DEF RetrievedDocuments, Retrieved, Legs
    <2>3. \A r \in Legs : DocumentRank(r, d) # 0 <=> \E c \in Range(r) : DocumentOf[c] = d
      BY RankInLeg DEF Legs, RetrievalOK
    <2> QED
      BY <2>1, <2>2, <2>3
  <1>2. PICK ordered \in Reorderings :
           search.hits = Hits(ordered) /\ (~search.reranked => ordered = Top)
    BY DEF HitsFromTop
  <1>3. ASSUME NEW i \in DOMAIN search.hits
        PROVE  LET from == Provenance(search.hits)[i]
               IN /\ NoWorse(from.vector, search.vector, search.hits[i].chunk)
                  /\ NoWorse(from.bm25, search.bm25, search.hits[i].chunk)
                  /\ from.fused <= RerankCandidates
                  /\ ~search.reranked => from.fused = from.final
    <2> DEFINE d == ordered[i]
    <2>1. /\ search.hits[i].document = d /\ search.hits[i].chunk = Best(d)
          /\ d \in Range(Top) /\ d \in RetrievedDocuments /\ i \in 1 .. Len(Top)
      BY <1>2, <1>3, HitsOfOrder
    <2>2. /\ Provenance(search.hits)[i].vector = DocumentRank(search.vector, d)
          /\ Provenance(search.hits)[i].bm25 = DocumentRank(search.bm25, d)
          /\ Provenance(search.hits)[i].fused = Position(Candidates, d)
          /\ Provenance(search.hits)[i].final = i
      BY <1>3, <2>1 DEF Provenance
    <2>3. DocumentOf[Best(d)] = d
      BY <2>1, BestIsBest
    <2>4. \A k \in 1 .. Len(Top) : Position(Candidates, Top[k]) = k
      BY TopIsFirst, CandidatesSorted DEF Position
    <2>5. PICK k \in 1 .. Len(Top) : d = Top[k]
      BY <2>1, TopIsFirst DEF Range
    <2>6. Position(Candidates, d) = k /\ k <= RerankCandidates
      BY <2>4, <2>5, TopIsFirst, SearchAssumption
    <2>7. ~search.reranked => Position(Candidates, d) = i
      BY <1>2, <2>1, <2>4
    <2> HIDE DEF d
    <2>8. /\ NoWorse(DocumentRank(search.vector, d), search.vector, Best(d))
          /\ NoWorse(DocumentRank(search.bm25, d), search.bm25, Best(d))
      BY <2>3, RankInLeg DEF RetrievalOK
    <2> QED
      BY <2>1, <2>2, <2>6, <2>7, <2>8
  <1> QED
    BY <1>1, <1>3 DEF ExplainAccounts

-----------------------------------------------------------------------------
(* The pipeline. *)

\* The legs are rankings of chunks; a leg that was dropped is empty; the hits
\* are cut from what the reranker was asked about.
RInv ==
    /\ RetrievalOK
    /\ search.pc \in {"new", "embedded", "vector"} => search.bm25Used /\ search.bm25 = <<>>
    /\ ~search.bm25Used => search.bm25 = <<>>
    /\ search.pc = "ranked" => HitsFromTop

\* An empty leg is a leg; any answer of a leg is one.
LEMMA LegsAnswer ==
    /\ IsLeg(<<>>)
    /\ \A n \in 0 .. Smaller(CandidatePool, Cardinality(Searchable)) :
          \A r \in Rankings(Searchable, n) : IsLeg(r)
    /\ Smaller(CandidatePool, Cardinality(Searchable)) \in Nat
  <1>1. CandidatePool \in Nat
    BY SearchAssumption
  <1>2. <<>> \in Rankings(Chunks, 0)
    BY DEF Rankings, Injection, IsInjective
  <1>3. Searchable \subseteq Chunks /\ Cardinality(Searchable) \in Nat
    BY SearchAssumption, FS_Subset, FS_CardinalityType DEF Searchable
  <1>4. ASSUME NEW n \in 0 .. Smaller(CandidatePool, Cardinality(Searchable)),
               NEW r \in Rankings(Searchable, n)
        PROVE  IsLeg(r)
    <2>1. n \in 0 .. CandidatePool
      BY <1>1, <1>3 DEF Smaller
    <2>2. r \in Rankings(Chunks, n)
      BY <1>3 DEF Rankings, Injection
    <2> QED
      BY <2>1, <2>2 DEF IsLeg
  <1> QED
    BY <1>1, <1>2, <1>3, <1>4 DEF IsLeg, Smaller

\* What was retrieved determines the candidates: a step that leaves the legs
\* alone leaves the fusion alone.
LEMMA SameFusion ==
    ASSUME search'.vector = search.vector, search'.bm25 = search.bm25
    PROVE  /\ Top' = Top /\ Reorderings' = Reorderings
           /\ \A ordered : Hits(ordered)' = Hits(ordered)
  <1>1. Retrieved' = Retrieved
    BY DEF Retrieved
  <1>2. \A c : Score(c)' = Score(c) /\ Inserted(c)' = Inserted(c)
    BY DEF Score, Inserted
  <1>3. \A c, d : Ahead(c, d)' <=> Ahead(c, d)
    BY <1>2 DEF Ahead
  <1>4. RetrievedDocuments' = RetrievedDocuments
    BY <1>1 DEF RetrievedDocuments
  <1>5. \A d : Best(d)' = Best(d)
    BY <1>1, <1>3 DEF Best
  <1>6. Candidates' = Candidates
    <2>1. \A d : {e \in RetrievedDocuments : Ahead(Best(e), Best(d))}'
                 = {e \in RetrievedDocuments : Ahead(Best(e), Best(d))}
      BY <1>3, <1>4, <1>5
    <2> QED
      BY <1>4, <2>1 DEF Candidates
  <1>7. Top' = Top
    BY <1>6 DEF Top
  <1> QED
    BY <1>5, <1>7 DEF Hits, Reorderings

\* Nothing is retrieved to begin with.
LEMMA InitRInv == Init => RInv
  BY LegsAnswer DEF Init, NewSearch, RInv, RetrievalOK

\* Retrieval: each leg is asked once, or dropped.
LEMMA LegsRInv == IInv /\ RInv /\ (EmbedQuery \/ EmbedFails \/ VectorLeg \/ Bm25Leg \/ Bm25LegFails) => RInv'
  <1> SUFFICES ASSUME IInv, RInv,
                      EmbedQuery \/ EmbedFails \/ VectorLeg \/ Bm25Leg \/ Bm25LegFails
               PROVE  RInv'
    OBVIOUS
  <1>0. search = [pc |-> search.pc, vector |-> search.vector, bm25 |-> search.bm25,
                  bm25Used |-> search.bm25Used, hits |-> search.hits,
                  reranked |-> search.reranked, row |-> search.row]
    BY DEF IInv, WellFormed
  <1>1. CASE EmbedQuery \/ EmbedFails \/ Bm25LegFails
    <2>1. /\ search'.vector = search.vector /\ search'.bm25 = search.bm25
          /\ search.pc \in {"new", "vector"}
          /\ search'.pc \in {"embedded", "unavailable", "retrieved"}
          /\ search'.pc = "embedded" => search.pc = "new" /\ search'.bm25Used = search.bm25Used
      BY <1>0, <1>1 DEF EmbedQuery, EmbedFails, Bm25LegFails
    <2> QED
      BY <2>1 DEF RInv, RetrievalOK
  <1>2. CASE VectorLeg
    <2>1. PICK ranking \in Rankings(Searchable, Smaller(CandidatePool, Cardinality(Searchable))) :
             search' = [search EXCEPT !.pc = "vector", !.vector = ranking]
      BY <1>2 DEF VectorLeg
    <2>2. IsLeg(ranking)
      BY LegsAnswer
    <2> QED
      BY <1>0, <1>2, <2>1, <2>2 DEF VectorLeg, RInv, RetrievalOK
  <1>3. CASE Bm25Leg
    <2>1. PICK n \in 0 .. Smaller(CandidatePool, Cardinality(Searchable)) :
             \E ranking \in Rankings(Searchable, n) :
                search' = [search EXCEPT !.pc = "retrieved", !.bm25 = ranking]
      BY <1>3 DEF Bm25Leg
    <2>2. PICK ranking \in Rankings(Searchable, n) :
             search' = [search EXCEPT !.pc = "retrieved", !.bm25 = ranking]
      BY <2>1
    <2>3. IsLeg(ranking)
      BY LegsAnswer
    <2> QED
      BY <1>0, <1>3, <2>2, <2>3 DEF Bm25Leg, RInv, RetrievalOK
  <1> QED
    BY <1>1, <1>2, <1>3

\* Reranking: the hits are cut from the reranker's order, or the fused one.
LEMMA RerankRInv == IInv /\ RInv /\ (Rerank \/ RerankFails) => RInv'
  <1> SUFFICES ASSUME IInv, RInv, Rerank \/ RerankFails PROVE RInv'
    OBVIOUS
  <1>0. search = [pc |-> search.pc, vector |-> search.vector, bm25 |-> search.bm25,
                  bm25Used |-> search.bm25Used, hits |-> search.hits,
                  reranked |-> search.reranked, row |-> search.row]
    BY DEF IInv, WellFormed
  <1>1. /\ search'.vector = search.vector /\ search'.bm25 = search.bm25
        /\ search'.bm25Used = search.bm25Used /\ search'.pc = "ranked"
    BY <1>0 DEF Rerank, RerankFails
  <1>2. Reorderings' = Reorderings /\ Top' = Top /\ \A ordered : Hits(ordered)' = Hits(ordered)
    BY <1>1, SameFusion
  <1>3. \E ordered \in Reorderings : search'.hits = Hits(ordered) /\ (~search'.reranked => ordered = Top)
    <2>1. CASE Rerank
      <3>1. PICK order \in RerankOrders :
               search' = [search EXCEPT !.pc = "ranked", !.reranked = TRUE,
                                        !.hits = Hits([i \in DOMAIN Top |-> Top[order[i]]])]
        BY <2>1 DEF Rerank
      <3>2. [i \in DOMAIN Top |-> Top[order[i]]] \in Reorderings
        <4>1. Len(Top) \in Nat /\ Top \in Reorderings
          BY TopIsFirst DEF RInv
        <4>2. /\ Top \in [1 .. Len(Top) -> Range(Top)]
              /\ \A i, j \in 1 .. Len(Top) : Top[i] = Top[j] => i = j
          BY <4>1 DEF Reorderings, Rankings, Injection, IsInjective
        <4>3. /\ order \in [1 .. Len(Top) -> 1 .. Len(Top)]
              /\ \A i, j \in 1 .. Len(Top) : order[i] = order[j] => i = j
          BY <4>2 DEF RerankOrders, Rankings, Injection, IsInjective
        <4> QED
          BY <4>2, <4>3 DEF Reorderings, Rankings, Injection, IsInjective
      <3> QED
        BY <1>0, <3>1, <3>2
    <2>2. CASE RerankFails
      <3>1. Top \in Reorderings
        BY TopIsFirst DEF RInv
      <3> QED
        BY <1>0, <2>2, <3>1 DEF RerankFails
    <2> QED
      BY <2>1, <2>2
  <1>4. HitsFromTop'
    BY <1>2, <1>3 DEF HitsFromTop
  <1> QED
    BY <1>1, <1>4 DEF RInv, RetrievalOK

\* A step that leaves the search alone leaves the hits where they were.
LEMMA SearchAlone == RInv /\ UNCHANGED search => RInv'
  <1> SUFFICES ASSUME RInv, UNCHANGED search PROVE RInv'
    OBVIOUS
  <1>1. Reorderings' = Reorderings /\ Top' = Top /\ \A ordered : Hits(ordered)' = Hits(ordered)
    BY SameFusion
  <1>2. HitsFromTop => HitsFromTop'
    BY <1>1 DEF HitsFromTop
  <1> QED
    BY <1>2 DEF RInv, RetrievalOK

\* Every step keeps what was retrieved and what is made of it in agreement.
LEMMA NextRInv == IInv /\ RInv /\ [Next]_vars => RInv'
  <1> SUFFICES ASSUME IInv, RInv, [Next]_vars PROVE RInv'
    OBVIOUS
  <1>0. search = [pc |-> search.pc, vector |-> search.vector, bm25 |-> search.bm25,
                  bm25Used |-> search.bm25Used, hits |-> search.hits,
                  reranked |-> search.reranked, row |-> search.row]
    BY DEF IInv, WellFormed
  <1>1. CASE EmbedQuery \/ EmbedFails \/ VectorLeg \/ Bm25Leg \/ Bm25LegFails
    BY <1>1, LegsRInv
  <1>2. CASE Rerank \/ RerankFails
    BY <1>2, RerankRInv
  <1>3. CASE InsertLog \/ Respond
    <2>1. /\ search'.pc \in {"logged", "answered"}
          /\ search'.vector \in {search.vector, <<>>}
          /\ search'.bm25 \in {search.bm25, <<>>}
          /\ search'.bm25Used = search.bm25Used
      BY <1>0, <1>3 DEF InsertLog, Respond
    <2> QED
      BY <2>1, LegsAnswer DEF RInv, RetrievalOK
  <1>4. CASE CommitSearch \/ SearchAborts
    BY <1>4, LegsAnswer DEF CommitSearch, SearchAborts, NewSearch, RInv, RetrievalOK
  <1>5. CASE \/ \E d \in Documents : PublishDocument(d)
             \/ \E k \in Clicks : ReadRow(k) \/ CommitClick(k)
             \/ UNCHANGED vars
    BY <1>5, SearchAlone DEF PublishDocument, ReadRow, CommitClick, vars
  <1> QED
    BY <1>1, <1>2, <1>3, <1>4, <1>5 DEF Next, Handle

\* The legs, the candidates and the hits fit in every reachable state.
THEOREM RankingInvariance == Spec => []RInv
  BY InitRInv, NextRInv, Invariance, PTL DEF Spec

\* Fusion never contradicts the legs where they agree, whatever the weights,
\* the pools and the ties (search/service.py:230-240).
THEOREM AgreementKept == Spec => []FusionRespectsLegs
  <1>1. RInv => FusionRespectsLegs
    BY LegsRespected DEF RInv
  <1> QED
    BY <1>1, RankingInvariance, PTL

\* A search whose BM25 leg is dropped answers in vector order
\* (search/service.py:351).
THEOREM DegradesInOrder == Spec => []DegradesToVectorOrder
  <1>1. RInv => DegradesToVectorOrder
    BY DegradedOrder DEF RInv
  <1> QED
    BY <1>1, RankingInvariance, PTL

\* With or without the reranker as many documents are answered, each once and
\* by its best chunk (search/service.py:394-401).
THEOREM RerankerNeverGates == Spec => []RerankNeverGates
  <1>1. RInv => RerankNeverGates
    BY NothingGated DEF RInv
  <1> QED
    BY <1>1, RankingInvariance, PTL

\* An explanation names the stage that lost a document or moved it
\* (search/service.py:260-288).
THEOREM ExplanationsAccount == Spec => []ExplainAccounts
  <1>1. RInv => ExplainAccounts
    BY Accounted DEF RInv
  <1> QED
    BY <1>1, RankingInvariance, PTL
=============================================================================
