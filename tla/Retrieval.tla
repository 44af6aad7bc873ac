------------------------------ MODULE Retrieval ------------------------------
(***************************************************************************)
(* app/rag/retriever.py and qa_service.py: the hybrid search over a        *)
(* project's index, the answer with its citations or its refusal, and the  *)
(* record a batch of questions leaves.  The two rankings come from FAISS   *)
(* and BM25 and are any sequences of chunks; the model's answer is one of  *)
(* those the service tells apart.                                          *)
(***************************************************************************)
EXTENDS Ranks

CONSTANTS
    ChunkDoc,         \* Seq: the document of each chunk that exists
    StaleHits,        \* numbers of chunks that only the searches still have
    TopK,             \* evidence asked for
    MaxQuestions      \* bound: questions

ASSUME RetrievalAssumption ==
    /\ IsFiniteSet(DOMAIN ChunkDoc) /\ IsFiniteSet(StaleHits) /\ StaleHits \cap DOMAIN ChunkDoc = {}
    /\ TopK \in Nat \ {0} /\ MaxQuestions \in Nat

VARIABLES
    search,           \* the search that runs: its two rankings
    evidence,         \* Seq of chunks: what it found
    answered,         \* Seq of results: QABenchmark.results
    bench             \* the counters of QABenchmark

qaVars == <<search, evidence, answered, bench>>

RrfK == 60
-----------------------------------------------------------------------------
ChunkIds == DOMAIN ChunkDoc

HitIds == ChunkIds \cup StaleHits

Rankings(ids) ==
    {q \in UNION {[1..n -> ids] : n \in 0..Cardinality(ids)} :
        \A i, j \in DOMAIN q : q[i] = q[j] => i = j}

RankIn(q, h) == CHOOSE i \in DOMAIN q : q[i] = h

Has(q, h) == \E i \in DOMAIN q : q[i] = h

\* Mutant: a rank counts without the constant.
WeightBare(q, h) == IF Has(q, h) THEN <<1, RankIn(q, h)>> ELSE <<0, 1>>

\* What a ranking adds to the score of a hit.  A score is the pair of its
\* numerator and denominator.
Weight(q, h) == IF Has(q, h) THEN <<1, RrfK + RankIn(q, h)>> ELSE <<0, 1>>

Sum(x, y) == <<x[1] * y[2] + y[1] * x[2], x[2] * y[2]>>

Greater(x, y) == x[1] * y[2] > y[1] * x[2]

RrfScore(s, h) == Sum(Weight(s.dense, h), Weight(s.lexical, h))

\* Where a hit came into the score map: vectors first.
MapPlace(s, h) ==
    IF Has(s.dense, h) THEN RankIn(s.dense, h) ELSE Len(s.dense) + RankIn(s.lexical, h)

\* A hit is sorted before another: a greater score, of equals the earlier one.
Above(s, g, h) ==
    \/ Greater(RrfScore(s, g), RrfScore(s, h))
    \/ /\ ~Greater(RrfScore(s, h), RrfScore(s, g))
       /\ MapPlace(s, g) <= MapPlace(s, h)

Hits(s) == {h \in HitIds : Has(s.dense, h) \/ Has(s.lexical, h)}

\* _rrf_merge: the best by score.
RrfMerge(s) ==
    LET most == IF Cardinality(Hits(s)) < TopK THEN Cardinality(Hits(s)) ELSE TopK
    IN  [n \in 1..most |->
            CHOOSE h \in Hits(s) : Cardinality({g \in Hits(s) : Above(s, g, h)}) = n]

Best(q) == IF Len(q) <= TopK THEN q ELSE SubSeq(q, 1, TopK)

Existing(q) == ElementsAt(q, {i \in DOMAIN q : q[i] \in ChunkIds})

\* Mutant: the score of the vectors is not asked for.
FoundWeak(s) ==
    IF s.lexicalOnly THEN Existing(Best(s.lexical)) ELSE Existing(RrfMerge(s))

\* search of an index that is built, for a question that is not blank: without
\* a lexical hit the vectors must be close; hits whose chunk is gone are skipped.
Found(s) ==
    IF s.lexicalOnly THEN Existing(Best(s.lexical))
    ELSE IF s.lexical = <<>> /\ ~s.close THEN <<>>
    ELSE Existing(RrfMerge(s))

NoSearch == [dense |-> <<>>, lexical |-> <<>>, close |-> FALSE, lexicalOnly |-> FALSE, built |-> FALSE]
-----------------------------------------------------------------------------
Categories == {"factual", "cross_file", "no_answer", "other"}

\* What the service can tell of an answer: it refuses among its first words,
\* it refuses later, it names a source, or it names none.
Answers == {"refuses", "refuses_later", "cites", "bare"}

SourcesOf(q) == {ChunkDoc[q[i]] : i \in DOMAIN q}

\* Mutant: a refusal despite evidence counts as a hit.
ResultHit(found, answer, category) ==
    [category |-> category, hit |-> found # <<>>, refused |-> found = <<>> \/ answer = "refuses",
     cited |-> found = <<>> \/ answer \in {"refuses", "cites"},
     sources |-> IF found = <<>> \/ answer = "refuses" THEN {} ELSE SourcesOf(found)]

\* ask: without evidence a refusal, counted as cited correctly; an answer that
\* begins with a refusal is one; else the citations are looked for.
Result(found, answer, category) ==
    LET refused == found = <<>> \/ answer = "refuses"
    IN  [category |-> category, hit |-> ~refused, refused |-> refused,
         cited |-> refused \/ answer = "cites",
         sources |-> IF refused THEN {} ELSE SourcesOf(found)]

NoCounts == [total |-> 0, hits |-> [c \in Categories |-> 0], cited |-> [c \in Categories |-> 0],
             asked |-> [c \in Categories |-> 0], refused |-> 0]

One(condition) == IF condition THEN 1 ELSE 0

\* Mutant: refusals are counted in every category.
RecordAnyRefusal(b, r) ==
    [b EXCEPT !.total = @ + 1, !.asked[r.category] = @ + One(r.category # "other"),
              !.hits[r.category] = @ + One(r.hit /\ r.category \in {"factual", "cross_file"}),
              !.cited[r.category] = @ + One(r.cited /\ r.category \in {"factual", "cross_file"}),
              !.refused = @ + One(r.refused)]

\* QABenchmark.record: a category it does not know is only part of the total.
Record(b, r) ==
    [b EXCEPT !.total = @ + 1, !.asked[r.category] = @ + One(r.category # "other"),
              !.hits[r.category] = @ + One(r.hit /\ r.category \in {"factual", "cross_file"}),
              !.cited[r.category] = @ + One(r.cited /\ r.category \in {"factual", "cross_file"}),
              !.refused = @ + One(r.refused /\ r.category = "no_answer")]

Robust == {"factual", "cross_file"}

\* hit_rate and citation_rate, as a numerator over the questions that count.
Total(counts) == counts["factual"] + counts["cross_file"]

\* A question is searched for.
AskQuestion(s) ==
    /\ search = NoSearch /\ bench.total < MaxQuestions
    /\ search' = s /\ evidence' = IF s.built THEN Found(s) ELSE <<>>
    /\ UNCHANGED <<answered, bench>>

\* ask and record, once the model has answered; without evidence it is not
\* asked, and the answer is a refusal.
AnswerQuestion(answer, category) ==
    /\ search # NoSearch /\ (evidence = <<>> => answer = "refuses")
    /\ answered' = Append(answered, Result(evidence, answer, category))
    /\ bench' = Record(bench, Result(evidence, answer, category))
    /\ search' = NoSearch /\ evidence' = <<>>

\* The model cannot be asked: the exception leaves the batch.
AnswerFails ==
    /\ search # NoSearch /\ evidence # <<>>
    /\ search' = NoSearch /\ evidence' = <<>>
    /\ answered' = <<>> /\ bench' = NoCounts

QaInit == search = NoSearch /\ evidence = <<>> /\ answered = <<>> /\ bench = NoCounts

Searches ==
    {s \in [dense : Rankings(HitIds), lexical : Rankings(HitIds), close : BOOLEAN,
            lexicalOnly : BOOLEAN, built : BOOLEAN] :
        /\ Len(s.dense) <= 3 * TopK /\ Len(s.lexical) <= 3 * TopK
        /\ s.lexicalOnly => s.dense = <<>>
        /\ s.close => s.dense # <<>>
        /\ ~s.built => s.lexical = <<>> /\ s.lexicalOnly}

QaStep ==
    \/ \E s \in Searches : AskQuestion(s)
    \/ \E answer \in Answers, category \in Categories : AnswerQuestion(answer, category)
    \/ AnswerFails

QaSpec == QaInit /\ [][QaStep]_qaVars
-----------------------------------------------------------------------------
QaTypeOK ==
    /\ \A i \in DOMAIN evidence : evidence[i] \in ChunkIds
    /\ Len(evidence) <= TopK /\ bench.total = Len(answered)

\* Of two chunks the one both searches found comes before one that only one of
\* them found, however high: ranks are fused, not compared (retriever.py:89-111).
BothBeatOne ==
    ~search.lexicalOnly =>
        \A i, j \in DOMAIN evidence :
            (Has(search.dense, evidence[j]) /\ Has(search.lexical, evidence[j])
             /\ ~(Has(search.dense, evidence[i]) /\ Has(search.lexical, evidence[i]))) => j < i

\* Evidence is never made of weak neighbours alone, and what is found is
\* answered from a chunk that exists (retriever.py:26-87).
NoWeakEvidence ==
    evidence # <<>> => search.lexical # <<>> \/ search.close

\* The counters say what the results say, category by category: a question
\* that was refused is never a hit (qa_service.py:56-75, 150-200).
CountersRetellResults ==
    LET count(P(_)) == Cardinality({i \in DOMAIN answered : P(answered[i])})
    IN  /\ bench.refused = count(LAMBDA r : r.category = "no_answer" /\ r.refused)
        /\ \A c \in Robust :
               /\ bench.hits[c] = count(LAMBDA r : r.category = c /\ r.hit)
               /\ bench.cited[c] = count(LAMBDA r : r.category = c /\ r.cited)
        /\ \A i \in DOMAIN answered : answered[i].hit = (answered[i].sources # {})
        /\ Total(bench.hits) + count(LAMBDA r : r.category \in Robust /\ r.refused)
               = Total(bench.asked)
=============================================================================
