---------------------------- MODULE QualityBench ----------------------------
(***************************************************************************)
(* The retrieval benchmark of app/rag/quality_bench.py and                 *)
(* app/services/quality_metrics.py: cases are seeded into a table, each    *)
(* is put to the retriever, and the scores are aggregated, stored and      *)
(* compared.  run_benchmark asks every question twice: once for the result *)
(* it returns and once for the records it stores.                          *)
(* A document is a name, an answer is given or not.                        *)
(***************************************************************************)
EXTENDS Integers, Sequences, FiniteSets, Folds

CONSTANTS CaseIds,      \* the test_case_id values
          Corpus,       \* the documents a retriever may return
          CaseKinds,    \* the cases: category, relevant documents, flags
          DefaultCases, \* DEFAULT_BENCHMARK_CASES, by test_case_id
          MaxRuns,      \* bound on the benchmark runs
          MaxSeedings   \* bound on the seedings

ASSUME BenchAssumption ==
    /\ IsFiniteSet(CaseIds) /\ MaxRuns \in Nat /\ MaxSeedings \in Nat
    /\ \A c \in CaseKinds : IsFiniteSet(c.relevant)
    /\ DOMAIN DefaultCases \subseteq CaseIds /\ DefaultCases # <<>>
    /\ DefaultCases \in [DOMAIN DefaultCases -> CaseKinds]

VARIABLES dataset,    \* quality_bench_dataset, by test_case_id
          seedings,   \* how often the table was seeded
          asking,     \* the ids still to be asked in this pass
          passNo,     \* 1 while the result is computed, 2 while the records are
          memory,     \* what a repeatable retriever answered, by id
          repeatable, \* whether the retriever repeats its answers
          scores,     \* the scores of the pass, by id
          result,     \* the aggregate of the last run
          stored      \* quality_metric, one set of records per run

benchVars == <<dataset, seedings, asking, passNo, memory, repeatable, scores, result, stored>>

NoResult == [total |-> 0, passed |-> 0, failed |-> 0, perCategory |-> <<>>]

BenchInit ==
    /\ dataset = <<>> /\ seedings = 0
    /\ asking = {} /\ passNo = 0 /\ memory = <<>> /\ repeatable \in BOOLEAN
    /\ scores = <<>> /\ result = NoResult /\ stored = <<>>

-----------------------------------------------------------------------------
(* seed_benchmark_dataset: INSERT OR REPLACE on the unique test_case_id. *)
Seed(cases) ==
    /\ seedings < MaxSeedings /\ passNo = 0
    /\ dataset' = [id \in DOMAIN dataset \union DOMAIN cases |->
                      IF id \in DOMAIN cases THEN cases[id] ELSE dataset[id]]
    /\ seedings' = seedings + 1
    /\ UNCHANGED <<asking, passNo, memory, repeatable, scores, result, stored>>

(* run_benchmark loads the table, which it fills with the default cases first *)
(* when it is empty, and starts its first pass.                               *)
BeginRun ==
    /\ passNo = 0 /\ Len(stored) < MaxRuns
    /\ dataset' = IF dataset = <<>> THEN DefaultCases ELSE dataset
    /\ asking' = DOMAIN dataset' /\ passNo' = 1
    /\ memory' = <<>> /\ scores' = <<>>
    /\ UNCHANGED <<seedings, repeatable, result, stored>>

-----------------------------------------------------------------------------
(* Scoring.  A rate is the pair of its numerator and denominator. *)

(* Mutant: the retrieved documents are counted, not the distinct ones. *)
RecallOfHits(retrieved, relevant) ==
    IF relevant = {} THEN <<1, 1>>
    ELSE <<Cardinality({k \in DOMAIN retrieved : retrieved[k] \in relevant}), Cardinality(relevant)>>

(* compute_recall: with nothing to find the recall is perfect. *)
Recall(retrieved, relevant) ==
    IF relevant = {} THEN <<1, 1>>
    ELSE <<Cardinality({retrieved[k] : k \in DOMAIN retrieved} \intersect relevant), Cardinality(relevant)>>

(* compute_citation_accuracy: without citations there is nothing correct. *)
CitationAccuracy(cited, relevant) ==
    IF cited = {} THEN <<0, 1>> ELSE <<Cardinality(cited \intersect relevant), Cardinality(cited)>>

(* What a retriever may return: documents in any order, perhaps twice;        *)
(* citations among them; a refusal; an answer or none.                        *)
RetrieverAnswers == [retrieved : UNION {[1..n -> Corpus] : n \in 0..2},
            refused : BOOLEAN, answered : BOOLEAN]

(* evaluate_single_query *)
Score(case, answer) ==
    [category |-> case.category,
     recall |-> Recall(answer.retrieved, case.relevant),
     accuracy |-> CitationAccuracy({answer.retrieved[k] : k \in DOMAIN answer.retrieved}, case.relevant),
     judged |-> answer.refused = case.refuse,
     failed |-> case.expects /\ ~answer.answered]

(* One question of a pass. *)
AskCase(id) ==
    /\ id \in asking
    /\ \E answer \in IF repeatable /\ id \in DOMAIN memory THEN {memory[id]} ELSE RetrieverAnswers :
        /\ scores' = [i \in DOMAIN scores \union {id} |->
                         IF i = id THEN Score(dataset[id], answer) ELSE scores[i]]
        /\ memory' = [i \in DOMAIN memory \union {id} |-> IF i = id THEN answer ELSE memory[i]]
    /\ asking' = asking \ {id}
    /\ UNCHANGED <<dataset, seedings, passNo, repeatable, result, stored>>

AtLeastHalf(rate) == 2 * rate[1] >= rate[2]

PassedCases == {id \in DOMAIN scores : ~scores[id].failed /\ AtLeastHalf(scores[id].recall)}
CategoriesSeen == {scores[id].category : id \in DOMAIN scores}
CountIn(category) == Cardinality({id \in DOMAIN scores : scores[id].category = category})

(* Mutant: only the categories with a failed case are broken down. *)
AggregateFailures ==
    [total |-> Cardinality(DOMAIN scores), passed |-> Cardinality(PassedCases),
     failed |-> Cardinality(DOMAIN scores \ PassedCases),
     perCategory |-> [c \in {scores[id].category : id \in DOMAIN scores \ PassedCases} |-> CountIn(c)]]

(* evaluate_benchmark: a case passes on its recall and on having an answer;   *)
(* refusals do not count.                                                     *)
Aggregate ==
    [total |-> Cardinality(DOMAIN scores), passed |-> Cardinality(PassedCases),
     failed |-> Cardinality(DOMAIN scores \ PassedCases),
     perCategory |-> [c \in CategoriesSeen |-> CountIn(c)]]

(* The first pass becomes the result; every question is asked again. *)
FinishResult ==
    /\ passNo = 1 /\ asking = {}
    /\ result' = Aggregate
    /\ passNo' = 2 /\ asking' = DOMAIN dataset /\ scores' = <<>>
    /\ UNCHANGED <<dataset, seedings, memory, repeatable, stored>>

(* Mutant: the records of the first question of the pass are left out. *)
PersistMetricsLater ==
    /\ passNo = 2 /\ asking = {}
    /\ LET first == CHOOSE id \in DOMAIN scores : TRUE
       IN stored' = Append(stored, [id \in DOMAIN scores \ {first} |-> scores[id]])
    /\ passNo' = 0
    /\ UNCHANGED <<dataset, seedings, asking, memory, repeatable, scores, result>>

(* persist_metrics: the records of the second pass, in one commit. *)
PersistMetrics ==
    /\ passNo = 2 /\ asking = {}
    /\ stored' = Append(stored, scores)
    /\ passNo' = 0
    /\ UNCHANGED <<dataset, seedings, asking, memory, repeatable, scores, result>>

BenchStep ==
    \/ \E ids \in SUBSET CaseIds : ids # {} /\ \E cases \in [ids -> CaseKinds] : Seed(cases)
    \/ BeginRun \/ FinishResult \/ PersistMetrics
    \/ \E id \in CaseIds : AskCase(id)

BenchSpec == BenchInit /\ [][BenchStep]_benchVars
-----------------------------------------------------------------------------
(* Type correctness of the benchmark. *)
BenchTypeOK ==
    /\ DOMAIN dataset \subseteq CaseIds /\ \A id \in DOMAIN dataset : dataset[id] \in CaseKinds
    /\ asking \subseteq DOMAIN dataset /\ passNo \in 0..2
    /\ DOMAIN scores \subseteq DOMAIN dataset
    /\ \A id \in DOMAIN scores : \A rate \in {scores[id].recall, scores[id].accuracy} :
           rate[1] \in Nat /\ rate[2] \in Nat \ {0}
    /\ Len(stored) \in 0..MaxRuns /\ seedings \in 0..MaxSeedings
    /\ result.total \in 0..Cardinality(CaseIds)

(* Recall and citation accuracy are fractions of one, also when the retriever *)
(* returns a document twice (quality_bench.py compute_recall,                 *)
(* compute_citation_accuracy).                                                *)
RatesAreFractions ==
    \A id \in DOMAIN scores : \A rate \in {scores[id].recall, scores[id].accuracy} :
        rate[1] <= rate[2]

(* The result accounts for every case once: passed and failed add up to the   *)
(* total, and so do the counts of the categories (quality_bench.py            *)
(* evaluate_benchmark).                                                       *)
ResultAccountsForAll ==
    /\ result.passed + result.failed = result.total
    /\ MapThenFoldSet(+, 0, LAMBDA c : result.perCategory[c], LAMBDA S : CHOOSE c \in S : TRUE,
                      DOMAIN result.perCategory) = result.total

(* With a retriever that repeats its answers, the records stored for a run    *)
(* are those its result was computed from, although every question was asked  *)
(* again for them (quality_metrics.py run_benchmark).                         *)
StoredRetellsResult ==
    (repeatable /\ passNo = 0 /\ stored # <<>> /\ scores # <<>>) =>
        LET records == stored[Len(stored)]
        IN /\ Cardinality(DOMAIN records) = result.total
           /\ Cardinality({id \in DOMAIN records : /\ ~records[id].failed
                                                   /\ AtLeastHalf(records[id].recall)}) = result.passed
=============================================================================
