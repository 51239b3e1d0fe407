------------------------------- MODULE HybridSearch -------------------------------
(***************************************************************************)
(* One search of the Python backend: a list from the vector index and a    *)
(* list by keywords are fused by reciprocal rank, a reranker looks at the  *)
(* first of them, and if neither list has anything two simpler providers   *)
(* are asked.  Every one of these may fail without the search failing.     *)
(*                                                                         *)
(* The texts are kept as the terms of the query that occur in them.  What  *)
(* BM25 makes of frequencies and lengths is left out: a text that scores   *)
(* at all may come anywhere in its list.  Fused and blended scores are     *)
(* fractions with one denominator, of which the numerators are compared.   *)
(*                                                                         *)
(* A definition marked [variant] is a faulty form of the one after it.     *)
(* Nothing uses it: it is there to show that a property notices the fault. *)
(***************************************************************************)
EXTENDS Integers, Sequences, FiniteSets, SequencesExt, Selections

CONSTANTS
  Chunks,      \* the chunks of the corpus the request may see
  Terms,       \* the terms of the query
  Candidates,  \* PYTHON_RERANK_CANDIDATE_COUNT
  MaxScore,    \* bounds the scores of the reranker
  TopK,        \* topK of the request
  CommonUnit   \* the denominator of the fused scores

ASSUME HybridBounds ==
  /\ IsFiniteSet(Chunks) /\ Candidates \in Nat \ {0} /\ MaxScore \in Nat /\ TopK \in Nat
  /\ CommonUnit \in Nat \ {0} /\ \A rank \in 1..Cardinality(Chunks) : CommonUnit % (60 + rank) = 0

VARIABLES
  titles,   \* titles[q]: the chunks with term q in the title
  texts,    \* texts[q]: those with it in the text
  stage,    \* how far the search is
  dense,    \* what the vector index answered, nothing if it failed or there is none
  keyword,  \* what BM25 answered
  fused,    \* the fused list
  scored,   \* what the reranker answered, a score for some of the candidates
  found     \* the chunks of the response

corpus == <<titles, texts>>
hybridVars == <<corpus, stage, dense, keyword, fused, scored, found>>

Occurrences == [Terms -> SUBSET Chunks]
Has(s, c) == \E i \in DOMAIN s : s[i] = c
RankIn(s, c) == CHOOSE i \in DOMAIN s : s[i] = c
Before(s, a, b) == Has(s, a) /\ (Has(s, b) => RankIn(s, a) < RankIn(s, b))
Orders(S) == SetToSeqs(S)
\* The orders a sort by score, highest first, may leave.
SortedBy(S, Score(_)) == {s \in Orders(S) : \A i, j \in DOMAIN s : i < j => Score(s[i]) >= Score(s[j])}
FirstOf(s, n) == SubSeq(s, 1, IF n < Len(s) THEN n ELSE Len(s))

HybridTypeOK ==
  /\ titles \in Occurrences /\ texts \in Occurrences
  /\ stage \in {"dense", "keyword", "fuse", "rerank", "fallback", "done"}
  /\ \A s \in {dense, keyword, fused, found} : s \in Seq(Chunks) /\ \A i, j \in DOMAIN s : s[i] = s[j] => i = j
  /\ DOMAIN scored \subseteq Chunks /\ \A c \in DOMAIN scored : scored[c] \in 0..MaxScore

HybridInit ==
  /\ titles \in Occurrences /\ texts \in Occurrences
  /\ stage = "dense" /\ dense = <<>> /\ keyword = <<>> /\ fused = <<>> /\ found = <<>>
  /\ scored = [c \in {} |-> 0]

-----------------------------------------------------------------------------
(* The two lists *)

\* The index holds some of the chunks, and orders them as it likes.
DenseSearch ==
  /\ stage = "dense" /\ stage' = "keyword"
  /\ \E S \in SUBSET Chunks : dense' \in Orders(S)
  /\ UNCHANGED <<corpus, keyword, fused, scored, found>>

\* What BM25 finds: how often a term occurs is counted in the texts alone, so a title
\* counts for a term only if the term is in some text.
ScoresByKeyword(c) == \E q \in Terms : c \in texts[q] \/ (c \in titles[q] /\ texts[q] # {})

KeywordSearch ==
  /\ stage = "keyword" /\ stage' = "fuse"
  /\ keyword' \in Orders({c \in Chunks : ScoresByKeyword(c)})
  /\ UNCHANGED <<corpus, dense, fused, scored, found>>

\* It fails: the list is empty.
KeywordFails ==
  /\ stage = "keyword" /\ stage' = "fuse"
  /\ UNCHANGED <<corpus, dense, keyword, fused, scored, found>>

-----------------------------------------------------------------------------
(* Fusion *)

\* 1 / (60 + rank) in units of 1 / CommonUnit.
Reciprocal(rank) == CommonUnit \div (60 + rank)

\* [variant] A chunk the list lacks counts as one of rank 0.
ShareOrZeroth(s, c) == Reciprocal(IF Has(s, c) THEN RankIn(s, c) ELSE 0)

Share(s, c) == IF Has(s, c) THEN Reciprocal(RankIn(s, c)) ELSE 0

FusedScore(c) == Share(dense, c) + Share(keyword, c)

InALists == {c \in Chunks : Has(dense, c) \/ Has(keyword, c)}

Fuse ==
  /\ stage = "fuse"
  /\ fused' \in SortedBy(InALists, FusedScore)
  /\ stage' = IF InALists = {} THEN "fallback" ELSE "rerank"
  /\ UNCHANGED <<corpus, dense, keyword, scored, found>>

-----------------------------------------------------------------------------
(* Reranking *)

Respond(s) ==
  /\ stage' = "done"
  /\ found' = FirstOf(s, IF TopK > 1 THEN TopK ELSE 1)

\* The reranker fails, or has no answer: the fused list stands.
RerankFails ==
  /\ stage = "rerank"
  /\ Respond(fused)
  /\ UNCHANGED <<corpus, dense, keyword, fused, scored>>

Least(f) == CHOOSE v \in {f[c] : c \in DOMAIN f} : \A c \in DOMAIN f : v <= f[c]
Most(f) == CHOOSE v \in {f[c] : c \in DOMAIN f} : \A c \in DOMAIN f : v >= f[c]

\* The reranking service answers with scores of documents, not necessarily of all.  The
\* code takes every result in turn, so a service that scored a document twice would have it
\* listed twice; here it scores a document once.
RerankerAnswers(candidates) ==
  UNION {[answered -> 0..MaxScore] : answered \in (SUBSET candidates) \ {{}}}

\* The numerator and the denominator of _normalize.
Above(f, c) == IF Most(f) <= Least(f) THEN (IF f[c] > 0 THEN 1 ELSE 0) ELSE f[c] - Least(f)
Spread(f) == IF Most(f) <= Least(f) THEN 1 ELSE Most(f) - Least(f)

\* With the default weights, 0.3 and 0.7.
BlendedScore(candidates, scores, c) ==
  LET retrieval == [d \in candidates |-> FusedScore(d)]
  IN 3 * Above(retrieval, c) * Spread(scores) + 7 * Above(scores, c) * Spread(retrieval)

\* The chunks the reranker scored, in the order of the blended scores; then those
\* that were not candidates.
Rerank ==
  /\ stage = "rerank"
  /\ LET candidates == {c \in Chunks : Has(FirstOf(fused, Candidates), c)}
         remaining == SelectIn(fused, Chunks \ candidates)
     IN \E scores \in RerankerAnswers(candidates) :
          LET Blended(c) == BlendedScore(candidates, scores, c) IN
          /\ scored' = scores
          /\ \E s \in SortedBy(DOMAIN scores, Blended) : Respond(s \o remaining)
  /\ UNCHANGED <<corpus, dense, keyword, fused>>

-----------------------------------------------------------------------------
(* The providers that are asked last *)

\* Finished tasks by title and text, and the demonstration chunks.
MatchesTerm(c) == \E q \in Terms : c \in titles[q] \cup texts[q]

Fallback ==
  /\ stage = "fallback"
  /\ \E s \in Orders({c \in Chunks : MatchesTerm(c)}) : Respond(s)
  /\ UNCHANGED <<corpus, dense, keyword, fused, scored>>

\* One of them, or both, fail.
FallbackFails ==
  /\ stage = "fallback"
  /\ \E S \in SUBSET {c \in Chunks : MatchesTerm(c)} : \E s \in Orders(S) : Respond(s)
  /\ UNCHANGED <<corpus, dense, keyword, fused, scored>>

HybridNext ==
  \/ DenseSearch \/ KeywordSearch \/ KeywordFails \/ Fuse
  \/ Rerank \/ RerankFails \/ Fallback \/ FallbackFails

HybridSpec == HybridInit /\ [][HybridNext]_hybridVars

-----------------------------------------------------------------------------
(* Properties *)

\* A chunk that is ahead of another in every list that has either is ahead of it in the
\* response, unless the reranker scored it lower or left it out - whatever
\* the ranks, the ties and the scores - and nothing either list found is lost but by a
\* reranker that leaves candidates out and by the cut.
SearchIsSound ==
  stage = "done" /\ fused # <<>> =>
    /\ \A a, b \in Chunks :
         /\ \A s \in {dense, keyword} : Has(s, b) => Before(s, a, b)
         /\ Has(dense, b) \/ Has(keyword, b)
         /\ {a, b} \subseteq DOMAIN scored => scored[a] >= scored[b]
         /\ Has(found, a) /\ Has(found, b)
         => Before(found, a, b)
    /\ \A c \in Chunks :
         /\ Has(dense, c) \/ Has(keyword, c)
         /\ c \in DOMAIN scored \/ DOMAIN scored = {} \/ ~Has(FirstOf(fused, Candidates), c)
         /\ Len(fused) <= TopK
         => Has(found, c)
=============================================================================
