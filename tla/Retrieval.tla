----------------------------- MODULE Retrieval -----------------------------
(***************************************************************************)
(* Hybrid retrieval.  A query is answered by a text search and a vector    *)
(* search; merge_hybrid_rankings fuses the two rankings by reciprocal      *)
(* rank.  The knowledge tool asks once for runbooks and once for incident  *)
(* reports, keeps what is on the allowlist, and cuts the union again.      *)
(*                                                                         *)
(* Scores are fractions; the weights 0.7 and 0.3 are 7 and 3.  A ranking   *)
(* gives every chunk its rank, 0 when the search did not find it.          *)
(***************************************************************************)
EXTENDS Integers, Sequences, FiniteSets

CONSTANTS
  Chunks,         \* the chunks of the index, numbered in the order of their ids
  DocTypes,       \* KNOWLEDGE_DOC_TYPES
  TypeOf,         \* the doc_type of a chunk
  Allowlisted,    \* chunks whose document is on the allowlist
  Rankings,       \* what a search may answer (bound)
  KnowledgeCap    \* KNOWLEDGE_CAP

RrfK == 60

(* How many hits each search is asked for.                                 *)
candidate_size(top_k) ==
  LET four == IF 4 * top_k < 20 THEN 20 ELSE 4 * top_k IN IF four > 50 THEN 50 ELSE four

ASSUME RetrievalAssumption ==
  /\ Chunks \subseteq Nat /\ IsFiniteSet(Chunks) /\ Allowlisted \subseteq Chunks
  /\ TypeOf \in [Chunks -> DocTypes]
  /\ Rankings \subseteq [Chunks -> 0 .. candidate_size(KnowledgeCap)]
  /\ KnowledgeCap \in Nat \ {0}

VARIABLES
  text, vector,   \* what the two searches answer (input)
  todo,           \* doc types not asked for yet
  by_id,          \* hits so far, with their scores
  result          \* the answer of the tool

retrievalVars == <<text, vector, todo, by_id, result>>

---------------------------------------------------------------------------
Fraction(n, d) == [n |-> n, d |-> d]
Plus(a, b) == Fraction(a.n * b.d + b.n * a.d, a.d * b.d)
Less(a, b) == a.n * b.d < b.n * a.d

(* BM25_WEIGHT and KNN_WEIGHT, in tenths.                                  *)
Weight(search) == IF search = "text" THEN 7 ELSE 3

(* Mutant: the better rank decides alone.                                  *)
Score_Best(c) ==
  LET Best(a, b) == IF Less(a, b) THEN b ELSE a
      Term(search, rank) ==
        IF rank = 0 THEN Fraction(0, 1) ELSE Fraction(Weight(search), RrfK + rank)
  IN  Best(Term("text", text[c]), Term("vector", vector[c]))

(* What a chunk earns in both rankings.                                    *)
Score(c) ==
  LET Term(search, rank) ==
        IF rank = 0 THEN Fraction(0, 1) ELSE Fraction(Weight(search), RrfK + rank)
  IN  Plus(Term("text", text[c]), Term("vector", vector[c]))

Hit(c) == [chunk |-> c, score |-> Score(c)]

(* Higher scores first, then by chunk id.                                  *)
Before(a, b) == Less(b.score, a.score) \/ (~Less(a.score, b.score) /\ a.chunk < b.chunk)

Ahead(hit, hits) == {other \in hits : Before(other, hit)}

(* The first n: the hit at place i is the one that i - 1 others precede.   *)
Top(n, hits) ==
  [i \in 1 .. (IF Cardinality(hits) < n THEN Cardinality(hits) ELSE n)
     |-> CHOOSE hit \in hits : Cardinality(Ahead(hit, hits)) = i - 1]

(* The two searches, both under the same filter.                           *)
Filtered(doc_type) == {c \in Chunks : TypeOf[c] = doc_type}
search_text(doc_type) == {c \in Filtered(doc_type) : text[c] # 0}
search_knn(doc_type) == {c \in Filtered(doc_type) : vector[c] # 0}

merge_hybrid_rankings(doc_type, top_k) ==
  LET found == search_text(doc_type) \cup search_knn(doc_type)
  IN  Top(top_k, {Hit(c) : c \in found})

---------------------------------------------------------------------------
(* RetrieveKnowledge.execute for one doc type, then the allowlist.         *)
Execute(doc_type) ==
  /\ doc_type \in todo
  /\ LET top == merge_hybrid_rankings(doc_type, KnowledgeCap)
     IN  by_id' = by_id \cup {top[i] : i \in {j \in DOMAIN top : top[j].chunk \in Allowlisted}}
  /\ todo' = todo \ {doc_type}
  /\ UNCHANGED <<text, vector, result>>

Merge ==
  /\ todo = {} /\ result = <<>> /\ by_id # {}
  /\ result' = Top(KnowledgeCap, by_id)
  /\ UNCHANGED <<text, vector, todo, by_id>>

RetrievalInit ==
  /\ text \in Rankings /\ vector \in Rankings
  /\ todo = DocTypes
  /\ by_id = {}
  /\ result = <<>>

RetrievalNext == (\E doc_type \in DocTypes : Execute(doc_type)) \/ Merge

RetrievalSpec == RetrievalInit /\ [][RetrievalNext]_retrievalVars

---------------------------------------------------------------------------
(* Properties.                                                             *)

Found == {c \in Allowlisted : text[c] # 0 \/ vector[c] # 0}

(* Cutting each doc type and then the union loses nothing: a chunk that    *)
(* was found and left out is beaten by everything in a full answer.  The   *)
(* allowlist is applied between the two cuts, so this needs an index that  *)
(* holds allowlisted documents only, as ingest leaves it; a document taken *)
(* off the list and left in the index takes a place in the first cut.      *)
CutsLoseNothing ==
  result # <<>> =>
    LET given == {result[i].chunk : i \in DOMAIN result}
    IN  /\ given \subseteq Found
        /\ \A c \in Found \ given :
             /\ Cardinality(given) = KnowledgeCap
             /\ \A i \in DOMAIN result : Before(result[i], Hit(c))

(* A chunk both searches found comes before one that only one of them      *)
(* found, at any ranks among the twenty candidates.  (Up to 27 candidates: *)
(* 7/(60 + n) + 3/(60 + n) > 7/61 up to there.)                            *)
BothBeatsOne ==
  \A a, b \in Chunks :
    text[a] # 0 /\ vector[a] # 0 /\ (text[b] = 0 \/ vector[b] = 0) => Less(Score(b), Score(a))

(* A chunk the text search found comes before one that only the vector     *)
(* search found, however low the one and high the other: vectors add       *)
(* chunks to an answer only when the text search found too few.            *)
TextBeatsVectorOnly ==
  \A a, b \in Chunks : text[a] # 0 /\ text[b] = 0 => Less(Score(b), Score(a))

(* The answer is the best of what both searches found, in the order that   *)
(* the weights are meant to give.                                          *)
RanksAreFused == CutsLoseNothing /\ BothBeatsOne /\ TextBeatsVectorOnly
===========================================================================
