------------------------------ MODULE Retrieval ------------------------------
(***************************************************************************)
(* retrieve_relevant_samples of flywheel/retriever.py: the examples for a  *)
(* question out of two rankings of the sample library, fused, scored by a  *)
(* model and filtered.  The rankings themselves (BM25, or bigrams when it  *)
(* fails; vectors, or nothing when that fails) and the model's answer are  *)
(* external: any order, any answer.                                        *)
(***************************************************************************)
EXTENDS Integers, Sequences, FiniteSets

CONSTANTS
  Samples,    \* ids of the library
  Pool,       \* get_positives(limit): the best Pool of them are ranked by words
  TopK,       \* FLYWHEEL_RETRIEVAL_TOP_K
  K,          \* the constant of the rank fusion: 60
  Penalties,  \* what the quality of a sample may cost it, in hundredths
  Grades      \* the model's grades: 1..5

ASSUME RetrievalAssumption ==
  /\ Pool \in Nat /\ TopK \in Nat \ {0} /\ K \in Nat \ {0}
  /\ Penalties \subseteq Nat /\ Grades \subseteq Nat

VARIABLES
  stage,     \* asked, fused, picked, done
  penalty,   \* of each sample
  sparse, dense,   \* the two rankings
  fused,     \* the samples by fused rank
  result     \* the examples, best first: [id, similarity]

retVars == <<stage, penalty, sparse, dense, fused, result>>

Ids(s) == {s[i] : i \in 1..Len(s)}
Distinct(s) == \A i, j \in 1..Len(s) : s[i] = s[j] => i = j
Rankings(S, n) == {s \in UNION {[1..m -> S] : m \in 0..n} : Distinct(s)}
Smaller(a, b) == IF a < b THEN a ELSE b

RetInit ==
  /\ stage = "asked"
  /\ penalty \in [Samples -> Penalties]
  /\ sparse = <<>> /\ dense = <<>> /\ fused = <<>> /\ result = <<>>

-----------------------------------------------------------------------------
(* _rrf_fusion: the sum of 1 / (K + rank) over the rankings a sample is in,   *)
(* as a fraction.                                                            *)

Rank(s, id) == CHOOSE i \in 1..Len(s) : s[i] = id

Single(r)  == [num |-> 1, den |-> K + r]
Both(r, q) == [num |-> (K + r) + (K + q), den |-> (K + r) * (K + q)]
Above(x, y) == x.num * y.den > y.num * x.den

\* Mutant: the second ranking replaces the score of the first.
RRFLast(s, d, id) == IF id \in Ids(d) THEN Single(Rank(d, id)) ELSE Single(Rank(s, id))

RRF(s, d, id) ==
  IF id \notin Ids(d) THEN Single(Rank(s, id))
  ELSE IF id \notin Ids(s) THEN Single(Rank(d, id))
  ELSE Both(Rank(s, id), Rank(d, id))

\* Ties stay in the order of entry: the words' ranking first.
Entry(s, d, id) == IF id \in Ids(s) THEN Rank(s, id) ELSE Len(s) + Rank(d, id)

Precedes(s, d, a, b) ==
  \/ Above(RRF(s, d, a), RRF(s, d, b))
  \/ /\ ~Above(RRF(s, d, b), RRF(s, d, a))
     /\ Entry(s, d, a) < Entry(s, d, b)

Fusion(s, d) ==
  LET all == Ids(s) \cup Ids(d)
  IN [i \in 1..Cardinality(all) |->
        CHOOSE id \in all : Cardinality({x \in all : Precedes(s, d, x, id)}) = i - 1]

\* Both rankings are asked; the words' has every candidate (at most three times TopK),
\* the vectors' any, or none on any failure.
AskLibrary ==
  /\ stage = "asked"
  /\ \E P \in SUBSET Samples :
       /\ Cardinality(P) <= Pool
       /\ P # {}
       /\ sparse' \in {s \in Rankings(P, Cardinality(P)) : Len(s) = Smaller(Cardinality(P), 3 * TopK)}
  /\ dense' \in Rankings(Samples, 2 * TopK)
  /\ fused' = IF dense' = <<>> THEN sparse' ELSE Fusion(sparse', dense')
  /\ stage' = "fused"
  /\ UNCHANGED <<penalty, result>>

\* An empty library gives no examples.
AskEmptyLibrary ==
  /\ stage = "asked"
  /\ stage' = "done"
  /\ UNCHANGED <<penalty, sparse, dense, fused, result>>

-----------------------------------------------------------------------------
(* _llm_rerank and _quality_rerank.                                          *)

Example(id, similarity) == [id |-> id, similarity |-> similarity]

\* The best TopK entries of the answer, of which those with a valid number are used.
BestEntries(answer) ==
  LET before(i, j) == answer[i][2] > answer[j][2] \/ (answer[i][2] = answer[j][2] /\ i < j)
  IN {i \in 1..Len(answer) : Cardinality({j \in 1..Len(answer) : before(j, i)}) < TopK}

\* A number counts once, with the best of its grades.
Used(answer) ==
  {i \in BestEntries(answer) :
     /\ answer[i][1] \in 1..Len(fused)
     /\ \A j \in BestEntries(answer) :
          answer[j][1] = answer[i][1] => answer[j][2] < answer[i][2] \/ (answer[j][2] = answer[i][2] /\ i <= j)}

\* The examples by what is left of their similarity after the penalties, those under
\* five hundredths left out.  seen: [place, id, similarity], one per example.
Adjusted(e) == IF e.similarity > penalty[e.id] THEN e.similarity - penalty[e.id] ELSE 0
Filtered(seen) ==
  LET kept == {e \in seen : Adjusted(e) >= 5}
      before(x, y) == Adjusted(x) > Adjusted(y) \/ (Adjusted(x) = Adjusted(y) /\ x.place < y.place)
  IN [i \in 1..Cardinality(kept) |->
        LET e == CHOOSE x \in kept : Cardinality({y \in kept : before(y, x)}) = i - 1
        IN Example(e.id, Adjusted(e))]

\* The model is asked only when there are more than TopK.  A shorter answer is one with
\* numbers beyond the list.
Grade ==
  /\ stage = "fused" /\ Len(fused) > TopK
  /\ \E answer \in [1..TopK + 1 -> (1..Len(fused) + 1) \X Grades] :
       /\ Used(answer) # {}
       /\ result' = Filtered({[place |-> 100 * (6 - answer[i][2]) + i, id |-> fused[answer[i][1]],
                               similarity |-> 20 * answer[i][2]] : i \in Used(answer)})
  /\ stage' = "done"
  /\ UNCHANGED <<penalty, sparse, dense, fused>>

\* No more than TopK, or no usable answer: the first ones, which bear no similarity, so
\* that it counts as 0 and the filter drops them all, where the docstring promises "LLM
\* unavailable -> skip re-ranking, return top RRF results".
TakeFirst ==
  /\ stage = "fused"
  /\ result' = Filtered({[place |-> i, id |-> fused[i], similarity |-> 0] : i \in 1..Smaller(TopK, Len(fused))})
  /\ stage' = "done"
  /\ UNCHANGED <<penalty, sparse, dense, fused>>

RetNext == AskLibrary \/ AskEmptyLibrary \/ Grade \/ TakeFirst

RetSpec == RetInit /\ [][RetNext]_retVars

-----------------------------------------------------------------------------
\* A sample that words and vectors both found comes before every sample that only one of
\* them found, wherever it stands in them; and one that stands before another in both is
\* before it in the fusion.
FusionAgrees ==
  \A i, j \in 1..Len(fused) :
    LET a == fused[i]  b == fused[j]  common == Ids(sparse) \cap Ids(dense) IN
    dense # <<>> =>
      /\ a \in common /\ b \notin common => i < j
      /\ {a, b} \subseteq common /\ Rank(sparse, a) < Rank(sparse, b) /\ Rank(dense, a) < Rank(dense, b) => i < j

=============================================================================
